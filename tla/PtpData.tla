------------------------------ MODULE PtpData ------------------------------
(***************************************************************************)
(* The datasets of data.c: numbers, strings and arrays on the wire, object *)
(* info, storage info, device info and property descriptions, and the list *)
(* of values a description is shown with.                                  *)
(*                                                                         *)
(* A packet is a sequence of bytes; an offset counts from 0.  A reader     *)
(* returns what it stored and the offset it goes on at.                    *)
(***************************************************************************)
EXTENDS Integers, Sequences, SequencesExt

CONSTANTS NameMax, DateMax, TextMax, \* sizeof the string fields: 64, 32, 128
          ArrayMax,                  \* members of the shortest array: 32
          DataLength                 \* r->data_length

ASSUME SizesAssumption ==
  NameMax \in Nat /\ DateMax \in Nat /\ TextMax \in Nat /\ ArrayMax \in Nat
ASSUME DataLengthAssumption == DataLength \in Nat

Unset == "unset"           \* a field nothing was stored to

\* The buffer behind a packet: zeros here.
At(d, i) == IF i < Len(d) THEN d[i + 1] ELSE 0

-----------------------------------------------------------------------------
(* Numbers: ptp_write_u8, u16 and u32 and their readers, for numbers of at *)
(* most three bytes, or negative ones: TLC has no larger integers.         *)
Place == <<1, 256, 65536, 16777216>>
Le(n, v) == [i \in 1..n |-> IF i > 4 THEN (IF v < 0 THEN 255 ELSE 0)
                                     ELSE (v \div Place[i]) % 256]
Unsigned(d, of, n) ==
  At(d, of) + (IF n > 1 THEN 256 * At(d, of + 1) ELSE 0) + (IF n > 2 THEN 65536 * At(d, of + 2) ELSE 0)
\* The cast to int or short: the highest byte carries the sign.
Signed(d, of, n) ==
  LET top == At(d, of + n - 1)
  IN  Unsigned(d, of, n - 1) + (IF top > 127 THEN top - 256 ELSE top) * Place[n]

-----------------------------------------------------------------------------
(* Strings.  A string in memory is a sequence of characters without NUL;   *)
(* "open" says that no terminator was stored behind it.                    *)
SmallerOf(a, b) == IF a < b THEN a ELSE b
LargerOf(a, b) == IF a > b THEN a ELSE b
BeforeNul(s) ==
  LET n == SelectInSeq(s, LAMBDA c : c = 0) IN IF n = 0 THEN s ELSE SubSeq(s, 1, n - 1)

Char(w) == IF w > 128 THEN 63 ELSE IF w # 0 /\ w < 32 THEN 32 ELSE w

\* Mutant: the loop stops one character later.
ReadStringLong(d, of, max) ==
  LET length == At(d, of)
      k == SmallerOf(length, max)
      cells == [i \in 1..k |-> Char(Unsigned(d, of + 2 * i - 1, 2))]
  IN  IF length = 0 THEN [str |-> <<>>, open |-> FALSE, top |-> 1, of |-> of + 1]
      ELSE [str |-> BeforeNul(cells), open |-> cells[k] # 0,
            top |-> IF cells[k] = 0 THEN k + 1 ELSE k, of |-> of + 1 + 2 * k]

\* ptp_read_string: at most max - 1 units are taken (one at least), those
\* behind them stay unread; the terminator follows a last unit of 0 only.
\* "top" counts the chars of the caller's buffer that were written.
ReadString(d, of, max) ==
  LET length == At(d, of)
      k == SmallerOf(length, LargerOf(1, max - 1))
      cells == [i \in 1..k |-> Char(Unsigned(d, of + 2 * i - 1, 2))]
  IN  IF length = 0 THEN [str |-> <<>>, open |-> FALSE, top |-> 1, of |-> of + 1]
      ELSE [str |-> BeforeNul(cells), open |-> cells[k] # 0,
            top |-> IF cells[k] = 0 THEN k + 1 ELSE k, of |-> of + 1 + 2 * k]

\* The 16-bit units of a string.
Wide(s) == [i \in 1..2 * Len(s) |-> IF i % 2 = 1 THEN s[(i + 1) \div 2] ELSE 0]

\* ptp_write_string: the length byte counts the terminator.
WriteString(s) ==
  IF s = <<>> THEN <<0>>
  ELSE <<(Len(s) + 1) % 256>> \o Wide(s) \o <<0, 0>>

WriteUtf8String(s) == Append(s, 0)

\* ptp_read_utf8_string: the terminator goes behind max characters.
ReadUtf8String(d, of, max) ==
  LET s == BeforeNul(SubSeq(d, of + 1, Len(d)))
      k == SmallerOf(Len(s), LargerOf(max, 1))
  IN  [str |-> SubSeq(s, 1, k), open |-> FALSE, top |-> k + 1, of |-> of + k + 1]

\* ptp_write_unicode_string: of the terminator the second byte is written;
\* the first one is what the memory held.
WriteUnicodeString(s, memory) == Wide(s) \o <<memory, 0>>

\* ptp_read_unicode_string compares bytes taken with max characters, and
\* returns bytes instead of characters when it stops there.
ReadUnicodeString(d, max) ==
  LET low == BeforeNul([i \in 1..(Len(d) \div 2) |-> d[2 * i - 1]])
      stop == LargerOf(1, (max + 1) \div 2)
  IN  IF Len(low) < stop
        THEN [str |-> low, top |-> Len(low) + 1, returned |-> Len(low)]
        ELSE [str |-> SubSeq(low, 1, stop), top |-> stop + 1, returned |-> 2 * (stop - 1)]

-----------------------------------------------------------------------------
(* Datasets as lists of fields: a number of "size" bytes, a string or an  *)
(* array with the size of its member.                                      *)
U16(name) == [name |-> name, kind |-> "number", size |-> 2]
U32(name) == [name |-> name, kind |-> "number", size |-> 4]
U64(name) == [name |-> name, kind |-> "number", size |-> 8]
Str(name, max) == [name |-> name, kind |-> "string", size |-> max]
Arr(name, max) == [name |-> name, kind |-> "array", size |-> max]

\* ptp_read_uint16_array_s panics when the member is too short, or when less
\* than 4n + 4 bytes of the buffer are left.
ReadArray(d, of, max) ==
  LET n == Unsigned(d, of, 4)
  IN  [value |-> [i \in 1..n |-> Unsigned(d, of + 2 + 2 * i, 2)], of |-> of + 4 + 2 * n,
       panic |-> n > max \/ DataLength - of < 4 * n + 4]

ReadField(d, of, f) ==
  CASE f.kind = "number" -> [value |-> Unsigned(d, of, f.size), of |-> of + f.size, panic |-> FALSE]
    [] f.kind = "string" -> LET r == ReadString(d, of, f.size)
                            IN  [value |-> r.str, of |-> r.of, panic |-> FALSE]
    [] f.kind = "array"  -> ReadArray(d, of, f.size)
WriteField(f, v) == IF f.kind = "string" THEN WriteString(v) ELSE Le(f.size, v)

\* Every field, in the order of the list, read into the member it names.
ReadFields(d, fields) ==
  LET at[k \in 0..Len(fields)] == IF k = 0 THEN 0 ELSE ReadField(d, at[k - 1], fields[k]).of
  IN  [of |-> at[Len(fields)],
       values |-> [i \in 1..Len(fields) |->
                     <<fields[i].name, ReadField(d, at[i - 1], fields[i]).value>>],
       panic |-> \E i \in 1..Len(fields) : ReadField(d, at[i - 1], fields[i]).panic]
WriteFields(fields, v) ==
  FlattenSeq([i \in 1..Len(fields) |-> WriteField(fields[i], v[fields[i].name])])
Holds(pairs, v) == \A i \in 1..Len(pairs) : v[pairs[i][1]] = pairs[i][2]

ObjectInfoFields == <<
  U32("storage_id"), U16("obj_format"), U16("protection"), U32("compressed_size"),
  U16("thumb_format"), U32("thumb_compressed_size"), U32("thumb_width"),
  U32("thumb_height"), U32("img_width"), U32("img_height"), U32("img_bit_depth"),
  U32("parent_obj"), U16("assoc_type"), U32("assoc_desc"), U32("sequence_num"),
  Str("filename", NameMax), Str("date_created", DateMax),
  Str("date_modified", DateMax), Str("keywords", NameMax)>>

ParseObjectInfo(d) == ReadFields(d, ObjectInfoFields)

\* Mutant: two neighbours of one width are written in the wrong order.
PackObjectInfoSwapped(oi) ==
  WriteFields([ObjectInfoFields EXCEPT ![7] = U32("thumb_height"), ![8] = U32("thumb_width")], oi)

\* ptp_pack_object_info writes the members in the order they are parsed in.
PackObjectInfo(oi) == WriteFields(ObjectInfoFields, oi)

StorageInfoFields == <<
  U16("storage_type"), U16("fs_type"), U16("access_capability"), U64("max_capacity"),
  U64("free_space"), U32("free_objects"), Str("storage_desc", TextMax),
  Str("volume_identifier", TextMax)>>

\* ptp_parse_storage_info refuses less than the fixed fields.
ParseStorageInfo(d) == IF Len(d) < 26 THEN "runtime_err" ELSE ReadFields(d, StorageInfoFields)

-----------------------------------------------------------------------------
(* Device info, and lists of numbers.                                      *)
Arrays == {"ops_supported", "events_supported", "props_supported",
           "capture_formats", "playback_formats"}
DeviceInfoFields == <<
  U16("standard_version"), U32("vendor_ext_id"), U16("version"), Str("extensions", TextMax),
  U16("functional_mode"), Arr("ops_supported", ArrayMax), Arr("events_supported", ArrayMax),
  Arr("props_supported", ArrayMax), Arr("capture_formats", ArrayMax),
  Arr("playback_formats", ArrayMax), Str("manufacturer", TextMax), Str("model", TextMax),
  Str("device_version", NameMax), Str("serial_number", TextMax)>>

ParseDeviceInfo(d) == ReadFields(d, DeviceInfoFields)

\* dup_uint_array, for storage ids and object handles.
DupArray(d) == [i \in 1..Unsigned(d, 0, 4) |-> Unsigned(d, 4 * i, 4)]

-----------------------------------------------------------------------------
(* Property descriptions.                                                  *)
Scalars == {"INT8", "UINT8", "INT16", "UINT16", "INT32", "UINT32"}
Longs == {"INT64", "UINT64"}
ArrayTypes == {"UINT8ARRAY", "UINT16ARRAY", "UINT32ARRAY", "UINT64ARRAY"}
Types == Scalars \cup Longs \cup ArrayTypes \cup {"STRING"}

\* Bytes of a value, of a member of an array type.
Width(t) == CASE t \in {"INT8", "UINT8", "UINT8ARRAY"}     -> 1
              [] t \in {"INT16", "UINT16", "UINT16ARRAY"}  -> 2
              [] t \in {"INT32", "UINT32", "UINT32ARRAY"}  -> 4
              [] OTHER                                     -> 8

\* Mutant: the count of an array is not part of its size.
PropSizeItems(d, of, t) ==
  CASE t \in ArrayTypes -> Unsigned(d, of, 4) * Width(t)
    [] t = "STRING"     -> 1 + At(d, of) * 2
    [] OTHER            -> Width(t)

\* ptp_get_prop_size, and what parse_data_data_or_u32 copies.
PropSize(d, of, t) ==
  CASE t \in ArrayTypes -> 4 + Unsigned(d, of, 4) * Width(t)
    [] t = "STRING"     -> 1 + At(d, of) * 2
    [] OTHER            -> Width(t)

\* ptp_parse_data_u32: INT8 is read without its sign, what is longer than 32
\* bits is skipped.
ParseU32(d, of, t) ==
  CASE t \in {"INT8", "UINT8", "UINT16"}    -> Unsigned(d, of, Width(t))
    [] t \in {"INT16", "INT32", "UINT32"} -> Signed(d, of, Width(t))
    [] OTHER                              -> Unset

\* parse_data_data_or_u32: a number, or a copy of the bytes.
ParseValue(d, of, t) ==
  [u32 |-> ParseU32(d, of, t),
   data |-> IF t \in Scalars THEN Unset ELSE SubSeq(d, of + 1, of + PropSize(d, of, t)),
   of |-> of + PropSize(d, of, t)]

\* ptp_parse_prop_value guesses the type from the length of the payload.
ParsePropValue(d) == CASE Len(d) \in {1, 2} -> Unsigned(d, 0, Len(d))
                       [] Len(d) = 4        -> Signed(d, 0, 4)
                       [] OTHER             -> -1

RangeForm == 1
EnumerationForm == 2

\* The values of an enumeration, one behind the other.
EnumSize(d, of, t, n) ==
  LET size[k \in 0..n] == IF k = 0 THEN 0 ELSE size[k - 1] + PropSize(d, of + size[k - 1], t)
  IN  size[n]

\* ptp_parse_prop_desc; a form that is neither makes it panic.
ParsePropDesc(d, types) ==
  LET t == types[Unsigned(d, 2, 2)]
      default == ParseValue(d, 5, t)
      current == ParseValue(d, default.of, t)
      form == At(d, current.of)
      of == current.of + 1
      max == of + PropSize(d, of, t)
      step == max + PropSize(d, max, t)
      n == Unsigned(d, of, 2)
  IN  [code |-> Unsigned(d, 0, 2), type |-> t, read_only |-> At(d, 4),
       default |-> default, current |-> current, form |-> form,
       panic |-> form \notin {RangeForm, EnumerationForm},
       range |-> IF form = RangeForm
                   THEN <<ParseU32(d, of, t), ParseU32(d, max, t), ParseU32(d, step, t)>>
                   ELSE <<>>,
       length |-> IF form = EnumerationForm THEN n ELSE 0,
       data |-> IF form = EnumerationForm
                  THEN SubSeq(d, of + 3, of + 2 + EnumSize(d, of + 2, t, n)) ELSE <<>>]

-----------------------------------------------------------------------------
(* The lists of ptp_prop_desc_json and ptp_device_info_json: items with    *)
(* what follows each.                                                      *)
Item(value, end) == [value |-> value, end |-> end]

\* Mutant: the test for the last item compares with the length.
ListedComma(vals) ==
  [i \in 1..Len(vals) |-> Item(vals[i], IF i - 1 >= Len(vals) THEN "" ELSE ",")]

\* "if (i >= length - 1)", i counts from 0.
Listed(vals) ==
  [i \in 1..Len(vals) |-> Item(vals[i], IF i - 1 >= Len(vals) - 1 THEN "" ELSE ",")]

\* for (i = min; i < max; i += step): only an upward step gets there.
Endless == "the first of an endless list"
RangeItems(min, max, step) ==
  LET n == IF min >= max THEN 0 ELSE (max - min + step - 1) \div step
      i(k) == min + (k - 1) * step
  IN  IF min < max /\ step <= 0 THEN <<Item(min, Endless)>>
      ELSE [k \in 1..n |-> Item(i(k), IF i(k) >= max - step THEN "" ELSE ",")]

\* Mutant: the values are read as if all began at the first one.
EnumValuesFirst(pd) == [i \in 1..pd.length |-> ParseValue(pd.data, 0, pd.type).u32]

EnumValues(pd) ==
  LET at[k \in 0..pd.length] == IF k = 0 THEN 0 ELSE ParseValue(pd.data, at[k - 1], pd.type).of
  IN  [i \in 1..pd.length |-> ParseValue(pd.data, at[i - 1], pd.type).u32]

ValidEntries(pd) == IF pd.form = RangeForm THEN RangeItems(pd.range[1], pd.range[2], pd.range[3])
                                           ELSE Listed(EnumValues(pd))
=============================================================================

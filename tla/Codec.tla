------------------------------- MODULE Codec -------------------------------
(***************************************************************************)
(* The conversions of the library at work: a caller has a job, and one     *)
(* step does what the code does with it.  Strings, datasets, property      *)
(* descriptions, command lines of event procedures, captures, pictures,    *)
(* firmware files and text requests are the jobs.                          *)
(*                                                                         *)
(* What the camera sends is written down here as the PTP standard has it,  *)
(* without the lists of fields the parsers of PtpData go by.               *)
(***************************************************************************)
EXTENDS EvProc, PacketDump, CanonExtras, Bindings

CONSTANTS Jobs,            \* a sequence of sets of records with a "kind"
          Turns            \* bound: blocks of a firmware upload looked at

VARIABLES job, result
vars == <<job, result>>

Nothing == [done |-> FALSE]
Returns(value) == [done |-> TRUE, value |-> value]

Init == (\E i \in 1..Len(Jobs) : job \in Jobs[i]) /\ result = Nothing

Perform(kind, value) ==
  /\ job.kind = kind
  /\ result = Nothing
  /\ result' = Returns(value)
  /\ UNCHANGED job

AllJobs == UNION {Jobs[i] : i \in 1..Len(Jobs)}

Finished(kind) == result.done /\ job.kind = kind

-----------------------------------------------------------------------------
(* Strings: written, with a field of the number 1 behind, and read.        *)
Wire(coding, s) == CASE coding = "ptp"     -> WriteString(s)
                     [] coding = "utf8"    -> WriteUtf8String(s)
                     [] coding = "unicode" -> WriteUnicodeString(s, 0)
Reread(coding, d, max) == CASE coding = "ptp"     -> ReadString(d, 0, max)
                            [] coding = "utf8"    -> ReadUtf8String(d, 0, max)
                            [] coding = "unicode" -> ReadUnicodeString(d, max)
String_ ==
  Perform("string", Reread(job.coding, Wire(job.coding, job.s) \o <<1, 0>>, job.max))

-----------------------------------------------------------------------------
(* Datasets.                                                               *)
CameraArray(width, items) ==
  Le(4, Len(items)) \o FlattenSeq([i \in 1..Len(items) |-> Le(width, items[i])])

CameraStorage(si) ==
  FlattenSeq(<<Le(2, si.storage_type), Le(2, si.fs_type), Le(2, si.access_capability),
               Le(8, si.max_capacity), Le(8, si.free_space), Le(4, si.free_objects),
               WriteString(si.storage_desc), WriteString(si.volume_identifier)>>)

CameraDevice(di) ==
  FlattenSeq(<<Le(2, di.standard_version), Le(4, di.vendor_ext_id), Le(2, di.version),
               WriteString(di.extensions), Le(2, di.functional_mode),
               CameraArray(2, di.ops_supported), CameraArray(2, di.events_supported),
               CameraArray(2, di.props_supported), CameraArray(2, di.capture_formats),
               CameraArray(2, di.playback_formats), WriteString(di.manufacturer),
               WriteString(di.model), WriteString(di.device_version), WriteString(di.serial_number)>>)

ObjectInfo == Perform("object", ParseObjectInfo(PackObjectInfo(job.info)))
StorageInfo == Perform("storage", ParseStorageInfo(CameraStorage(job.info)))
DeviceInfo == Perform("device", ParseDeviceInfo(CameraDevice(job.info)))
Handles == Perform("handles", DupArray(CameraArray(4, job.items)))

-----------------------------------------------------------------------------
(* Property descriptions: the type's code is its number in job.types.      *)
CameraValue(t, v) == CASE t \in ArrayTypes -> CameraArray(Width(t), v)
                       [] t = "STRING"     -> WriteString(v)
                       [] OTHER            -> Le(Width(t), v)
CameraValues(t, vs) == FlattenSeq([i \in 1..Len(vs) |-> CameraValue(t, vs[i])])
CameraDesc ==
  LET code == CHOOSE c \in DOMAIN job.types : job.types[c] = job.type
  IN  Le(2, job.code) \o Le(2, code) \o <<job.read_only>>
      \o CameraValue(job.type, job.default) \o CameraValue(job.type, job.current)
      \o <<job.form>>
      \o (IF job.form = EnumerationForm THEN Le(2, Len(job.values)) ELSE <<>>)
      \o CameraValues(job.type, job.values)

Described(pd) == [pd |-> pd, entries |-> IF pd.panic \/ job.type \notin Scalars THEN <<>>
                                         ELSE ValidEntries(pd)]
PropDesc == Perform("desc", Described(ParsePropDesc(CameraDesc, job.types)))
PropValue == Perform("value", ParsePropValue(CameraValue(job.type, job.current)))

-----------------------------------------------------------------------------
(* Event procedures: the tokens are printed with one blank between them.   *)
DigitOf(n) == IF n < 10 THEN 48 + n ELSE 87 + n
\* Numbers below 2^24 have 8 digits at most.
Digits(n, base) ==
  LET rest[k \in 0..8] == IF k = 0 THEN n ELSE rest[k - 1] \div base
      len == CHOOSE k \in 1..8 : rest[k] = 0 /\ (k = 1 \/ rest[k - 1] # 0)
  IN  [i \in 1..len |-> DigitOf(rest[len - i] % base)]
PrintToken(t) ==
  IF t.type = "TEXT" THEN t.string
  ELSE IF t.type = "STR" THEN <<Quote>> \o t.string \o <<Quote>>
  ELSE IF job.hex THEN <<48, 120>> \o Digits(t.integer, 16)
  ELSE Digits(t.integer, 10)
PrintLine(tokens) ==
  FlattenSeq([i \in 1..Len(tokens) |-> (IF i > 1 THEN <<32>> ELSE <<>>) \o PrintToken(tokens[i])])
  \o job.behind \o <<Nul>>

EventProc ==
  Perform("evproc",
    LET lex == Lex(PrintLine(job.tokens))
        packed == PackLine(lex)
    IN  [lex |-> lex, packed |-> packed,
         decoded |-> IF packed \in {Null, Crash, Overrun} THEN Null ELSE DecodeEvproc(packed)])

-----------------------------------------------------------------------------
(* Captures.  A packet starts at "first" and has "units" of the traffic.   *)
Traffic == FlattenSeq([i \in 1..Len(job.containers) |-> Units(job.containers[i])])
\* A packet ends at every position of "cuts".
Packets ==
  [i \in 1..Len(job.cuts) |->
     [header |-> job.header,
      payload |-> SubSeq(Traffic, (IF i = 1 THEN 0 ELSE job.cuts[i - 1]) + 1, job.cuts[i])]]

Capture == Perform("pcap", DecodePcap(job.mode, Packets))
RawDump == Perform("dump", DecodeDump(Traffic, job.fatal))

-----------------------------------------------------------------------------
Bitmap == Perform("bitmap", Frame(job.bmp, job.palette))
Firmware == Perform("firmware", UpdateFirmware(job.size, Turns))
Request == Perform("request", RunRequest(job.name, job.env))
PrintInfo == Perform("print", InfoJson(job.name, job.env))
Execute == Perform("execute", EvprocRun(job.supported, job.rc, job.packed, job.payload))

Next ==
  \/ String_ \/ ObjectInfo \/ StorageInfo \/ DeviceInfo \/ Handles \/ PropDesc \/ PropValue
  \/ EventProc \/ Capture \/ RawDump \/ Bitmap \/ Firmware \/ Request \/ PrintInfo \/ Execute

Spec == Init /\ [][Next]_vars

-----------------------------------------------------------------------------
(* Jobs callers have, for the proofs: what each kind of job is made of.    *)
Printable == 32..127
\* The length byte of a string counts its terminator too.
Longest == 254
StringJob(j) ==
  j.coding \in {"ptp", "utf8", "unicode"} /\ j.s \in Seq(Printable) /\ Len(j.s) <= Longest
  /\ j.max \in Nat /\ j.max > 1
\* Numbers of at most three bytes, texts that fit with a place to spare, and
\* codes; a whole dataset and its arrays lie inside the buffer.
Fits(n, v) == v \in Nat /\ (n = 1 => v < 256) /\ (n = 2 => v < 65536) /\ v < 16777216
FieldFits(f, v) ==
  CASE f.kind = "number" -> Fits(f.size, v)
    [] f.kind = "string" -> v \in Seq(Printable) /\ Len(v) <= Longest /\ (v = <<>> \/ Len(v) <= f.size - 2)
    [] f.kind = "array"  -> v \in Seq(Nat) /\ Fits(4, Len(v)) /\ \A i \in 1..Len(v) : Fits(2, v[i])
Fit(fields, info) == \A i \in 1..Len(fields) : FieldFits(fields[i], info[fields[i].name])
DatasetJob(j) ==
  /\ j.kind = "object" => Fit(ObjectInfoFields, j.info)
  /\ j.kind = "storage" => Fit(StorageInfoFields, j.info)
  /\ j.kind = "device" =>
       /\ Fit(DeviceInfoFields, j.info)
       /\ \A name \in Arrays : Len(CameraDevice(j.info)) + 2 * Len(j.info[name]) <= DataLength
  /\ j.kind = "handles" =>
       /\ j.items \in Seq(Nat) /\ Fits(4, Len(j.items))
       /\ \A i \in 1..Len(j.items) : Fits(4, j.items[i])
\* Values of a type as far as they are read: INT8 loses its sign, UINT32 gets
\* one.  The code of the type can be found, and a range leads upwards.
Lowest(t) == IF t = "INT16" THEN -32768 ELSE IF t = "INT32" THEN -2147483647 - 1 ELSE 0
Highest(t) == IF t = "INT8" THEN 127 ELSE IF t = "UINT8" THEN 255
              ELSE IF t = "INT16" THEN 32767 ELSE IF t = "UINT16" THEN 65535 ELSE 2147483647
ValueFits(t, v) ==
  /\ t \in Scalars => v \in Int /\ Lowest(t) <= v /\ v <= Highest(t)
  /\ t \in Longs => v \in Int
  /\ t \in ArrayTypes => v \in Seq(Int) /\ Fits(4, Len(v))
  /\ t = "STRING" => v \in Seq(Printable) /\ Len(v) <= Longest
DescJob(j) ==
  /\ j.type \in Types /\ ValueFits(j.type, j.current)
  /\ j.kind = "desc" =>
       /\ Fits(2, j.code) /\ Fits(1, j.read_only) /\ Fits(1, j.form) /\ ValueFits(j.type, j.default)
       /\ \E c \in DOMAIN j.types : j.types[c] = j.type
       /\ \A c \in DOMAIN j.types : Fits(2, c)
       /\ Fits(2, Len(j.values)) /\ j.values = [i \in 1..Len(j.values) |-> j.values[i]]
       /\ \A i \in 1..Len(j.values) : ValueFits(j.type, j.values[i])
       /\ j.form = RangeForm /\ j.type \in Scalars => Len(j.values) = 3 /\ j.values[3] > 0

\* A line in the limits of the lexer: a name, then words, strings without a
\* quotation mark and numbers.
TokenFits(t) ==
  /\ t.type \in {"TEXT", "STR", "INT"}
  /\ t.type = "TEXT" => t = Text(t.string) /\ t.string \in Seq(Alpha) /\ t.string # <<>>
  /\ t.type = "STR" => t = Quoted(t.string) /\ t.string \in Seq(Printable \ {Quote})
  /\ t.type \in {"TEXT", "STR"} => Len(t.string) <= MaxStr /\ Fits(4, Len(t.string) + 1)
  /\ t.type = "INT" => t = IntToken(t.integer) /\ Fits(4, t.integer)
EvprocJob(j) ==
  /\ j.tokens = [i \in 1..Len(j.tokens) |-> j.tokens[i]] /\ Len(j.tokens) \in 1..MaxTok /\ Fits(4, Len(j.tokens))
  /\ \A i \in 1..Len(j.tokens) : TokenFits(j.tokens[i])
  /\ j.tokens[1].type = "TEXT" /\ j.behind = <<>>
  /\ Strings(j.tokens) = <<>> => Len(j.tokens[1].string) <= DecodeBuffer

\* What the decoder knows, one container behind the other, and read as anything
\* at the positions between them; a packet holds one container or a piece of the
\* body of a data container.
Readings == [type : {"command", "data", "response", "event", "none"},
             group : CommandGroups \cup {"0x20", "none"}, length : Nat]
Containers == [type : {"command", "data", "response", "event"}, group : CommandGroups \cup {"0x20"},
               length : Nat, inside : Seq(Readings)]
Whole(c) == /\ c \in Containers /\ Passes(c)
            /\ c.length = 1 + Len(c.inside) /\ c.length >= BulkHeader
            /\ c.type = "command" => c.length <= CommandMax
Ends(cs) == LET end[k \in 0..Len(cs)] == IF k = 0 THEN 0 ELSE end[k - 1] + cs[k].length IN end
CaptureJob(j) ==
  /\ j.containers \in Seq(Containers) /\ \A k \in 1..Len(j.containers) : Whole(j.containers[k])
  /\ j.kind = "pcap" =>
       /\ j.header \in Nat /\ (j.mode = "wifi" => j.header = WifiHeader)
       /\ j.cuts \in Seq(Nat) /\ \A i, k \in 1..Len(j.cuts) : i < k => j.cuts[i] < j.cuts[k]
       /\ \A k \in 1..Len(j.containers) :
            LET start == Ends(j.containers)[k - 1]
                end == Ends(j.containers)[k]
            IN  /\ \E i \in 1..Len(j.cuts) : j.cuts[i] = end
                /\ \A i \in 1..Len(j.cuts) :
                     j.cuts[i] \notin start + 1
                                       ..(IF j.containers[k].type = "data" THEN start + BulkHeader - 1 ELSE end - 1)
       /\ \A i \in 1..Len(j.cuts) : j.cuts[i] \in 1..Ends(j.containers)[Len(j.containers)]
RequestJob(j) ==
  /\ j.env.n \in Nat
  /\ j.kind = "request" => j.name \in Routes
  /\ j.kind = "print" => j.name \in {"device", "object", "storage"} /\ j.env.text # "quote"

-----------------------------------------------------------------------------
(* Properties.                                                             *)

\* Strings: what fits into the caller's buffer with a place to spare comes
\* back as it was written, the reader goes on right behind it, and a longer
\* one is cut to a beginning that stays inside the buffer (read and write of
\* PTP, UTF-8 and UTF-16 strings, data.c:34-62, 98-173).
Room == CASE job.coding = "ptp"     -> job.max - 2
          [] job.coding = "utf8"    -> job.max - 1
          [] job.coding = "unicode" -> (job.max + 1) \div 2 - 1
StringsReturn ==
  Finished("string") =>
    /\ Len(job.s) <= Room =>
         /\ result.value.str = job.s
         /\ job.coding \in {"ptp", "utf8"} =>
              result.value.of = Len(Wire(job.coding, job.s)) /\ ~result.value.open
         /\ job.coding = "unicode" => result.value.returned = Len(job.s)
    /\ IsPrefix(result.value.str, job.s)
    /\ job.coding # "utf8" => result.value.top <= job.max

\* Datasets: an object's information is packed the way it is parsed, and the
\* storage and device information of the standard is read field by field up
\* to the last byte; an array longer than the member panics, nothing else
\* does; a list of handles is copied whole (data.c:398-470, 497-523,
\* operations.c:11-26).
DatasetsReturn ==
  /\ Finished("handles") => result.value = job.items
  /\ Finished("object") =>
       /\ Holds(result.value.values, job.info)
       /\ result.value.of = Len(PackObjectInfo(job.info))
  /\ Finished("storage") =>
       /\ Holds(result.value.values, job.info)
       /\ result.value.of = Len(CameraStorage(job.info))
  /\ Finished("device") =>
       /\ result.value.panic <=>
            \E name \in Arrays : Len(job.info[name]) > ArrayMax
       /\ ~result.value.panic => /\ Holds(result.value.values, job.info)
                                 /\ result.value.of = Len(CameraDevice(job.info))

\* Descriptions: of every type and both forms the default, the current and
\* the listed values are the camera's, with a comma behind each value but
\* the last.  A range lists what is below its maximum.  A value read alone,
\* without its type, is told from the number of its bytes; longer ones give
\* -1 (data.c:175-390).
SeparatedItems(entries) ==
  \A i \in 1..Len(entries) : entries[i].end = (IF i = Len(entries) THEN "" ELSE ",")
Reading(value, v) == IF job.type \in Scalars THEN value.u32 = v ELSE value.data = CameraValue(job.type, v)
DescReturns ==
  /\ Finished("desc") =>
       LET pd == result.value.pd
           shown == [i \in 1..Len(result.value.entries) |-> result.value.entries[i].value]
       IN  /\ pd.code = job.code /\ pd.type = job.type /\ pd.read_only = job.read_only
           /\ Reading(pd.default, job.default) /\ Reading(pd.current, job.current)
           /\ job.form = EnumerationForm =>
                /\ pd.length = Len(job.values)
                /\ pd.data = CameraValues(job.type, job.values)
                /\ job.type \in Scalars => shown = job.values
           /\ job.form = RangeForm /\ job.type \in Scalars =>
                /\ pd.range = job.values
                /\ Range(shown) = {v \in job.values[1]..job.values[2] - 1 :
                                     (v - job.values[1]) % job.values[3] = 0}
                /\ \A i \in 1..Len(shown) - 1 : shown[i] < shown[i + 1]
           /\ SeparatedItems(result.value.entries)
  /\ Finished("value") =>
       /\ job.type \in Scalars /\ (job.type = "INT32" \/ job.current >= 0) => result.value = job.current
       /\ job.type \in Longs => result.value = -1

\* Event procedures: the tokens of a printed line are found again, and what
\* is packed holds the procedure's name, one parameter of 20 bytes for each
\* argument and every string of the line; a command of numbers is decoded
\* from a capture as it was given (canon_adv.c:97-266, dec/main.c:25-61).
ReadsParam(d, of, t) ==
  IF t.type = "INT" THEN Unsigned(d, of, 4) = TokInt /\ Unsigned(d, of + 4, 4) = t.integer
  ELSE Unsigned(d, of, 4) = TokStr /\ Unsigned(d, of + 16, 4) = Len(t.string) + 1
ReadsFooter(d, of, strings) ==
  /\ Unsigned(d, of, 4) = Len(strings)
  /\ \A i \in 1..Len(strings) :
       LET at[k \in 1..Len(strings)] ==
             IF k = 1 THEN of + 8 ELSE at[k - 1] + Len(strings[k - 1].string) + 5
       IN  ReadUtf8String(d, at[i], MaxStr).str = strings[i].string
\* Bytes a command takes: four numbers are in front of the parameters and the
\* strings, each string stands behind one of its own.
StringsLength(strings) ==
  LET length[k \in 0..Len(strings)] ==
        IF k = 0 THEN 4 ELSE length[k - 1] + Len(strings[k].string) + 5
  IN  length[Len(strings)]
CommandLength(name, args, strings) == Len(name) + 5 + 20 * Len(args) + StringsLength(strings)
EvprocReadsBack ==
  Finished("evproc") =>
    LET d == result.value.packed
        args == Arguments(job.tokens)
        strings == Strings(job.tokens)
        name == job.tokens[1].string
    IN  /\ result.value.lex.tokens = job.tokens
        /\ d = Overrun <=> CommandLength(name, args, strings) > PackBuffer
        /\ d # Overrun =>
             /\ ReadUtf8String(d, 0, MaxStr).str = name
             /\ Unsigned(d, Len(name) + 1, 4) = Len(args)
             /\ \A i \in 1..Len(args) : ReadsParam(d, Len(name) + 5 + 20 * (i - 1), args[i])
             /\ ReadsFooter(d, Len(name) + 5 + 20 * Len(args), strings)
             /\ strings = <<>> => /\ result.value.decoded.name = name
                                  /\ result.value.decoded.params = args

\* Captures: every container is printed once, in its order, wherever the
\* packets that carry a data container are cut, with the heading that the one
\* before asks for (dec/main.c:63-227).
ReadOf(printed) == [i \in 1..Len(printed) |-> printed[i].read]
Announced(printed) ==
  \A i \in 1..Len(printed) :
    printed[i].heading =
      Heading(IF i = 1 THEN "response" ELSE printed[i - 1].read.type, printed[i].read.type)
Heads(cs) == [k \in 1..Len(cs) |-> Start(cs[k])]
PcapDecoded(r) ==
  /\ ReadOf(r.printed) = Heads(job.containers) /\ Announced(r.printed)
  /\ ~r.failed /\ r.unfinished = 0

\* Dumps: what is printed are places that pass for a container, in their order,
\* and until one of them ends the decoding no container is missing; if nothing
\* between them passes, they are all there is (dec/main.c:270-295).
Stopped(k) == \E i \in 1..k : Stops(Traffic, i, job.fatal)
DumpDecoded(r) ==
  /\ \A i \in 1..Len(r.printed) - 1 : r.printed[i].at < r.printed[i + 1].at
  /\ \A i \in 1..Len(r.printed) : r.printed[i].read = Traffic[r.printed[i].at] /\ Passes(r.printed[i].read)
  /\ \A k \in 1..Len(job.containers) :
       LET at == Ends(job.containers)[k - 1] + 1
       IN  ~Stopped(at) => \E i \in 1..Len(r.printed) : r.printed[i].at = at
  /\ r.failed <=> Stopped(Len(Traffic))
  /\ Announced(r.printed)
NoStrays(cs) == \A k \in 1..Len(cs) : \A i \in 1..Len(cs[k].inside) : ~Passes(cs[k].inside[i])

CaptureDecoded ==
  /\ Finished("pcap") => PcapDecoded(result.value)
  /\ Finished("dump") => DumpDecoded(result.value)
  /\ Finished("dump") /\ NoStrays(job.containers) => PcapDecoded(result.value)

\* The picture: every place of the screen shows the pixel of the bitmap
\* memory it stands for, although a column too many is converted (ml.c:77-152).
FrameIsPicture ==
  Finished("bitmap") =>
    \A x \in 0..ScreenWidth - 1, y \in 0..ScreenHeight - 1 :
      result.value[y * ScreenWidth + x] = Pixel(job.palette, job.bmp[y * VramWidth + x])

\* A reader of JSON texts over tokens: "open" are the brackets to close,
\* "want" says what may come next.
Reader == [open |-> <<>>, want |-> {"value"}]
AfterValue(r) == [r EXCEPT !.want = IF r.open = <<>> THEN {} ELSE {",", Last(r.open)}]
JsonStep(r, t) ==
  IF t \in {"number", "string"} /\ "value" \in r.want THEN AfterValue(r)
  ELSE IF t = "string" /\ "key" \in r.want THEN [r EXCEPT !.want = {":"}]
  ELSE IF t = ":" /\ ":" \in r.want THEN [r EXCEPT !.want = {"value"}]
  ELSE IF t = "[" /\ "value" \in r.want THEN [open |-> Append(r.open, "]"), want |-> {"value", "]"}]
  ELSE IF t = "{" /\ "value" \in r.want THEN [open |-> Append(r.open, "}"), want |-> {"key", "}"}]
  ELSE IF t = "," /\ "," \in r.want
    THEN [r EXCEPT !.want = IF Last(r.open) = "]" THEN {"value"} ELSE {"key"}]
  ELSE IF t \in {"]", "}"} /\ t \in r.want THEN AfterValue([r EXCEPT !.open = Front(@)])
  ELSE [open |-> <<"]">>, want |-> {"never"}]
IsJson(tokens) ==
  LET read[k \in 0..Len(tokens)] == IF k = 0 THEN Reader ELSE JsonStep(read[k - 1], tokens[k])
  IN  tokens # <<>> /\ read[Len(tokens)] = [open |-> <<>>, want |-> {}]

\* Answers: every route whose answer the code finishes prints one JSON text,
\* whatever the camera answers and however long its lists are ("returns
\* valid JSON", bind.c:3-5).
Unfinished == {"ptp_get_storage_info", "ptp_get_object_info", "ptp_get_liveview_frame.jpg",
               "ptp_get_liveview_frame", "ptp_ml_get_bmp_lv", "ptp_get_events",
               "ptp_get_all_props", "ptp_custom"}
AnswersAreJson ==
  /\ Finished("request") /\ job.name \notin Unfinished /\ job.env.text # "quote" => IsJson(result.value)
  /\ Finished("print") => IsJson(result.value)

-----------------------------------------------------------------------------
(* What a reader of the code would expect and TLC refutes; see the README. *)

\* Every route prints one JSON text (bind.c:3-5).
AllAnswersAreJson == Finished("request") => IsJson(result.value)

\* ptp_read_utf8_string stays inside the caller's buffer.
Utf8Inside == Finished("string") /\ job.coding = "utf8" => result.value.top <= job.max

\* A string that was cut is terminated, and what is behind it is read next.
CutStrings ==
  Finished("string") /\ job.coding = "ptp" =>
    ~result.value.open /\ result.value.of = Len(Wire(job.coding, job.s))

\* Values of INT8 properties keep their sign.
SignKept ==
  /\ Finished("desc") /\ job.type = "INT8" => result.value.pd.current.u32 = job.current
  /\ Finished("value") /\ job.type \in {"INT8", "INT16"} => result.value = job.current

\* The loop over a range ends.
RangeEnds ==
  Finished("desc") =>
    \A i \in 1..Len(result.value.entries) : result.value.entries[i].end # Endless

\* The maximum of a range is a valid entry.
RangeComplete ==
  Finished("desc") /\ job.form = RangeForm /\ job.type \in Scalars /\ job.values[3] > 0 =>
    job.values[2] \in {result.value.entries[i].value : i \in 1..Len(result.value.entries)}

\* A description without a form is read.
FormsRead == Finished("desc") => ~result.value.pd.panic

\* The lexer stays inside the line.
LineEnds == Finished("evproc") => ~result.value.lex.beyond

\* A line of too many tokens is refused.
LongLineRefused == Finished("evproc") => result.value.packed # Crash

\* The decoder finds the strings of a command where the packer puts them.
StringsDecoded ==
  Finished("evproc") /\ result.value.packed \notin {Crash, Overrun} =>
    result.value.decoded.params = Arguments(job.tokens)

\* Every container is found wherever the packets are cut.
AnyCutDecoded == Finished("pcap") => ReadOf(result.value.printed) = Heads(job.containers)

\* A raw dump prints the containers it is made of.
DumpIsContainers == Finished("dump") => ReadOf(result.value.printed) = Heads(job.containers)

\* A line within MAX_STR and MAX_TOK is packed inside the buffers.
LinesPacked == Finished("evproc") => result.value.packed # Overrun

\* A firmware file arrives whole: the upload ends, and the blocks follow
\* each other in the file and at the camera.
FirmwareArrives ==
  Finished("firmware") =>
    /\ result.value.done
    /\ \A i \in 1..Len(result.value.blocks) :
         LET b == result.value.blocks[i]
         IN  /\ b.offset = b.at /\ b.data > 0
             /\ b.offset + b.data =
                  IF i = Len(result.value.blocks) THEN job.size ELSE result.value.blocks[i + 1].offset

\* Return data is copied only when the command that fetches it worked.
CopiedWhenFetched ==
  Finished("execute") /\ result.value.copied => result.value.rc = "ok"

\* The picture is written inside the memory of its size.
FrameInside == Finished("bitmap") => DOMAIN result.value \subseteq 0..ScreenWidth * ScreenHeight - 1
=============================================================================

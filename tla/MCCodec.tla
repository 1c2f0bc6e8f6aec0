------------------------------ MODULE MCCodec ------------------------------
(* The jobs of Codec for TLC.                                              *)
EXTENDS Codec, TLC

LOCAL Words == {<<>>, <<65>>, <<97, 98>>, <<97, 98, 99>>, <<97, 98, 99, 100>>, <<65, 66, 67, 68, 69>>}

StringJobs == [kind : {"string"}, coding : {"ptp", "utf8", "unicode"}, s : Words, max : 3..6]

-----------------------------------------------------------------------------
(* Object infos: two fields at a time differ from a numbering of them.     *)
LOCAL Numbers == <<"storage_id", "obj_format", "protection", "compressed_size", "thumb_format",
                   "thumb_compressed_size", "thumb_width", "thumb_height", "img_width",
                   "img_height", "img_bit_depth", "parent_obj", "assoc_type", "assoc_desc",
                   "sequence_num">>
LOCAL NumberNames == {Numbers[i] : i \in 1..15}
LOCAL Numbered(big) == [name \in NumberNames |->
  LET i == CHOOSE k \in 1..15 : Numbers[k] = name IN IF i = big THEN 300 + i ELSE i]
LOCAL Names(f, c, m, k) == [filename |-> f, date_created |-> c, date_modified |-> m, keywords |-> k]
LOCAL Texts == {<<>>, <<97>>, <<97, 98>>}
ObjectJobs ==
  {[kind |-> "object", info |-> Numbered(big) @@ Names(f, c, <<66>>, k)] :
     big \in {0, 1, 7, 8, 15}, f \in Words, c \in {<<>>, <<99>>}, k \in Texts}

StorageJobs ==
  {[kind |-> "storage",
    info |-> [storage_type |-> 3, fs_type |-> 2, access_capability |-> a, max_capacity |-> m,
              free_space |-> 70000, free_objects |-> 258, storage_desc |-> s,
              volume_identifier |-> v]] :
     a \in {0, 1}, m \in {5, 16000000}, s \in Texts, v \in Texts}

HandlesJobs == [kind : {"handles"}, items : {<<>>, <<65537>>, <<1, 70000, 3>>}]
LOCAL Codes == {<<>>, <<4097>>, <<4098, 36865>>, <<1, 2, 3>>, <<1, 2, 3, 4>>}
DeviceJobs ==
  {[kind |-> "device",
    info |-> [standard_version |-> 100, vendor_ext_id |-> 6, version |-> 200, extensions |-> x,
              functional_mode |-> 0, ops_supported |-> o, events_supported |-> e,
              props_supported |-> p, capture_formats |-> <<>>, playback_formats |-> b,
              manufacturer |-> <<67>>, model |-> <<68, 69>>, device_version |-> <<>>,
              serial_number |-> <<49>>]] :
     x \in {<<>>, <<120>>}, o \in Codes, e \in {<<>>, <<16386>>}, p \in {<<>>, <<53505, 2>>},
     b \in Codes}

-----------------------------------------------------------------------------
LOCAL TypeCodes == <<"INT8", "UINT8", "INT16", "UINT16", "INT32", "UINT32", "INT64", "UINT64",
                     "UINT8ARRAY", "UINT16ARRAY", "UINT32ARRAY", "UINT64ARRAY", "STRING">>
LOCAL Values(t) == CASE t \in {"UINT8", "INT8"}  -> {<<0, 127>>, <<3, 5>>}
                     [] t \in {"INT16", "INT32"} -> {<<-2, 300>>, <<5, -1>>}
                     [] t \in ArrayTypes         -> {<< <<>>, <<1, 2>> >>, << <<7>>, <<1>> >>}
                     [] t = "STRING"             -> {<< <<>>, <<97, 98>> >>, << <<99>>, <<100>> >>}
                     [] OTHER                    -> {<<0, 300>>, <<7, 65535>>}
LOCAL Desc(t, v, form, values) ==
  [kind |-> "desc", code |-> 20481, type |-> t, types |-> TypeCodes, read_only |-> 1,
   default |-> v[1], current |-> v[2], form |-> form, values |-> values]
EnumJobs(t) ==
  {Desc(t, v, EnumerationForm, s) :
     v \in Values(t), s \in {<<>>} \cup Values(t) \cup {<<w[2], w[1], w[2]>> : w \in Values(t)}}
RangeJobs ==
  {Desc(t, v, RangeForm, <<lo, hi, step>>) :
     t \in {"UINT8", "INT16", "UINT16", "INT32", "UINT32"}, v \in {<<0, 1>>},
     lo \in {0, 2}, hi \in {2, 5, 7}, step \in {1, 2, 3}}
ValueJobs ==
  [i \in 1..13 |-> {[kind |-> "value", type |-> TypeCodes[i], current |-> v[2]] : v \in Values(TypeCodes[i])}]
DescJobs == [i \in 1..13 |-> EnumJobs(TypeCodes[i])] \o <<RangeJobs>>
\* Bad ones: a negative INT8, a step of 0, no form.
BadDescJobs ==
  {Desc("INT8", <<1, -3>>, EnumerationForm, <<1, -3>>),
   Desc("UINT8", <<1, 2>>, RangeForm, <<0, 4, 0>>),
   Desc("UINT16", <<1, 2>>, RangeForm, <<0, 4, 2>>),
   Desc("UINT16", <<1, 2>>, 0, <<>>),
   [kind |-> "value", type |-> "INT16", current |-> -2]}

-----------------------------------------------------------------------------
LOCAL Arg == {IntToken(0), IntToken(10), IntToken(4711), Quoted(<<>>), Quoted(<<97, 32, 49>>), Text(<<98, 95>>)}
LOCAL Lists == {<<>>} \cup {<<a>> : a \in Arg} \cup {<<a, b>> : a, b \in Arg}
                \cup {<<a, IntToken(7), b>> : a, b \in Arg}
EvprocJobs ==
  {[kind |-> "evproc", tokens |-> <<Text(<<65, 97>>)>> \o l, hex |-> h, behind |-> <<>>] :
     l \in Lists, h \in BOOLEAN}
BadEvprocJobs ==
  {[kind |-> "evproc", tokens |-> <<Text(<<65>>), Quoted(<<97>>), IntToken(1)>>, hex |-> FALSE, behind |-> <<>>],
   [kind |-> "evproc", tokens |-> <<Text(<<65>>), IntToken(1)>>, hex |-> FALSE, behind |-> <<32>>],
   [kind |-> "evproc", tokens |-> <<Text(<<65>>), Quoted(<<97>>), Quoted(<<98>>), Quoted(<<99>>)>>, hex |-> FALSE, behind |-> <<>>],
   [kind |-> "evproc", tokens |-> [i \in 1..MaxTok + 1 |-> Text(<<65>>)], hex |-> FALSE, behind |-> <<>>]}

-----------------------------------------------------------------------------
LOCAL Sole(type, group, length) == Container(type, group, [i \in 1..length - 1 |-> Garbage])
LOCAL Open == Sole("command", "0x10", 2)
LOCAL Command == Sole("command", "0x91", 3)
LOCAL Data(n) == Sole("data", "0x91", n)
LOCAL Response == Sole("response", "0x20", 2)
LOCAL Exchanges == {<<Open, Response>>, <<Command, Data(5), Response>>,
                    <<Open, Response, Command, Data(4), Response>>,
                    <<Command, Data(3), Response, Command, Data(4), Response>>}
LOCAL LastOf(cs, k) == Ends(cs)[k]
LOCAL Behind(cs) == {LastOf(cs, k) : k \in 1..Len(cs)}
LOCAL Inside(cs) == UNION {IF cs[k].type = "data" THEN LastOf(cs, k) - cs[k].length + BulkHeader..LastOf(cs, k)
                           ELSE {} : k \in 1..Len(cs)}
LOCAL CutSets(cs) == {Behind(cs) \cup more : more \in SUBSET Inside(cs)}
LOCAL Sorted(s) == [i \in 1..Cardinality(s) |-> CHOOSE e \in s : Cardinality({c \in s : c <= e}) = i]
PcapJobs ==
  UNION {{[kind |-> "pcap", mode |-> m, header |-> IF m = "wifi" THEN WifiHeader ELSE h,
           containers |-> cs, cuts |-> Sorted(c)] : m \in {"wifi", "usb"}, h \in {0, 1}, c \in CutSets(cs)}
         : cs \in Exchanges}
\* A position inside a container is read as one: an event of any length, a
\* command, one of an impossible length, data, data beyond the file.
LOCAL Strays == {ReadAs("event", "none", 0), ReadAs("command", "0x10", 2), ReadAs("command", "0x90", 0),
                 ReadAs("data", "0x91", 2), ReadAs("data", "0xF0", 20), ReadAs("response", "0x90", 2)}
LOCAL Strewn(cs) ==
  UNION {{[cs EXCEPT ![k].inside[i] = r] : i \in 1..Len(cs[k].inside), r \in Strays} : k \in 1..Len(cs)}
DumpJobs ==
  [kind : {"dump"}, fatal : {{}, 1..5, 1..20},
   containers : Exchanges \cup UNION {Strewn(cs) : cs \in Exchanges}
                \cup UNION {Strewn(cs) : cs \in Strewn(<<Command, Data(3), Response>>)}]
\* The answer follows its data in one packet.
BadPcapJobs ==
  {[kind |-> "pcap", mode |-> "usb", header |-> 1, containers |-> <<Command, Data(4), Response>>,
    cuts |-> <<3, 6, 9>>]}

\* A transaction id of 4 in a command's header is the type of an event.
BadDumpJobs ==
  {[kind |-> "dump", fatal |-> {}, containers |-> <<Container("command", "0x91", <<ReadAs("event", "none", 0)>>)>>]}

-----------------------------------------------------------------------------
LOCAL Palette == [c \in 0..7 |-> [a |-> c, y |-> 30 * c, u |-> 20 * c + 100, v |-> 250 - 30 * c]]
BitmapJobs ==
  {[kind |-> "bitmap", palette |-> Palette,
    bmp |-> [i \in 0..VramWidth * ScreenHeight - 1 |-> (i * k + s) % 8]] : k \in {1, 3}, s \in 0..3}

FirmwareJobs == [kind : {"firmware"}, size : 1..12]

LOCAL Envs == [rc : {0, -5}, eos : BOOLEAN, n : 0..3, text : {"null", "plain"}, size : {0, 7}]
RequestJobs == [kind : {"request"}, name : Routes \ Unfinished, env : Envs]
PrintJobs == [kind : {"print"}, name : {"device", "object", "storage"}, env : Envs]
BadRequestJobs ==
  [kind : {"request"}, name : Routes,
   env : [rc : {0, -5}, eos : BOOLEAN, n : {0, 2}, text : {"quote"}, size : {7}]]

ExecuteJobs ==
  [kind : {"execute"}, supported : BOOLEAN, rc : [1..5 -> {"ok", "io_err", "check_code"}],
   packed : {Null, <<65, 0>>}, payload : BOOLEAN]

MCJobs == <<StringJobs, ObjectJobs, StorageJobs, DeviceJobs, EvprocJobs, PcapJobs, DumpJobs,
            BitmapJobs, FirmwareJobs, RequestJobs, PrintJobs, ExecuteJobs,
            HandlesJobs>> \o ValueJobs \o DescJobs
BadJobs == <<StringJobs, BadDescJobs, BadEvprocJobs, BadPcapJobs, BadDumpJobs, BitmapJobs, FirmwareJobs,
             BadRequestJobs, ExecuteJobs>>

\* The jobs are of the kinds the theorems of CodecProofs speak of.
ASSUME MCJobsAreJobs ==
  \A i \in 1..Len(MCJobs) : \A j \in MCJobs[i] :
    /\ j.kind = "string" => StringJob(j)
    /\ DatasetJob(j)
    /\ j.kind \in {"desc", "value"} => DescJob(j)
    /\ j.kind = "evproc" => EvprocJob(j)
    /\ j.kind \in {"pcap", "dump"} => CaptureJob(j)
    /\ j.kind \in {"request", "print"} => RequestJob(j)
=============================================================================

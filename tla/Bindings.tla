------------------------------ MODULE Bindings ------------------------------
(***************************************************************************)
(* The text bindings, bind.c: what each route prints, as the tokens of a   *)
(* JSON text.  "e" says what a route finds and what its calls return:      *)
(*   rc      0 or an error, of the PTP operation the route performs        *)
(*   eos     ptp_device_type is PTP_DEV_EOS                                *)
(*   n       the length of the list or of the payload that is printed      *)
(*   text    the string that is printed: "null", "plain" or "quote", which *)
(*           holds a quotation mark                                        *)
(*   size    an object's compressed size                                   *)
(***************************************************************************)
EXTENDS Integers, Sequences, SequencesExt

CONSTANT EnumCount         \* ptp_enums_length
ASSUME EnumAssumption == EnumCount \in Nat

Number == <<"number">>
\* Nothing is escaped: a quotation mark in it ends the string.
String(text) == IF text = "quote" THEN <<"string", "word", "unterminated">> ELSE <<"string">>
Literal == <<"string">>
Field(value) == <<"string", ":">> \o value
Object(fields) ==
  <<"{">> \o FlattenSeq([i \in 1..Len(fields) |->
                           IF i = 1 THEN fields[i] ELSE <<",">> \o fields[i]]) \o <<"}">>
Error == Object(<<Field(Number)>>)
Resp(value) == Object(<<Field(Number), Field(value)>>)

\* Mutant: the comma is left out before the second item too.
SeparatedLate(item, n) ==
  <<"[">> \o FlattenSeq([i \in 1..n |-> (IF i > 2 THEN <<",">> ELSE <<>>) \o item]) \o <<"]">>

\* The loops that print "comma" first, which is empty for the first item.
Separated(item, n) ==
  <<"[">> \o FlattenSeq([i \in 1..n |-> (IF i > 1 THEN <<",">> ELSE <<>>) \o item]) \o <<"]">>

\* The loops that print it behind: "if (i > x - 2)" finds the last item.
Followed(item, n) ==
  <<"[">> \o FlattenSeq([i \in 1..n |-> item \o (IF i - 1 > n - 2 THEN <<>> ELSE <<",">>)]) \o <<"]">>

\* ptp_device_info_json's loops: "if (i >= length - 1) end is empty".
Ended(item, n) ==
  <<"[">> \o FlattenSeq([i \in 1..n |-> item \o (IF i - 1 >= n - 1 THEN <<>> ELSE <<",">>)]) \o <<"]">>

-----------------------------------------------------------------------------
(* What data.c prints.                                                     *)
DeviceInfoJson(e) ==
  Object([i \in 1..3 |-> Field(Ended(Number, e.n))] \o [i \in 1..5 |-> Field(String(e.text))])
\* The sizes of an image are left out for an object without data.
ObjectInfoJson(e) ==
  Object(<<Field(Number), Field(Number), Field(Number), Field(Literal), Field(Number),
           Field(Literal), Field(String(e.text))>>
         \o (IF e.size # 0 THEN <<Field(Number), Field(Number)>> ELSE <<>>)
         \o <<Field(String(e.text)), Field(String(e.text))>>)
StorageInfoJson == Object(<<Field(Literal), Field(Number), Field(Number), Field(Number)>>)
InfoJson(name, e) == CASE name = "device"  -> DeviceInfoJson(e)
                       [] name = "object"  -> ObjectInfoJson(e)
                       [] name = "storage" -> StorageInfoJson
\* The comma behind the last event stays: see EosEvents.
EventsJson(e) ==
  IF e.n = 0 THEN <<"[", "]">>
  ELSE <<"[">> \o FlattenSeq([i \in 1..e.n |-> <<"[", "string", ",", "number", "]", ",">>]) \o <<"]">>

-----------------------------------------------------------------------------
(* The routes.  Those of Plain print nothing but their error.              *)
Plain == {"ptp_read_int", "ptp_reset", "ptp_connect", "ptp_disconnect", "ptp_open_session",
          "ptp_close_session", "ptp_pre_take_picture", "ptp_take_picture", "ptp_bulb_start",
          "ptp_bulb_stop", "ptp_eos_set_remote_mode", "ptp_eos_set_event_mode",
          "ptp_cancel_af", "ptp_mirror_up", "ptp_mirror_down", "ptp_drive_lens",
          "ptp_ml_init_bmp_lv", "ptp_init_liveview", "ptp_deinit_liveview",
          "ptp_set_property", "ptp_send_object_info"}
Routes == Plain \cup
  {"ptp_hello_world", "ptp_status", "ptp_init", "ptp_get_device_info",
   "ptp_get_liveview_frame", "ptp_get_liveview_type", "ptp_get_liveview_frame.jpg",
   "ptp_ml_get_bmp_lv", "ptp_get_device_type", "ptp_get_events", "ptp_get_all_props",
   "ptp_get_property", "ptp_get_enums", "ptp_get_status", "ptp_get_return_code",
   "ptp_get_storage_ids", "ptp_get_storage_info", "ptp_get_object_handles",
   "ptp_get_object_info", "ptp_get_thumbnail", "ptp_get_partial_object",
   "ptp_download_file", "ptp_custom"}

OnSuccess(e, answer) == IF e.rc # 0 THEN Error ELSE answer

Status(e) == Object(<<Field(Number), Field(Number), Field(Literal), Field(Literal)>>)
BindInit(e) == Object(<<Field(Number), Field(Number)>>)
GetDeviceInfo(e) == OnSuccess(e, Resp(DeviceInfoJson(e)))
GetStorageIds(e) == OnSuccess(e, Resp(Separated(Number, e.n)))
\* The information is put in a buffer, which is not printed.
GetStorageInfo(e) == OnSuccess(e, Resp(<<>>))
GetObjectHandles(e) == OnSuccess(e, Resp(Separated(Number, e.n)))
GetObjectInfo(e) == OnSuccess(e, Resp(<<>>))
\* The length is printed in hexadecimal, the name of the bytes without quotes.
Custom(e) ==
  OnSuccess(e, <<"{", "string", ":", "number", ",", "string", ":", "word", ",", "word", ":">>
               \o Separated(Number, e.n) \o <<"}">>)
\* ptp_liveview_size panics before anything is printed.
GetLiveviewFrame(e) == <<"panic">>
\* Whatever comes back, the buffer is printed; it is not set after an error.
GetBmpLv(e) == IF e.rc # 0 THEN <<"panic">> ELSE Resp(Followed(Number, e.n))
GetProperty(e) == OnSuccess(e, Resp(Number))
GetEvents(e) ==
  IF e.eos THEN OnSuccess(e, Resp(EventsJson(e)))
  ELSE IF e.rc = 0 THEN Resp(<<"[", "]">>) ELSE Error
GetAllProps(e) == IF e.eos THEN GetEvents(e) ELSE Resp(<<"[", "]">>)
GetLiveviewType(e) == Resp(Number)
GetLiveviewFrameJpg(e) == <<>>
GetDeviceType(e) == Resp(Number)
HelloWorld(e) ==
  Object(<<Field(String(e.text)), Field(String(e.text)), Field(Separated(Number, e.n))>>)
GetEnums(e) ==
  Resp(Separated(Object(<<Field(Number), Field(Number), Field(Literal), Field(Number)>>), EnumCount))
GetStatus(e) == Object(<<Field(Number), Field(Number)>>)
GetReturnCode(e) ==
  Object(<<Field(Number), Field(Number), Field(Separated(Number, e.n))>>)
\* An empty payload is an error of its own.
GetThumbnail(e) == IF e.rc # 0 \/ e.n = 0 THEN Error ELSE Resp(Separated(Number, e.n))
GetPartialObject(e) == IF e.rc # 0 \/ e.n = 0 THEN Error ELSE Resp(Separated(Number, e.n))
DownloadFile(e) == IF e.rc # 0 THEN Error ELSE Resp(Number)

\* bind_run_req, with the answer of every route.  An unknown route returns 1
\* and prints nothing.
RunRequest(name, e) ==
  CASE name \in Plain                          -> Error
    [] name = "ptp_hello_world"                -> HelloWorld(e)
    [] name = "ptp_status"                     -> Status(e)
    [] name = "ptp_init"                       -> BindInit(e)
    [] name = "ptp_get_device_info"            -> GetDeviceInfo(e)
    [] name = "ptp_get_liveview_frame"         -> GetLiveviewFrame(e)
    [] name = "ptp_get_liveview_type"          -> GetLiveviewType(e)
    [] name = "ptp_get_liveview_frame.jpg"     -> GetLiveviewFrameJpg(e)
    [] name = "ptp_ml_get_bmp_lv"              -> GetBmpLv(e)
    [] name = "ptp_get_device_type"            -> GetDeviceType(e)
    [] name = "ptp_get_events"                 -> GetEvents(e)
    [] name = "ptp_get_all_props"              -> GetAllProps(e)
    [] name = "ptp_get_property"               -> GetProperty(e)
    [] name = "ptp_get_enums"                  -> GetEnums(e)
    [] name = "ptp_get_status"                 -> GetStatus(e)
    [] name = "ptp_get_return_code"            -> GetReturnCode(e)
    [] name = "ptp_get_storage_ids"            -> GetStorageIds(e)
    [] name = "ptp_get_storage_info"           -> GetStorageInfo(e)
    [] name = "ptp_get_object_handles"         -> GetObjectHandles(e)
    [] name = "ptp_get_object_info"            -> GetObjectInfo(e)
    [] name = "ptp_get_thumbnail"              -> GetThumbnail(e)
    [] name = "ptp_get_partial_object"         -> GetPartialObject(e)
    [] name = "ptp_download_file"              -> DownloadFile(e)
    [] name = "ptp_custom"                     -> Custom(e)
    [] OTHER                                   -> <<>>
=============================================================================

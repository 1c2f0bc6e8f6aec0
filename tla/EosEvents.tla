----------------------------- MODULE EosEvents -----------------------------
(***************************************************************************)
(* A remote control of a Canon EOS camera (bind.c): bind_get_events polls  *)
(* the entries the camera has collected, ptp_eos_events unpacks them,      *)
(* ptp_eos_events_json writes them out for the front end; the front end    *)
(* sets properties by name (ptp_set_generic_property) or by code.  The     *)
(* lists it unpacks go to r->avail, whose module this one extends: a       *)
(* property code of PropAvail is one whose list the camera sends.          *)
(***************************************************************************)
EXTENDS PropAvail, EosConv

CONSTANTS Readings,   \* data each property of the camera may take
          Offers,     \* lists of supported data the camera may send for the
                      \*   codes of PropAvail, the empty list among them
          Wishes,     \* values the front end sets by name, for some codes
          Others,     \* entries that are about no property
          QueueMax    \* bound: entries collected or being unpacked

Props == DOMAIN Readings

ASSUME ReadingsAssumption == /\ Codes \subseteq Props /\ Blank \notin Props
                             /\ \A p \in Props : Readings[p] \subseteq Nat
ASSUME OffersAssumption ==
  \A p \in Codes : \A o \in Offers[p] : o = <<>> \/ o \in Lists(p)
ASSUME WishesAssumption ==
  /\ DOMAIN Wishes \subseteq Codes
  /\ \A p \in DOMAIN Wishes : \A v \in Wishes[p] :
       Data(p, v) \in Readings[p] /\ Data(p, v) \in Values

VARIABLES
  camera,    \* data of the camera's properties
  offer,     \* the last list it sent that was not empty
  queue,     \* entries collected since the last poll
  payload,   \* r->data: the entries of the last answer
  events,    \* PtpGenericEvent array, as far as it is filled
  shown,     \* what the front end shows
  wish,      \* what it set last and the camera took: {} or {value}
  pc         \* "idle", or "unpack" in ptp_eos_events

availVars == <<avail, latest, size, mixed, spilt, verdict>>
clientVars == <<payload, events, shown, pc>>
eosVars == <<camera, offer, queue, wish, clientVars, availVars>>

-----------------------------------------------------------------------------
(* The entries of an answer.                                               *)

Record(type, code, data) == [type |-> type, code |-> code, data |-> data]
ValueEntry(p, d) == Record("value", p, <<d>>)
End == Record("end", Blank, <<>>)
Info == Record("info", Blank, <<>>)
Unknown == Record("unknown", Blank, <<>>)
RequestTransfer == Record("transfer", Blank, <<7, 9>>)
ObjectAdded == Record("object", Blank, <<7>>)
ASSUME OthersAssumption == Others \subseteq {Info, Unknown, RequestTransfer, ObjectAdded}

\* The keys of their lines, which no property has for a name.
OtherKeys == {"InfoCheckComplete", "request_object_transfer", "new_object"}
ASSUME NamesAssumption == Props \cap OtherKeys = {}

\* Mutant: the last entry counts as the terminator.
LengthShort(es) == IF es = <<>> THEN 0 ELSE Len(es) - 1

\* ptp_eos_events_length: entries before the terminator or the payload's end.
Length(es) ==
  LET ends == {i \in 1..Len(es) : es[i].type = "end"}
  IN  IF ends = {} THEN Len(es) ELSE (CHOOSE i \in ends : \A j \in ends : i <= j) - 1

\* ptp_eos_prop_next: name, value, str_value.  Properties without a name are
\* shown by their code.  (Image formats, five words each, are left out.)
Battery(d) == IF d + 1 = 3 THEN 4 ELSE d + 1
Reading(p, d) ==
  CASE p \in {"shutter_speed", "iso", "aperture", "white_balance"} -> <<Value(p, d), "">>
    [] p = "battery"    -> <<Battery(d), "">>
    [] p = "mirror"     -> <<d, IF d = 0 THEN "finder" ELSE "open">>
    [] p = "focus_mode" -> <<d, IF d = 3 THEN "MF" ELSE "AF">>
    [] OTHER            -> <<d, "">>
Named == {"shutter_speed", "iso", "aperture", "white_balance", "battery",
          "mirror", "focus_mode", "mode_dial", "focused"}
NoName == ""

Event(name, code, value, str) ==
  [name |-> name, code |-> code, value |-> value, str |-> str]

\* The switch of ptp_eos_events, on an entry and the zeroed event.
Unpack(e) ==
  CASE e.type = "value" ->
         Event(IF e.code \in Named THEN e.code ELSE NoName, e.code,
               Reading(e.code, e.data[1])[1], Reading(e.code, e.data[1])[2])
    [] e.type = "info"     -> Event("InfoCheckComplete", Blank, 0, "")
    [] e.type = "transfer" -> Event("request_object_transfer", "object", e.data[2], "")
    [] e.type = "object"   -> Event("new_object", Blank, e.data[1], "")
    [] OTHER               -> Event(NoName, Blank, 0, "")

\* A line of the array; the comma after it goes away at i - 1 = length only.
Printed(value, str) == IF str = "" THEN <<value, "">> ELSE <<0, str>>
Item(ev) == [key |-> IF ev.name = NoName THEN ev.code ELSE ev.name,
             text |-> Printed(ev.value, ev.str)]

Shows(p, d) == Printed(Reading(p, d)[1], Reading(p, d)[2])

\* Mutant: an event without a name is skipped whatever its code is.
SkippedNameless(ev) == ev.name = NoName

Skipped(ev) == ev.name = NoName /\ ev.code = Blank

\* ptp_eos_events_json: the lines of the array, each at the place of its event,
\* with what separates it from the next.
Json(evs) ==
  [i \in {k \in 1..Len(evs) : ~Skipped(evs[k])} |->
     [item |-> Item(evs[i]), end |-> IF (i - 1) - 1 = Len(evs) THEN "" ELSE ","]]

-----------------------------------------------------------------------------
EosTypeOK ==
  /\ camera \in [Props -> Nat] /\ \A p \in Props : camera[p] \in Readings[p]
  /\ offer \in [Codes -> Seq(Values)]
  /\ Len(queue) <= QueueMax /\ Len(payload) <= QueueMax + 1
  /\ Len(events) <= Length(payload)
  /\ shown \in [Props -> Nat \X STRING]
  /\ wish \in [Props -> SUBSET Nat]
  /\ pc \in {"idle", "unpack"}
  /\ TypeOK

\* The front end has shown every property once.
EosInit ==
  /\ camera \in {f \in [Props -> UNION {Readings[p] : p \in Props}] :
                   \A p \in Props : f[p] \in Readings[p]}
  /\ offer = [p \in Codes |-> <<>>]
  /\ queue = <<>> /\ payload = <<>> /\ events = <<>> /\ pc = "idle"
  /\ shown = [p \in Props |-> Shows(p, camera[p])]
  /\ wish = [p \in Props |-> {}]
  /\ Init

-----------------------------------------------------------------------------
(* The camera.  An entry appears while the client is anywhere.             *)

Collect(e) == Len(queue) + Length(payload) < QueueMax /\ queue' = Append(queue, e)

\* A dial is turned.
Turn(p, d) ==
  /\ d # camera[p] /\ camera' = [camera EXCEPT ![p] = d]
  /\ Collect(ValueEntry(p, d))
  /\ wish' = [wish EXCEPT ![p] = {}]
  /\ UNCHANGED <<offer, clientVars, availVars>>

\* Another mode offers other values, or none at all.
Offer(p, o) ==
  /\ Collect(Record("list", p, o))
  /\ offer' = [offer EXCEPT ![p] = IF o = <<>> THEN @ ELSE o]
  /\ UNCHANGED <<camera, wish, clientVars, availVars>>

Happen(e) ==
  /\ Collect(e)
  /\ UNCHANGED <<camera, offer, wish, clientVars, availVars>>

\* A value arrives with SetDevicePropValueEx and is taken.
Take(p, d) == camera' = [camera EXCEPT ![p] = d] /\ Collect(ValueEntry(p, d))

-----------------------------------------------------------------------------
(* The client.                                                             *)

\* ptp_eos_get_event: the answer may or may not have a terminator.
GetEvent ==
  /\ pc = "idle"
  /\ payload' \in {queue, Append(queue, End)} /\ queue' = <<>>
  /\ events' = <<>> /\ pc' = "unpack"
  /\ UNCHANGED <<camera, offer, shown, wish, availVars>>

\* Mutant: a longer list loses its last member.
UnpackListShort(e) ==
  \/ /\ e.type = "list" /\ e.data # <<>>
     /\ \E m \in Sizes[e.code] :
          SetPropAvailInfo(e.code, m, IF Len(e.data) = 1 THEN e.data ELSE Front(e.data))
  \/ (e.type # "list" \/ e.data = <<>>) /\ UNCHANGED availVars

\* Mutant: an empty list is stored like any other.
UnpackListEmpty(e) ==
  \/ e.type = "list" /\ \E m \in Sizes[e.code] : SetPropAvailInfo(e.code, m, e.data)
  \/ e.type # "list" /\ UNCHANGED availVars

\* AvailListChanged is stored in r->avail, unless it is empty; the size of its
\* members follows from the length of its entry, which nothing else looks at.
UnpackList(e) ==
  \/ /\ e.type = "list" /\ e.data # <<>>
     /\ \E m \in Sizes[e.code] : SetPropAvailInfo(e.code, m, e.data)
  \/ (e.type # "list" \/ e.data = <<>>) /\ UNCHANGED availVars

UnpackEntry ==
  LET e == payload[Len(events) + 1]
  IN  /\ pc = "unpack" /\ Len(events) < Length(payload)
      /\ UnpackList(e)
      /\ events' = Append(events, Unpack(e))
      /\ UNCHANGED <<camera, offer, queue, payload, shown, wish, pc>>

\* The front end goes through the array in order: the last line of a property
\* is the one it shows.
Lines(js, p) == {i \in DOMAIN js : js[i].item.key = p}
LastText(js, p) == js[CHOOSE i \in Lines(js, p) : \A j \in Lines(js, p) : j <= i].item.text

EventsJson ==
  /\ pc = "unpack" /\ Len(events) = Length(payload)
  /\ shown' = [p \in Props |-> IF Lines(Json(events), p) = {} THEN shown[p]
                               ELSE LastText(Json(events), p)]
  /\ pc' = "idle" /\ payload' = <<>> /\ events' = <<>>
  /\ UNCHANGED <<camera, offer, queue, wish, availVars>>

\* ptp_set_generic_property for aperture, iso and shutter speed: nothing is
\* sent when the list has no such value; the camera may refuse what is sent.
SetGenericProperty(p, v) ==
  LET d == Data(p, v)
  IN  /\ pc = "idle" /\ SetValidateProp(p, d)
      /\ \/ UNCHANGED <<camera, queue, wish>>
         \/ /\ verdict' \in {0, 1} /\ Take(p, d)
            /\ wish' = [wish EXCEPT ![p] = {v}]
      /\ UNCHANGED <<offer, clientVars>>

\* bind_set_property with a code, bind_mirror_up, bind_mirror_down.
SetPropValue(p, d) ==
  /\ pc = "idle" /\ Take(p, d)
  /\ wish' = [wish EXCEPT ![p] = {}]
  /\ UNCHANGED <<offer, clientVars, availVars>>

Camera ==
  \/ \E p \in Props : \E d \in Readings[p] : Turn(p, d)
  \/ \E p \in Codes : \E o \in Offers[p] : Offer(p, o)
  \/ \E e \in Others : Happen(e)

Client ==
  /\ Up
  /\ \/ GetEvent \/ UnpackEntry \/ EventsJson
     \/ \E p \in DOMAIN Wishes : \E v \in Wishes[p] : SetGenericProperty(p, v)
     \/ \E p \in Props : \E d \in Readings[p] : SetPropValue(p, d)

EosNext == Camera \/ Client

EosSpec == EosInit /\ [][EosNext]_eosVars

-----------------------------------------------------------------------------
(* Properties.                                                             *)

AtRest == pc = "idle" /\ queue = <<>>

\* When nothing is left to poll, the front end shows what the camera is set
\* to: no entry is lost, taken twice or applied out of order, whatever stands
\* between two entries of a property.
ShownIsCamera == AtRest => \A p \in Props : shown[p] = Shows(p, camera[p])

\* A value set by name, and taken, comes back as the same value, though it was
\* translated to the camera's data and back by the first fitting rows.
SetReadsBack == AtRest => \A p \in Props : \A v \in wish[p] : shown[p] = <<v, "">>

\* r->avail behaves as PropAvail with the camera's lists that are not empty.
AvailSpec == Spec

\* ... and at rest it has seen the last of them.
OffersKnown == AtRest => latest = offer

\* bind.c promises "valid JSON": no comma after the last item.
EventsJsonValid ==
  [][EventsJson => \A i \in DOMAIN Json(events) :
       (\A j \in DOMAIN Json(events) : j <= i) => Json(events)[i].end = ""]_eosVars
=============================================================================

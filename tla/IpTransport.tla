---------------------------- MODULE IpTransport ----------------------------
(***************************************************************************)
(* Receiving answers over PTP_IP: ptpip_read_packet and                    *)
(* ptpip_receive_bulk_packets on a TCP stream, read by read.  An answer is *)
(* a response packet, or a data start, a data end and a response packet;   *)
(* the length field comes first in each and is read on its own.            *)
(***************************************************************************)
EXTENDS PacketLayout, SequencesExt

CONSTANTS WaitDefault,   \* r->response_wait_default
          Asked,         \* values a caller may leave in r->wait_for_response
          LenField,      \* units of the length field (4 bytes in the source)
          Modulus,       \* of a 32-bit unsigned sum (2^32 in the source)
          Lens,          \* lengths a packet may claim, in units
          Huge,          \* bound: units of a packet that claims half of Modulus
          Buffer, Extra, \* PTP_DEFAULT_SIZE, and the extra room of a resize
          MaxFails,      \* bound: failed reads in an exchange
          HangsUp,       \* BOOLEAN: the camera may close the connection
          Stops,         \* BOOLEAN: it may fall silent for good
          Strange,       \* BOOLEAN: it may send packets of other types
          MaxCalls       \* bound: answers received

ASSUME IpWaitAssumption == WaitDefault \in Nat /\ Asked \subseteq Nat
ASSUME IpLensAssumption == /\ LenField \in Nat \ {0} /\ Modulus \in Nat
                           /\ Lens # {} /\ Lens \subseteq 0..Modulus - 1
                           /\ Huge \in Nat /\ Huge >= LenField
ASSUME IpBufferAssumption == Buffer \in Nat /\ Buffer > LenField /\ Extra \in Nat
ASSUME IpCameraAssumption == MaxFails \in Nat /\ MaxCalls \in Nat
                             /\ {HangsUp, Stops, Strange} \subseteq BOOLEAN

VARIABLES
  pc,        \* "idle", "length", "body" or "dead"
  call,      \* number of the current exchange
  stage,     \* packet of the answer being read: 1, 2 or 3
  wanted,    \* r->wait_for_response as the caller left it
  wait,      \* r->wait_for_response
  fails,     \* history: failed reads since the exchange began
  data,      \* r->data: the packets read so far
  of,        \* offset of the packet being read
  size,      \* r->data_length
  claims,    \* history: "sound" until a packet claims a length that is not
  verdict,   \* of ptpip_receive_bulk_packets
  plan,      \* types of the packets the camera still has to send
  pipe,      \* units on the way
  peer       \* the camera: "there", "silent" for good or "gone"

host == <<pc, call, stage, wanted, wait, fails, data, of, size, claims, verdict>>
vars == <<pc, call, stage, wanted, wait, fails, data, of, size, claims, verdict, plan,
          pipe, peer>>

Types == {"start", "end", "rsp", "other"}
Packet == [type : Types, len : Nat, call : Nat]
Unit == [of : Packet, at : Nat]

\* A packet has as many units as it claims, but its length field at least, and
\* one that claims more than an int can hold has fewer.
Count(p) == IF p.len < LenField THEN LenField
            ELSE IF p.len < Modulus \div 2 THEN p.len ELSE Huge
Units(p) == [i \in 1..Count(p) |-> [of |-> p, at |-> i]]

TypeOK ==
  /\ pc \in {"idle", "length", "body", "dead"}
  /\ call \in 0..MaxCalls /\ stage \in 1..3
  /\ wanted \in Nat /\ wait \in Nat /\ fails \in 0..MaxFails
  /\ data \in Seq(Unit) /\ of \in 0..Len(data)
  /\ size \in Nat /\ claims \in {"sound", "odd"}
  /\ verdict \in {"more", "ok", "ignored", "ioerr", "nomem", "overrun"}
  /\ plan \in Seq(Types)
  /\ pipe \in Seq(Unit)
  /\ peer \in {"there", "silent", "gone"}

Init ==
  /\ pc = "idle" /\ call = 0 /\ stage = 1
  /\ wanted = WaitDefault /\ wait = WaitDefault /\ fails = 0
  /\ data = <<>> /\ of = 0 /\ size = Buffer /\ claims = "sound" /\ verdict = "ok"
  /\ plan = <<>> /\ pipe = <<>> /\ peer = "there"

Answers == {<<"rsp">>, <<"start", "end", "rsp">>}
           \cup (IF Strange THEN {<<"other">>, <<"start", "rsp">>,
                                  <<"start", "end", "other">>} ELSE {})

\* A command has gone out and the camera is about to answer it.  At this commit
\* ptp_send_packet stops the program for this transport before the first byte
\* is out (transport.c:19-20): what follows is reached once that is repaired.
Receive ==
  /\ pc = "idle" /\ call < MaxCalls
  /\ call' = call + 1 /\ stage' = 1
  /\ \E w \in Asked \cup {wait} : wanted' = w /\ wait' = w
  /\ fails' = 0 /\ data' = <<>> /\ of' = 0 /\ verdict' = "more" /\ pc' = "length"
  /\ plan' \in Answers
  /\ UNCHANGED <<size, claims, pipe, peer>>

-----------------------------------------------------------------------------
(* The host.                                                               *)
EndReceive(v) == /\ verdict' = v
                 /\ pc' = IF v = "ok" THEN "idle" ELSE "dead"
                 /\ UNCHANGED <<stage, of>>

\* Mutant: the data end packet completes the answer.
PacketReadEnd(ty) ==
  IF stage = 1 /\ ty = "start"
    THEN /\ stage' = stage + 1 /\ of' = Len(data') /\ pc' = "length"
         /\ UNCHANGED verdict
    ELSE EndReceive(IF ty \in {"rsp", "end"} THEN "ok" ELSE "ioerr")

\* ptpip_receive_bulk_packets after ptpip_read_packet has read a packet of
\* type ty as packet number stage.
PacketRead(ty) ==
  IF (stage = 1 /\ ty = "start") \/ (stage = 2 /\ ty = "end")
    THEN /\ stage' = stage + 1 /\ of' = Len(data') /\ pc' = "length"
         /\ UNCHANGED verdict
    ELSE EndReceive(IF stage # 2 /\ ty = "rsp" THEN "ok" ELSE "ioerr")

\* The packet whose first unit is at the current offset.
Here(d) == d[of + 1].of

Take(n) == /\ data' = data \o SubSeq(pipe, 1, n)
           /\ pipe' = SubSeq(pipe, n + 1, Len(pipe))

\* More than a packet's length field is in its length, and r->data_length, an
\* int, can hold the place the packet needs.
Sound(len) == len > LenField /\ of + LenField + len + Extra < Modulus \div 2

Wrapped(n) == IF n >= Modulus THEN n - Modulus ELSE n

\* Mutant: room for the packet, and none for the next length field.
RoomExact(need) == IF need > size + LenField THEN need + Extra ELSE size

\* The buffer when a packet needs that much; the length field is counted twice.
Room(need) == IF need >= size THEN need + Extra ELSE size

\* What ptpip_read_packet makes of a length: the field alone is a packet whose
\* type is read from what was in the memory behind it, anything else gets its
\* room, by a sum of 32 bits, or none for lack of memory.
TakeLength(len) ==
  LET need == Wrapped(of + LenField + len)
  IN  IF len = LenField
        THEN (\E ty \in Types : PacketRead(ty)) /\ UNCHANGED size
        ELSE \/ /\ pc' = "body" /\ size' = Room(need)
                /\ UNCHANGED <<stage, of, verdict>>
             \/ need >= size /\ EndReceive("nomem") /\ UNCHANGED size

\* The length field arrives.  Fewer than four bytes are an error.
ReadLength ==
  /\ pc = "length" /\ wait > 0 /\ pipe # <<>>
  /\ wait' = WaitDefault
  /\ Take(IF Len(pipe) < LenField THEN Len(pipe) ELSE LenField)
  /\ IF Len(data') > size
       THEN EndReceive("overrun") /\ UNCHANGED <<size, claims>>
     ELSE IF Len(pipe) < LenField
       THEN EndReceive("ioerr") /\ UNCHANGED <<size, claims>>
       ELSE /\ TakeLength(Here(data').len)
            /\ claims' = IF Sound(Here(data').len) THEN claims ELSE "odd"
  /\ UNCHANGED <<call, wanted, fails, plan, peer>>

\* A read without bytes: it fails (a signal, an error of the socket, rc < 0),
\* or the camera is gone (rc = 0).  A read from a silent camera only blocks.
MayFail == pipe = <<>> /\ peer # "gone" /\ fails < MaxFails
Gone == pipe = <<>> /\ peer = "gone"

\* Mutant: the first read without bytes ends it.
NoLengthAtOnce(v) == wait' = WaitDefault /\ EndReceive(v)

\* What ptpip_read_packet makes of a read of the length field without bytes.
NoLength(v) ==
  IF wait > 1 THEN wait' = wait - 1 /\ UNCHANGED <<pc, stage, of, verdict>>
              ELSE wait' = WaitDefault /\ EndReceive(v)

LengthFails ==
  /\ pc = "length" /\ wait > 0 /\ MayFail
  /\ NoLength("ignored")
  /\ fails' = fails + 1
  /\ UNCHANGED <<call, wanted, data, size, claims, plan, pipe, peer>>

LengthGone ==
  /\ pc = "length" /\ wait > 0 /\ Gone
  /\ NoLength("ioerr")
  /\ UNCHANGED <<call, wanted, fails, data, size, claims, plan, pipe, peer>>

\* With nothing to wait for the field is not read at all.
LengthUnread ==
  /\ pc = "length" /\ wait = 0
  /\ wait' = WaitDefault
  /\ EndReceive("ioerr")
  /\ UNCHANGED <<call, wanted, fails, data, size, claims, plan, pipe, peer>>

\* Mutant: one unit more than the packet has.
MissingOne == LET read == Len(data) - of
              IN  1 + (IF Here(data).len < read
                         THEN Here(data).len + Modulus - read
                         ELSE Here(data).len - read)

\* The rest of the packet, h->length - read, which is unsigned.
Missing == LET read == Len(data) - of
           IN  IF Here(data).len < read THEN Here(data).len + Modulus - read
                                        ELSE Here(data).len - read

\* What is missing is asked for and some of it comes.
ReadBody ==
  /\ pc = "body" /\ pipe # <<>>
  /\ \E n \in 1..Missing :
        /\ n <= Len(pipe)
        /\ Take(n)
        /\ IF Len(data) + n > size THEN EndReceive("overrun")
           ELSE IF n = Missing THEN PacketRead(Here(data').type)
                               ELSE UNCHANGED <<pc, stage, of, verdict>>
  /\ UNCHANGED <<call, wanted, wait, fails, size, claims, plan, peer>>

\* As an int, what is missing may be negative.  POSIX leaves it to the system
\* what read() does with such a count; Linux refuses it.
BodyRefused ==
  /\ pc = "body" /\ Missing >= Modulus \div 2
  /\ EndReceive("ioerr")
  /\ UNCHANGED <<call, wanted, wait, fails, data, size, claims, plan, pipe, peer>>

\* An error of the socket, also of one whose peer has reset the connection.
BodyFails ==
  /\ pc = "body" /\ pipe = <<>> /\ fails < MaxFails
  /\ EndReceive("ioerr")
  /\ fails' = fails + 1
  /\ UNCHANGED <<call, wanted, wait, data, size, claims, plan, pipe, peer>>

\* read() returns 0 for ever and the loop does not look at it.
BodyGone ==
  /\ pc = "body" /\ Gone
  /\ UNCHANGED vars

-----------------------------------------------------------------------------
(* The camera sends its answer packet by packet; TCP cuts it anywhere, but *)
(* keeps a length field together.  Once the host has failed the camera is   *)
(* not followed further.                                                   *)
SendPacket ==
  /\ pc # "dead" /\ plan # <<>> /\ peer = "there"
  /\ \E l \in Lens :
        pipe' = pipe \o Units([type |-> Head(plan), len |-> l, call |-> call])
  /\ plan' = Tail(plan)
  /\ UNCHANGED <<host, peer>>

\* The connection is closed; what was on its way may be cut short.
HangUp ==
  /\ HangsUp /\ pc # "dead" /\ peer # "gone"
  /\ peer' = "gone"
  /\ \E n \in 0..Len(pipe) : pipe' = SubSeq(pipe, 1, n)
  /\ UNCHANGED <<host, plan>>

\* The camera falls silent and keeps the connection.
Stop ==
  /\ Stops /\ pc # "dead" /\ plan # <<>> /\ peer = "there"
  /\ peer' = "silent"
  /\ UNCHANGED <<host, plan, pipe>>

\* A reader without bytes, errors or an end to expect is blocked in read().
Blocked == /\ pc \in {"length", "body"} /\ wait > 0 /\ pipe = <<>>
           /\ plan = <<>> \/ peer = "silent"
Done == pc = "dead" \/ (pc = "idle" /\ call = MaxCalls)
Idle == (Done \/ Blocked) /\ UNCHANGED vars

Reader == Receive \/ ReadLength \/ LengthGone \/ LengthUnread \/ ReadBody
          \/ BodyRefused \/ BodyGone

Next == Reader \/ LengthFails \/ BodyFails \/ SendPacket \/ HangUp \/ Stop
        \/ Idle

Spec == Init /\ [][Next]_vars

\* The reading thread keeps running and the camera finishes what it began; no
\* read has to fail.
FairSpec == Spec /\ WF_vars(Reader) /\ WF_vars(SendPacket)

-----------------------------------------------------------------------------
(* Properties.                                                             *)

\* An answer of sound packets that is accepted is one whole answer to this
\* exchange in which ptpip_get_response_packet finds the response, and the next
\* exchange starts at the beginning of a packet.
ExactAnswer ==
  claims = "sound" =>
    /\ verdict = "ok" /\ call > 0 =>
         /\ \A i \in 1..Len(data) : data[i].of.call = call
         /\ data # <<>> /\ Last(data).at = Last(data).of.len
         /\ Last(data).of.type = "rsp" /\ IpResponse(data) = Last(data).of
    /\ pc = "idle" => pipe = <<>> /\ plan = <<>>

\* A caller that asks to wait gets that many reads before the command counts
\* as ignored (the first packet; unlike ptpusb_read_all_packets).
WaitHonoured == verdict = "ignored" /\ data = <<>> => fails = wanted

\* Only after a length that is not sound does a read leave r->data: otherwise
\* there is room for a length field before it is known, and for the packet
\* after it.
BufferHolds ==
  \/ claims = "odd"
  \/ /\ verdict # "overrun"
     /\ pc = "length" => Len(data) + LenField <= size
     /\ pc = "body" => of + Here(data).len <= size

\* The reading thread, which holds the mutex, comes back as long as the camera
\* neither closes the connection nor falls silent nor claims an unsound length.
Busy == pc \in {"length", "body"}
ReceiveEndsWithPeer == Busy ~> ~Busy \/ peer # "there" \/ claims = "odd"

\* transport.c:76: "Ensure data buffer is large enough for the rest of the
\* packet".  It is, whatever length the packet claims.
NeverOverrun == verdict # "overrun"

\* libpict.h: "wait up to 256 seconds for a response".  It comes back, whatever
\* the camera does.
ReceiveEnds == Busy ~> ~Busy
=============================================================================

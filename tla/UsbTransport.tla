---------------------------- MODULE UsbTransport ----------------------------
(***************************************************************************)
(* One thread that makes calls over PTP_USB or PTP_IP_USB: ptp_send_packet *)
(* write by write, ptpusb_read_all_packets read by read, the second try of *)
(* ptp_send and ptp_send_data, the accessors of packet.c on the answer,    *)
(* and the camera at the other end of the two bulk pipes.                  *)
(*                                                                         *)
(* Bytes are counted in units: a container is a header of Hdr units (the   *)
(* 12 bytes of the source) and a payload.  A unit remembers the container  *)
(* it belongs to and its place in it.                                      *)
(***************************************************************************)
EXTENDS PacketLayout, SequencesExt

CONSTANTS WaitDefault,   \* r->response_wait_default
          Asked,         \* values a caller may leave in r->wait_for_response
          Hdr,           \* units of a container header
          MaxPacket,     \* r->max_packet_size in units
          Outs,          \* parameter and data lengths of commands: a set of
                         \*   <<params>> (ptp_send) or <<params, data>>
          Payloads,      \* payload lengths of the camera's data containers
          Params,        \* parameter lengths of its response containers
          Patience,      \* empty reads a camera that will answer may cause
          Drops,         \* BOOLEAN: the camera may drop a command unseen
          MaxCalls       \* bound: calls made

ASSUME WaitAssumption == WaitDefault \in Nat /\ Asked \subseteq Nat
ASSUME UnitsAssumption == Hdr \in Nat \ {0} /\ MaxPacket \in Nat \ {0}
                          /\ Payloads \subseteq Nat /\ Params \subseteq Nat
                          /\ Outs \subseteq Seq(Nat)
                          /\ \A o \in Outs : Len(o) \in {1, 2}
ASSUME CameraAssumption == Patience \in Nat /\ Drops \in BOOLEAN
                           /\ MaxCalls \in Nat

VARIABLES
  pc,        \* where ptp_send is: "idle", "write", "read" or "dead"
  tid,       \* r->transaction: number of the current call
  try,       \* 1 or 2
  out,       \* lengths of the parts of the current command
  part,      \* packet of it being sent: 1 the command, 2 the data
  sent,      \* units of that packet sent
  wanted,    \* r->wait_for_response as the caller left it
  wait,      \* r->wait_for_response
  attempts,  \* read_attempts
  data,      \* r->data up to "read"
  result,    \* of the last call: "none", "ok" or "failed"
  verdict,   \* of the last ptpusb_read_all_packets
  line,      \* units the camera has received and not looked at
  owed,      \* command whose response container is still to come, or 0
  pipe,      \* units on the way from the camera
  executed   \* history: commands in the order the camera executed them

host == <<pc, tid, try, out, part, sent, wanted, wait, attempts, data, result, verdict>>
camera == <<line, owed, executed>>
sending == <<out, part, sent>>
vars == <<pc, tid, try, out, part, sent, wanted, wait, attempts, data, result,
          verdict, line, owed, pipe, executed>>

Container == [type : {"cmd", "data", "rsp"}, len : Nat, tid : Nat]
Unit == [of : Container, at : Nat]
Units(c) == [i \in 1..c.len |-> [of |-> c, at |-> i]]

\* The length of a packet of the command, header included.
PartLen(p) == Hdr + out[p]

TypeOK ==
  /\ pc \in {"idle", "write", "read", "dead"}
  /\ tid \in 0..MaxCalls
  /\ try \in {1, 2}
  /\ out \in Outs \cup {<<0>>} /\ part \in 1..Len(out) /\ sent \in 0..PartLen(part)
  /\ wanted \in Nat /\ wait \in Nat /\ attempts \in Nat
  /\ data \in Seq(Unit)
  /\ result \in {"none", "ok", "failed"}
  /\ verdict \in {"more", "ok", "ignored", "ioerr"}
  /\ line \in Seq(Unit)
  /\ owed \in 0..MaxCalls
  /\ pipe \in Seq(Unit)
  /\ executed \in Seq(1..MaxCalls)

Init ==
  /\ pc = "idle" /\ tid = 0 /\ try = 1 /\ wanted = WaitDefault
  /\ wait = WaitDefault /\ attempts = 0 /\ data = <<>>
  /\ result = "ok" /\ verdict = "ok"
  /\ out = <<0>> /\ part = 1 /\ sent = 0
  /\ line = <<>> /\ owed = 0 /\ pipe = <<>> /\ executed = <<>>

-----------------------------------------------------------------------------
(* The host.                                                               *)

\* A caller sets r->wait_for_response, or not, and calls ptp_send or
\* ptp_send_data.
Call ==
  /\ pc = "idle" /\ tid < MaxCalls
  /\ tid' = tid + 1
  /\ out' \in Outs /\ part' = 1 /\ sent' = 0
  /\ \E w \in Asked \cup {WaitDefault} : wanted' = w /\ wait' = w
  /\ try' = 1 /\ pc' = "write" /\ result' = "none"
  /\ UNCHANGED <<attempts, data, verdict, camera, pipe>>

\* The receive loop starts over: it takes the default, whatever the caller
\* asked for.
WaitFirst(w) == WaitDefault

BeginRead == /\ pc' = "read" /\ part' = 1 /\ sent' = 0
             /\ wait' = WaitFirst(wanted)
             /\ attempts' = 0 /\ data' = <<>> /\ verdict' = "more"

\* The packet that is being sent.
Outgoing == [type |-> IF part = 1 THEN "cmd" ELSE "data", len |-> PartLen(part),
             tid |-> tid]

\* Mutant: what was asked for counts as sent.
SentAsked(n, max) == sent + max

\* ptp_send_packet counts what was sent.
SentNow(n, max) == sent + n

\* One write: at most a packet size, and perhaps less than asked for.
Write ==
  /\ pc = "write"
  /\ LET left == PartLen(part) - sent
         max == IF left < MaxPacket THEN left ELSE MaxPacket
     IN \E n \in 1..max :
          /\ line' = line \o SubSeq(Units(Outgoing), sent + 1, sent + n)
          /\ IF SentNow(n, max) < PartLen(part)
               THEN /\ sent' = SentNow(n, max)
                    /\ UNCHANGED <<pc, part, wait, attempts, data, verdict>>
             ELSE IF part < Len(out)
               THEN /\ part' = part + 1 /\ sent' = 0
                    /\ UNCHANGED <<pc, wait, attempts, data, verdict>>
             ELSE BeginRead
  /\ UNCHANGED <<tid, try, out, wanted, result, owed, executed, pipe>>

WriteFails ==
  /\ pc = "write"
  /\ pc' = "dead" /\ result' = "failed"
  /\ UNCHANGED <<tid, try, sending, wanted, wait, attempts, data, verdict, camera,
                 pipe>>

\* Mutant: a response header is taken for a whole response.
ExamineHeader(d, w, a) ==
  LET n == Len(d)
      first == Header(d, 0)
  IN  IF w = 0 /\ a > 0 THEN "ignored"
      ELSE IF n < Hdr \/ n < first.len THEN "more"
      ELSE IF first.type = "rsp" THEN "ok"
      ELSE IF first.type # "data" \/ n < first.len + Hdr THEN "more"
      ELSE "ok"

\* Mutant: an answer is thrown away after any empty read.
ExamineEager(d, w, a) ==
  LET n == Len(d)
      first == Header(d, 0)
      second == Header(d, first.len)
  IN  IF a > 0 THEN "ignored"
      ELSE IF n < Hdr \/ n < first.len THEN "more"
      ELSE IF first.type = "rsp" THEN "ok"
      ELSE IF first.type # "data" \/ n < first.len + Hdr THEN "more"
      ELSE IF second.type # "rsp" THEN "ioerr"
      ELSE IF n = first.len + second.len THEN "ok"
      ELSE IF n > first.len + second.len THEN "ioerr"
      ELSE "more"

\* The body of the receive loop after a read that did not ask for another try.
Examine(d, w, a) ==
  LET n == Len(d)
      first == Header(d, 0)
      second == Header(d, first.len)
  IN  IF w = 0 /\ a > 0 THEN "ignored"
      ELSE IF n < Hdr \/ n < first.len THEN "more"
      ELSE IF first.type = "rsp" THEN "ok"
      ELSE IF first.type # "data" \/ n < first.len + Hdr THEN "more"
      ELSE IF second.type # "rsp" THEN "ioerr"
      ELSE IF n = first.len + second.len THEN "ok"
      ELSE IF n > first.len + second.len THEN "ioerr"
      ELSE "more"

\* Mutant: an ignored command is repeated for as long as it is ignored.
EndTryAgain(v) ==
  /\ verdict' = v
  /\ CASE v = "more" -> UNCHANGED <<pc, try, result>>
       [] v = "ok" -> pc' = "idle" /\ result' = "ok" /\ UNCHANGED try
       [] v = "ignored" -> pc' = "write" /\ UNCHANGED <<try, result>>
       [] OTHER -> pc' = "dead" /\ result' = "failed" /\ UNCHANGED try

\* What ptp_send does with the end of a try.  A command counts as executed
\* whatever its response code.
EndTry(v) ==
  /\ verdict' = v
  /\ CASE v = "more" -> UNCHANGED <<pc, try, result>>
       [] v = "ok" -> pc' = "idle" /\ result' = "ok" /\ UNCHANGED try
       [] v = "ignored" /\ try = 1 -> pc' = "write" /\ try' = 2 /\ UNCHANGED result
       [] OTHER -> pc' = "dead" /\ result' = "failed" /\ UNCHANGED try

ReadChunk ==
  /\ pc = "read" /\ pipe # <<>>
  /\ \E n \in 1..MaxPacket :
        /\ n <= Len(pipe)
        /\ data' = data \o SubSeq(pipe, 1, n)
        /\ pipe' = SubSeq(pipe, n + 1, Len(pipe))
  /\ EndTry(Examine(data', wait, attempts))
  /\ UNCHANGED <<tid, sending, wanted, wait, attempts, camera>>

\* A read comes back empty: the camera has nothing to send, or is slow.
Quiet == /\ pipe = <<>>
         /\ attempts < Patience \/ (line = <<>> /\ owed = 0)

ReadTimeout ==
  /\ pc = "read" /\ Quiet
  /\ IF wait > 0 THEN /\ wait' = wait - 1 /\ attempts' = attempts + 1
                      /\ UNCHANGED <<pc, try, result, verdict>>
                 ELSE EndTry("ioerr") /\ UNCHANGED <<wait, attempts>>
  /\ UNCHANGED <<tid, sending, wanted, data, camera, pipe>>

ReadZero ==
  /\ pc = "read" /\ Quiet
  /\ IF wait > 0 THEN /\ wait' = wait - 1 /\ attempts' = attempts + 1
                      /\ UNCHANGED <<pc, try, result, verdict>>
                 ELSE EndTry(Examine(data, wait, attempts))
                      /\ UNCHANGED <<wait, attempts>>
  /\ UNCHANGED <<tid, sending, wanted, data, camera, pipe>>

-----------------------------------------------------------------------------
(* The camera: it takes commands in order, once it has a command and the    *)
(* data phase of it, executes each or drops it, and answers with a         *)
(* response, or with a data container and a response.                      *)
Rsp(c) == [type : {"rsp"}, len : {Hdr + p : p \in Params}, tid : {c}]

\* Units of the command at the head of the line, or 0 while it is incomplete.
Arrived ==
  LET c == Header(line, 0)
      d == Header(line, c.len)
      n == IF Len(out) = 1 THEN c.len ELSE c.len + d.len
  IN  IF owed = 0 /\ c.type = "cmd" /\ Len(line) >= n
         /\ (Len(out) = 2 => d.type = "data") THEN n ELSE 0

TakeCommand == /\ Arrived > 0
               /\ line' = SubSeq(line, Arrived + 1, Len(line))

Respond ==
  /\ TakeCommand
  /\ executed' = Append(executed, Header(line, 0).tid)
  /\ \E c \in Rsp(Header(line, 0).tid) : pipe' = pipe \o Units(c)
  /\ UNCHANGED <<host, owed>>

SendData ==
  /\ TakeCommand
  /\ executed' = Append(executed, Header(line, 0).tid)
  /\ owed' = Header(line, 0).tid
  /\ \E p \in Payloads :
        pipe' = pipe \o Units([type |-> "data", len |-> Hdr + p,
                               tid |-> Header(line, 0).tid])
  /\ UNCHANGED host

FinishData ==
  /\ owed # 0
  /\ \E c \in Rsp(owed) : pipe' = pipe \o Units(c)
  /\ owed' = 0
  /\ UNCHANGED <<host, line, executed>>

Drop ==
  /\ Drops
  /\ TakeCommand
  /\ UNCHANGED <<host, owed, executed, pipe>>

\* Nothing more is called, and the camera has no command left to look at.
Done == /\ pc = "dead" \/ (pc = "idle" /\ tid = MaxCalls)
        /\ Arrived = 0 /\ owed = 0
        /\ UNCHANGED vars

Host == Call \/ Write \/ WriteFails \/ ReadChunk \/ ReadTimeout \/ ReadZero
Camera == Respond \/ SendData \/ FinishData \/ Drop

Next == Host \/ Camera \/ Done

Spec == Init /\ [][Next]_vars

\* The host is one thread that keeps running; the camera works off its line.
FairSpec == Spec /\ WF_vars(Host) /\ WF_vars(Camera)

-----------------------------------------------------------------------------
(* Properties.                                                             *)

\* When ptp_send succeeds, the buffer holds one whole answer and nothing of
\* another.
WholeAnswer ==
  result = "ok" /\ tid > 0 =>
    /\ \A i \in 1..Len(data) : data[i].of.tid = tid
    /\ LET r == Last(data).of IN r.type = "rsp" /\ Last(data).at = r.len

\* The accessors find its parts: the response is the last container, and the
\* payload is all that the camera put into the first one.
AccessorsAgree ==
  result = "ok" /\ tid > 0 =>
    /\ UsbResponse(data) = Last(data).of
    /\ UsbPayload(data, Hdr) = [i \in 1..(data[1].of.len - Hdr) |->
                                [of |-> data[1].of, at |-> Hdr + i]]

\* libpict.h: ptp_get_param gets a parameter of the response.
ParamsAgree ==
  result = "ok" /\ tid > 0 =>
    \A i \in 1..(Last(data).of.len - Hdr) :
       UsbParam(data, Hdr, i - 1) = [of |-> Last(data).of, at |-> Hdr + i]

\* The camera hears whole packets, however the writes are cut, the command
\* before its data; only a failed write leaves one unfinished.
Ends(u) == u.at = u.of.len
WholePackets ==
  /\ \A i \in 1..Len(line) :
       IF i = 1 \/ Ends(line[i - 1])
         THEN line[i].at = 1 /\ (line[i].of.type = "cmd" <=> i = 1)
         ELSE line[i] = [line[i - 1] EXCEPT !.at = @ + 1]
  /\ pc = "read" /\ line # <<>> => Ends(Last(line))

\* lib.c: "If our command is ignored (we get 0 bytes as a response), try
\* sending the commands again."
IgnoredMeansSilence == verdict = "ignored" => data = <<>>

\* libpict.h, generic.c: a caller that asks to wait gets that many reads
\* before its command is repeated or abandoned.
WaitHonoured ==
  verdict \in {"ignored", "ioerr"} => data # <<>> \/ attempts >= wanted

\* A call has its command executed exactly once and gets its own answer.
Runs == {i \in DOMAIN executed : executed[i] = tid}
Answered == IF result = "ok" /\ tid > 0 THEN UsbResponse(data).tid
            ELSE IF tid = 0 THEN 0 ELSE tid - 1
Remote == INSTANCE RemoteCall
            WITH call <- tid, runs <- Cardinality(Runs), answer <- Answered
RemoteSpec == Remote!CallSpec

\* ptp_send comes back, however often the camera drops the command.
CallEnds == pc \in {"write", "read"} ~> pc \in {"idle", "dead"}
=============================================================================

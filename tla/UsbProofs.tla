------------------------------ MODULE UsbProofs ------------------------------
(* The USB back end: proofs about UsbTransport, calls over two bulk pipes  *)
(* of commands and answers of any length, any packet size and any number   *)
(* of calls; and about UsbDevice, the life of the handle, for any workers  *)
(* and any number of handles.                                              *)
EXTENDS UsbTransport, UsbDevice, SequenceTheorems, FiniteSetTheorems, TLAPS

\* What the camera needs to answer, the receive loop has.  UsbTransport_faults
\* shows what happens otherwise.
Prompt == Patience < WaitDefault

-----------------------------------------------------------------------------
(* A transfer is one container or two, and a stream of units is the         *)
(* beginning of a transfer.                                                *)

Total(a) == IF Len(a) = 1 THEN a[1].len ELSE a[1].len + a[2].len

UnitAt(a, i) == IF i <= a[1].len THEN [of |-> a[1], at |-> i]
                                 ELSE [of |-> a[2], at |-> i - a[1].len]

\* The parts of the current command, and what there is of them.
Part(k) == [type |-> IF k = 1 THEN "cmd" ELSE "data", len |-> PartLen(k), tid |-> tid]
Command == [k \in 1..Len(out) |-> Part(k)]
SentSoFar == IF part = 1 THEN sent ELSE PartLen(1) + sent
Heard(n) == Len(line) = n /\ \A i \in 1..Len(line) : line[i] = UnitAt(Command, i)

\* What a camera answers to call t: a data container alone is the beginning.
DataOf(t) == [type : {"data"}, len : {Hdr + p : p \in Payloads}, tid : {t}]
Begun(t) == {<<d>> : d \in DataOf(t)}
Answer(t) == {<<c>> : c \in Rsp(t)} \cup {<<d, c>> : d \in DataOf(t), c \in Rsp(t)}

\* What is in r->data and what is on its way make up the transfer a.
Makes(d, q, a) == /\ Len(d) + Len(q) = Total(a)
                  /\ \A i \in 1..Len(d) : d[i] = UnitAt(a, i)
                  /\ \A i \in 1..Len(q) : q[i] = UnitAt(a, Len(d) + i)
Flow(a) == Makes(data, pipe, a)

Results == /\ pc = "idle" <=> result = "ok"
           /\ pc \in {"write", "read"} <=> result = "none"
           /\ pc # "idle" => tid > 0

Own == \A i \in 1..Len(executed) : executed[i] <= tid

\* The camera has not executed the current command, and owes and says nothing.
Still == Cardinality(Runs) = 0 /\ owed = 0 /\ pipe = <<>>

Writing == pc = "write" => Still /\ Heard(SentSoFar) /\ sent < PartLen(part)

\* After a failure the camera has no whole command.
Failed == pc = "dead" => Still /\ \E n \in Nat : n < Total(Command) /\ Heard(n)

\* A whole command is at the camera, was dropped by it or has been executed.
Reading ==
  pc = "read" =>
    /\ part = 1 /\ sent = 0
    /\ \/ Still /\ data = <<>> /\ Heard(Total(Command))
       \/ Still /\ data = <<>> /\ line = <<>>
       \/ /\ line = <<>> /\ Cardinality(Runs) = 1
          /\ \/ owed = tid /\ \E a \in Begun(tid) : Flow(a)
             \/ owed = 0 /\ \E a \in Answer(tid) : Flow(a) /\ Len(data) < Total(a)

\* Between two calls everything is where it belongs.
Resting ==
  pc = "idle" =>
    /\ line = <<>> /\ owed = 0 /\ pipe = <<>>
    /\ tid > 0 => Cardinality(Runs) = 1 /\ \E a \in Answer(tid) : Flow(a)

\* Empty reads are counted, and a camera that is out of patience is done.
Counting ==
  pc = "read" => /\ wait + attempts = WaitDefault
                 /\ attempts > Patience => line = <<>> /\ owed = 0 /\ pipe = <<>>

UInv == /\ TypeOK /\ Results /\ Own /\ Writing /\ Failed /\ Reading /\ Resting
        /\ Counting

-----------------------------------------------------------------------------
(* Transfers.                                                              *)

LEMMA Sizes ==
  /\ Hdr \in Nat \ {0} /\ MaxPacket \in Nat \ {0} /\ WaitDefault \in Nat
  /\ Patience \in Nat /\ MaxCalls \in Nat
  BY UnitsAssumption, WaitAssumption, CameraAssumption

LEMMA OutIs ==
  ASSUME TypeOK
  PROVE  /\ Len(out) = 1 \/ Len(out) = 2
         /\ \A k \in 1..Len(out) : out[k] \in Nat /\ PartLen(k) \in Nat \ {0}
         /\ part \in Nat /\ sent \in Nat /\ part \in 1..Len(out) /\ sent <= PartLen(part)
         /\ part = 1 \/ (part = 2 /\ Len(out) = 2)
         /\ PartLen(part) \in Nat \ {0} /\ PartLen(1) \in Nat \ {0}
<1>1. out \in Seq(Nat) /\ (Len(out) = 1 \/ Len(out) = 2)
  <2>1. CASE out = <<0>>
    BY <2>1
  <2>2. CASE out \in Outs
    BY <2>2, UnitsAssumption
  <2> QED
    BY <2>1, <2>2 DEF TypeOK
<1>2. \A k \in 1..Len(out) : out[k] \in Nat
  BY <1>1
<1>3. \A k \in 1..Len(out) : PartLen(k) \in Nat \ {0}
  BY <1>2, Sizes DEF PartLen
<1>4. part \in 1..Len(out) /\ sent \in 0..PartLen(part)
  BY DEF TypeOK
<1>5. part \in Nat /\ sent \in Nat /\ sent <= PartLen(part)
  BY <1>1, <1>3, <1>4
<1>6. 1 \in 1..Len(out) /\ (part = 1 \/ (part = 2 /\ Len(out) = 2))
  <2>1. CASE Len(out) = 1
    <3>1. part \in 1..1
      BY <1>4, <2>1
    <3> QED
      BY <2>1, <3>1
  <2>2. CASE Len(out) = 2
    <3>1. part \in 1..2
      BY <1>4, <2>2
    <3> QED
      BY <2>2, <3>1
  <2> QED
    BY <1>1, <2>1, <2>2
<1>7. PartLen(part) \in Nat \ {0} /\ PartLen(1) \in Nat \ {0}
  BY <1>3, <1>4, <1>6
<1> QED
  BY <1>1, <1>2, <1>3, <1>4, <1>5, <1>6, <1>7

LEMMA CommandIs ==
  ASSUME TypeOK
  PROVE  /\ Len(Command) = Len(out) /\ Command[1] = Part(1)
         /\ Len(out) = 2 => Command[2] = Part(2)
         /\ Total(Command) \in Nat \ {0} /\ PartLen(1) \in Nat \ {0}
         /\ Len(out) = 1 => Total(Command) = PartLen(1)
         /\ Len(out) = 2 => /\ Total(Command) = PartLen(1) + PartLen(2)
                            /\ PartLen(2) \in Nat \ {0}
<1>1. /\ Len(out) = 1 \/ Len(out) = 2
      /\ \A k \in 1..Len(out) : PartLen(k) \in Nat \ {0}
  BY OutIs
<1>2. Len(out) \in Nat /\ 1 \in 1..Len(out) /\ (Len(out) = 2 => 2 \in 1..Len(out))
  BY <1>1
<1>3. Command = [k \in 1..Len(out) |-> Part(k)]
  BY DEF Command
<1>4. /\ Len(Command) = Len(out) /\ Command[1] = Part(1)
      /\ Len(out) = 2 => Command[2] = Part(2)
  BY <1>2, <1>3
<1>5. Part(1).len = PartLen(1) /\ Part(2).len = PartLen(2)
  BY DEF Part
<1>6. PartLen(1) \in Nat \ {0} /\ (Len(out) = 2 => PartLen(2) \in Nat \ {0})
  BY <1>1, <1>2
<1>7. CASE Len(out) = 1
  <2>1. Total(Command) = PartLen(1)
    BY <1>4, <1>5, <1>7 DEF Total
  <2> QED
    BY <1>4, <1>6, <1>7, <2>1
<1>8. CASE Len(out) = 2
  <2>1. Total(Command) = PartLen(1) + PartLen(2)
    BY <1>4, <1>5, <1>8 DEF Total
  <2> QED
    BY <1>4, <1>6, <1>8, <2>1
<1> QED
  BY <1>1, <1>7, <1>8

\* The containers of an answer.
LEMMA AnswerIs ==
  ASSUME NEW t \in Nat, NEW a \in Answer(t)
  PROVE  /\ Len(a) = 1 \/ Len(a) = 2
         /\ a[1] \in Container /\ a[1].tid = t /\ a[1].len \in Nat /\ a[1].len >= Hdr
         /\ Len(a) = 1 => a[1].type = "rsp" /\ Total(a) = a[1].len
         /\ Len(a) = 2 => /\ a[1].type = "data"
                          /\ a[2] \in Container /\ a[2].type = "rsp" /\ a[2].tid = t
                          /\ a[2].len \in Nat /\ a[2].len >= Hdr
                          /\ Total(a) = a[1].len + a[2].len
         /\ Total(a) \in Nat \ {0}
<1>1. ASSUME NEW c \in Rsp(t) \cup DataOf(t)
      PROVE  /\ c \in Container /\ c.tid = t /\ c.len \in Nat /\ c.len >= Hdr
             /\ c \in Rsp(t) => c.type = "rsp"
             /\ c \in DataOf(t) => c.type = "data"
  <2>1. PICK p \in Params \cup Payloads : c.len = Hdr + p /\ c.tid = t
    BY DEF Rsp, DataOf
  <2>2. p \in Nat
    BY UnitsAssumption
  <2>3. c.len \in Nat /\ c.len >= Hdr
    BY <2>1, <2>2, Sizes
  <2>4. c \in Rsp(t) => c.type = "rsp"
    BY DEF Rsp
  <2>5. c \in DataOf(t) => c.type = "data"
    BY DEF DataOf
  <2>6. c = [type |-> c.type, len |-> c.len, tid |-> c.tid]
    BY DEF Rsp, DataOf
  <2>7. c.type \in {"cmd", "data", "rsp"}
    BY <2>4, <2>5
  <2>8. c \in Container
    BY <2>1, <2>3, <2>6, <2>7 DEF Container
  <2> QED
    BY <2>1, <2>3, <2>4, <2>5, <2>8
<1>2. CASE \E c \in Rsp(t) : a = <<c>>
  <2>1. PICK c \in Rsp(t) : a = <<c>>
    BY <1>2
  <2>2. Len(a) = 1 /\ a[1] = c
    BY <2>1
  <2>3. c \in Container /\ c.tid = t /\ c.len \in Nat /\ c.len >= Hdr /\ c.type = "rsp"
    BY <1>1
  <2>4. Total(a) = c.len
    BY <2>2 DEF Total
  <2> QED
    BY <2>2, <2>3, <2>4, Sizes
<1>3. CASE \E d \in DataOf(t), c \in Rsp(t) : a = <<d, c>>
  <2>1. PICK d \in DataOf(t), c \in Rsp(t) : a = <<d, c>>
    BY <1>3
  <2>2. Len(a) = 2 /\ a[1] = d /\ a[2] = c
    BY <2>1
  <2>3. c \in Container /\ c.tid = t /\ c.len \in Nat /\ c.len >= Hdr /\ c.type = "rsp"
    BY <1>1
  <2>4. d \in Container /\ d.tid = t /\ d.len \in Nat /\ d.len >= Hdr /\ d.type = "data"
    BY <1>1
  <2>5. Total(a) = d.len + c.len
    BY <2>2 DEF Total
  <2> QED
    BY <2>2, <2>3, <2>4, <2>5, Sizes
<1> QED
  BY <1>2, <1>3 DEF Answer

LEMMA BegunIs ==
  ASSUME NEW t \in Nat, NEW a \in Begun(t)
  PROVE  /\ Len(a) = 1 /\ a[1] \in DataOf(t)
         /\ a[1] \in Container /\ a[1].tid = t /\ a[1].type = "data"
         /\ a[1].len \in Nat /\ a[1].len >= Hdr
         /\ Total(a) = a[1].len /\ Total(a) \in Nat \ {0}
<1>1. PICK d \in DataOf(t) : a = <<d>>
  BY DEF Begun
<1>2. Len(a) = 1 /\ a[1] = d
  BY <1>1
<1>3. PICK p \in Payloads : d.len = Hdr + p /\ d.tid = t /\ d.type = "data"
  BY DEF DataOf
<1>4. p \in Nat
  BY UnitsAssumption
<1>5. d.len \in Nat /\ d.len >= Hdr
  BY <1>3, <1>4, Sizes
<1>6. d = [type |-> d.type, len |-> d.len, tid |-> d.tid]
  BY DEF DataOf
<1>7. d \in Container
  BY <1>3, <1>5, <1>6 DEF Container
<1>8. Total(a) = d.len
  BY <1>2 DEF Total
<1> QED
  BY <1>2, <1>3, <1>5, <1>7, <1>8, Sizes

-----------------------------------------------------------------------------
(* What the two ends see of a transfer.                                    *)

\* A camera that has heard n units of the command.
LEMMA ArrivedIs ==
  ASSUME TypeOK, owed = 0, NEW n \in Nat, n <= Total(Command), Heard(n)
  PROVE  /\ Arrived = IF n = Total(Command) THEN n ELSE 0
         /\ n > 0 => Header(line, 0) = Part(1)
<1>1. /\ Len(Command) = Len(out) /\ Command[1] = Part(1)
      /\ Len(out) = 2 => Command[2] = Part(2)
      /\ Total(Command) \in Nat \ {0} /\ PartLen(1) \in Nat \ {0}
      /\ Len(out) = 1 => Total(Command) = PartLen(1)
      /\ Len(out) = 2 => /\ Total(Command) = PartLen(1) + PartLen(2)
                         /\ PartLen(2) \in Nat \ {0}
  BY CommandIs
<1>2. Len(out) = 1 \/ Len(out) = 2
  BY OutIs
<1>3. Len(line) = n /\ \A i \in 1..n : line[i] = UnitAt(Command, i)
  BY DEF Heard
<1>4. /\ Part(1).type = "cmd" /\ Part(1).len = PartLen(1)
      /\ Part(2).type = "data" /\ Part(2).len = PartLen(2)
  BY DEF Part
<1>5. CASE n = 0
  <2>1. Header(line, 0) = Junk
    BY <1>3, <1>5 DEF Header
  <2>2. Header(line, 0).type # "cmd"
    BY <2>1 DEF Junk
  <2>3. Arrived = 0
    BY <2>2 DEF Arrived
  <2> QED
    BY <1>1, <1>5, <2>3
<1>6. CASE n > 0
  <2>1. 1 \in 1..n /\ 1 <= Command[1].len
    BY <1>1, <1>4, <1>6
  <2>2. line[1] = [of |-> Part(1), at |-> 1]
    BY <1>1, <1>3, <2>1 DEF UnitAt
  <2>3. Header(line, 0) = Part(1)
    BY <1>3, <1>6, <2>2 DEF Header
  <2>4. CASE Len(out) = 1
    <3>1. Arrived = IF n >= PartLen(1) THEN PartLen(1) ELSE 0
      BY <1>3, <1>4, <2>3, <2>4 DEF Arrived
    <3> QED
      BY <1>1, <2>3, <2>4, <3>1
  <2>5. CASE Len(out) = 2
    <3>1. CASE n <= PartLen(1)
      <4>1. Header(line, PartLen(1)) = Junk
        BY <1>1, <1>3, <3>1 DEF Header
      <4>2. Header(line, PartLen(1)).type # "data"
        BY <4>1 DEF Junk
      <4>3. Arrived = 0
        BY <1>4, <2>3, <2>5, <4>2 DEF Arrived
      <4>4. n # Total(Command)
        BY <1>1, <2>5, <3>1
      <4> QED
        BY <2>3, <4>3, <4>4
    <3>2. CASE n > PartLen(1)
      <4> DEFINE k == PartLen(1) + 1
      <4>1. k \in 1..n /\ ~(k <= PartLen(1)) /\ k - PartLen(1) = 1
        BY <1>1, <3>2
      <4>2. UnitAt(Command, k) = [of |-> Part(2), at |-> 1]
        BY <1>1, <1>4, <2>5, <4>1 DEF UnitAt
      <4>3. line[k] = [of |-> Part(2), at |-> 1]
        BY <1>3, <4>1, <4>2
      <4>4. Header(line, PartLen(1)) = Part(2)
        BY <1>3, <3>2, <4>3 DEF Header
      <4>5. Arrived = IF n >= PartLen(1) + PartLen(2) THEN PartLen(1) + PartLen(2) ELSE 0
        BY <1>3, <1>4, <2>3, <2>5, <4>4 DEF Arrived
      <4> QED
        BY <1>1, <2>3, <2>5, <4>5
    <3> QED
      BY <1>1, <3>1, <3>2
  <2> QED
    BY <1>2, <2>4, <2>5
<1> QED
  BY <1>5, <1>6

LEMMA NothingArrived ==
  ASSUME line = <<>>
  PROVE  Arrived = 0
<1>1. Header(line, 0) = Junk
  BY DEF Header
<1>2. Header(line, 0).type # "cmd"
  BY <1>1 DEF Junk
<1> QED
  BY <1>2 DEF Arrived

\* The headers at the places of the containers of a transfer.
LEMMA HeadersAre ==
  ASSUME NEW a, NEW d \in Seq(Unit), a[1].len \in Nat \ {0},
         \A i \in 1..Len(d) : d[i] = UnitAt(a, i)
  PROVE  /\ d # <<>> => Header(d, 0) = a[1]
         /\ Len(d) > a[1].len => Header(d, a[1].len) = a[2]
<1>1. Len(d) \in Nat
  OBVIOUS
<1>2. ASSUME d # <<>> PROVE Header(d, 0) = a[1]
  <2>1. 1 \in 1..Len(d) /\ 1 <= a[1].len /\ 0 < Len(d)
    BY <1>1, <1>2
  <2>2. d[1] = [of |-> a[1], at |-> 1]
    BY <2>1 DEF UnitAt
  <2> QED
    BY <2>1, <2>2 DEF Header
<1>3. ASSUME Len(d) > a[1].len PROVE Header(d, a[1].len) = a[2]
  <2> DEFINE k == a[1].len + 1
  <2>1. k \in 1..Len(d) /\ ~(k <= a[1].len) /\ k - a[1].len = 1
    BY <1>1, <1>3
  <2>2. UnitAt(a, k) = [of |-> a[2], at |-> 1]
    BY <2>1 DEF UnitAt
  <2>3. d[k] = [of |-> a[2], at |-> 1]
    BY <2>1, <2>2
  <2> QED
    BY <1>3, <2>3 DEF Header
<1> QED
  BY <1>2, <1>3

\* The receive loop knows a whole answer, and takes nothing less for one.
LEMMA ExamineIs ==
  ASSUME NEW t \in Nat, NEW a \in Answer(t), NEW d \in Seq(Unit), NEW w \in Nat \ {0}, NEW x,
         \A i \in 1..Len(d) : d[i] = UnitAt(a, i), Len(d) <= Total(a)
  PROVE  Examine(d, w, x) = IF Len(d) = Total(a) THEN "ok" ELSE "more"
<1>1. /\ Len(a) = 1 \/ Len(a) = 2
      /\ a[1].len \in Nat /\ a[1].len >= Hdr
      /\ Len(a) = 1 => a[1].type = "rsp" /\ Total(a) = a[1].len
      /\ Len(a) = 2 => /\ a[1].type = "data" /\ a[2].type = "rsp"
                       /\ a[2].len \in Nat /\ a[2].len >= Hdr
                       /\ Total(a) = a[1].len + a[2].len
  BY AnswerIs
<1>2. Hdr \in Nat \ {0} /\ Len(d) \in Nat /\ a[1].len \in Nat \ {0}
  BY <1>1, Sizes
<1>3. CASE Len(d) < Hdr \/ Len(d) < a[1].len
  <2>1. Len(d) # Total(a)
    BY <1>1, <1>2, <1>3
  <2>2. d # <<>> => Header(d, 0) = a[1]
    BY <1>2, HeadersAre
  <2>3. Len(d) < Hdr \/ Len(d) < Header(d, 0).len
    BY <1>2, <1>3, <2>2
  <2> QED
    BY <2>1, <2>3 DEF Examine
<1>4. CASE ~(Len(d) < Hdr \/ Len(d) < a[1].len)
  <2>1. Header(d, 0) = a[1]
    <3>1. d # <<>>
      BY <1>2, <1>4
    <3> QED
      BY <1>2, <3>1, HeadersAre
  <2>2. CASE Len(a) = 1
    <3>1. Examine(d, w, x) = "ok"
      BY <1>1, <1>4, <2>1, <2>2 DEF Examine
    <3>2. Len(d) = Total(a)
      BY <1>1, <1>2, <1>4, <2>2
    <3> QED
      BY <3>1, <3>2
  <2>3. CASE Len(a) = 2
    <3>1. CASE Len(d) < a[1].len + Hdr
      <4>1. Examine(d, w, x) = "more"
        BY <1>1, <1>4, <2>1, <2>3, <3>1 DEF Examine
      <4>2. Len(d) # Total(a)
        BY <1>1, <1>2, <2>3, <3>1
      <4> QED
        BY <4>1, <4>2
    <3>2. CASE ~(Len(d) < a[1].len + Hdr)
      <4>1. Len(d) > a[1].len
        BY <1>1, <1>2, <3>2
      <4>2. Header(d, a[1].len) = a[2]
        BY <1>2, <4>1, HeadersAre
      <4>3. Examine(d, w, x) = IF Len(d) = a[1].len + a[2].len THEN "ok"
                               ELSE IF Len(d) > a[1].len + a[2].len THEN "ioerr" ELSE "more"
        BY <1>1, <1>4, <2>1, <2>3, <3>2, <4>2 DEF Examine
      <4> QED
        BY <1>1, <1>2, <2>3, <4>3
    <3> QED
      BY <3>1, <3>2
  <2> QED
    BY <1>1, <2>2, <2>3
<1> QED
  BY <1>3, <1>4

LEMMA ExamineBegun ==
  ASSUME NEW t \in Nat, NEW a \in Begun(t), NEW d \in Seq(Unit), NEW w \in Nat \ {0}, NEW x,
         \A i \in 1..Len(d) : d[i] = UnitAt(a, i), Len(d) <= Total(a)
  PROVE  Examine(d, w, x) = "more"
<1>1. /\ a[1].type = "data" /\ a[1].len \in Nat /\ a[1].len >= Hdr /\ Total(a) = a[1].len
  BY BegunIs
<1>2. Hdr \in Nat \ {0} /\ Len(d) \in Nat /\ a[1].len \in Nat \ {0}
  BY <1>1, Sizes
<1>3. d # <<>> => Header(d, 0) = a[1]
  BY <1>2, HeadersAre
<1>4. CASE Len(d) < Hdr
  BY <1>4 DEF Examine
<1>5. CASE ~(Len(d) < Hdr)
  <2>1. Header(d, 0) = a[1]
    BY <1>2, <1>3, <1>5
  <2>2. Len(d) < a[1].len + Hdr
    BY <1>1, <1>2
  <2> QED
    BY <1>1, <2>1, <2>2 DEF Examine
<1> QED
  BY <1>4, <1>5

\* A read moves n units from what is on its way to what is there.
Moved(d, q, n, e, r) == e = d \o SubSeq(q, 1, n) /\ r = SubSeq(q, n + 1, Len(q))

LEMMA ChunkMoves ==
  ASSUME NEW d \in Seq(Unit), NEW q \in Seq(Unit), NEW n \in 1..Len(q), NEW a,
         Makes(d, q, a), NEW e, NEW r, Moved(d, q, n, e, r)
  PROVE  /\ e \in Seq(Unit) /\ Len(e) = Len(d) + n
         /\ r \in Seq(Unit) /\ Len(r) = Len(q) - n
         /\ Makes(e, r, a)
<1> DEFINE h == SubSeq(q, 1, n)
<1>1. /\ Len(d) \in Nat /\ Len(q) \in Nat /\ n \in Nat /\ n <= Len(q)
      /\ \A i \in 1..Len(q) : q[i] \in Unit
  OBVIOUS
<1>2. h \in Seq(Unit) /\ Len(h) = n /\ \A i \in 1..n : h[i] = q[i]
  BY <1>1, SubSeqProperties
<1> DEFINE t == SubSeq(q, n + 1, Len(q))
<1>3. r \in Seq(Unit) /\ Len(r) = Len(q) - n /\ \A i \in 1..Len(q) - n : r[i] = q[n + i]
  <2>1. t \in Seq(Unit) /\ Len(t) = Len(q) - n /\ \A i \in 1..Len(q) - n : t[i] = q[n + i]
    BY <1>1, SubSeqProperties
  <2>2. r = t
    BY DEF Moved
  <2> HIDE DEF t
  <2> QED
    BY <2>1, <2>2
<1> HIDE DEF h, t
<1>4. /\ e \in Seq(Unit) /\ Len(e) = Len(d) + n
      /\ \A i \in 1..Len(d) + n : e[i] = IF i <= Len(d) THEN d[i] ELSE h[i - Len(d)]
  <2>1. /\ d \o h \in Seq(Unit) /\ Len(d \o h) = Len(d) + Len(h)
        /\ \A i \in 1..Len(d) + Len(h) :
             (d \o h)[i] = IF i <= Len(d) THEN d[i] ELSE h[i - Len(d)]
    BY <1>2, ConcatProperties
  <2>2. e = d \o h
    BY DEF h, Moved
  <2> QED
    BY <1>2, <2>1, <2>2
<1>5. Len(e) + Len(r) = Total(a)
  <2>1. Len(d) + Len(q) = Total(a)
    BY DEF Makes
  <2>2. \A x \in Nat, y \in Nat, z \in Nat : (x + z) + (y - z) = x + y
    OBVIOUS
  <2> QED
    BY <1>1, <1>3, <1>4, <2>1, <2>2
<1>6. ASSUME NEW i \in 1..Len(e) PROVE e[i] = UnitAt(a, i)
  <2>1. CASE i <= Len(d)
    BY <1>1, <1>4, <2>1 DEF Makes
  <2>2. CASE ~(i <= Len(d))
    <3> DEFINE j == i - Len(d)
    <3>1. j \in 1..n /\ j \in 1..Len(q) /\ Len(d) + j = i
      BY <1>1, <1>4, <2>2
    <3>2. e[i] = h[j]
      BY <1>4, <2>2
    <3> HIDE DEF j
    <3> QED
      BY <1>2, <3>1, <3>2 DEF Makes
  <2> QED
    BY <2>1, <2>2
<1>7. ASSUME NEW i \in 1..Len(r) PROVE r[i] = UnitAt(a, Len(e) + i)
  <2>1. i \in 1..Len(q) - n
    BY <1>3
  <2>2. n + i \in 1..Len(q) /\ Len(d) + (n + i) = Len(e) + i
    BY <1>1, <1>4, <2>1 DEF Makes
  <2> QED
    BY <1>3, <2>1, <2>2 DEF Makes
<1> QED
  BY <1>3, <1>4, <1>5, <1>6, <1>7 DEF Makes

\* The executions of the current command.
LEMMA RunsAre ==
  ASSUME TypeOK
  PROVE  IsFiniteSet(Runs) /\ Cardinality(Runs) \in Nat
<1>1. DOMAIN executed = 1..Len(executed) /\ Len(executed) \in Nat
  BY DEF TypeOK
<1>2. IsFiniteSet(1..Len(executed))
  BY <1>1, FS_Interval
<1>3. Runs \subseteq 1..Len(executed)
  BY <1>1 DEF Runs
<1> QED
  BY <1>2, <1>3, FS_Subset, FS_CardinalityType

LEMMA OneRunMore ==
  ASSUME TypeOK, tid > 0, Cardinality(Runs) = 0, tid' = tid, executed' = Append(executed, tid)
  PROVE  Cardinality(Runs') = 1
<1>1. /\ executed \in Seq(1..MaxCalls) /\ Len(executed) \in Nat
      /\ DOMAIN executed = 1..Len(executed)
  BY DEF TypeOK
<1>2. Runs = {}
  BY RunsAre, FS_EmptySet
<1>3. /\ DOMAIN executed' = 1..Len(executed) + 1
      /\ \A i \in 1..Len(executed) : executed'[i] = executed[i]
      /\ executed'[Len(executed) + 1] = tid
  <2>1. tid \in 1..MaxCalls
    BY Sizes DEF TypeOK
  <2> QED
    BY <1>1, <2>1, AppendProperties
<1>4. Runs' = {Len(executed) + 1}
  <2>1. \A i \in 1..Len(executed) : executed[i] # tid
    BY <1>1, <1>2 DEF Runs
  <2>2. \A i \in 1..Len(executed) + 1 : i \in 1..Len(executed) \/ i = Len(executed) + 1
    BY <1>1
  <2>3. Len(executed) + 1 \in 1..Len(executed) + 1
    BY <1>1
  <2> QED
    BY <1>3, <2>1, <2>2, <2>3 DEF Runs
<1> QED
  BY <1>4, FS_Singleton

-----------------------------------------------------------------------------
(* The steps.                                                              *)

\* The facts that the steps begin with.
LEMMA Typed ==
  ASSUME TypeOK
  PROVE  /\ data \in Seq(Unit) /\ pipe \in Seq(Unit) /\ line \in Seq(Unit)
         /\ Len(data) \in Nat /\ Len(pipe) \in Nat /\ Len(line) \in Nat
         /\ tid \in Nat /\ tid <= MaxCalls /\ owed \in Nat
         /\ wait \in Nat /\ attempts \in Nat /\ wanted \in Nat
         /\ executed \in Seq(1..MaxCalls) /\ Len(executed) \in Nat
         /\ \A i \in 1..Len(executed) : executed[i] \in Nat
<1>1. executed \in Seq(1..MaxCalls) /\ MaxCalls \in Nat
  BY Sizes DEF TypeOK
<1>2. \A i \in 1..Len(executed) : executed[i] \in 1..MaxCalls
  BY <1>1
<1>3. \A i \in 1..Len(executed) : executed[i] \in Nat
  BY <1>1, <1>2
<1> QED
  BY <1>1, <1>3, Sizes DEF TypeOK

LEMMA InitUInv == Init => UInv
<1> SUFFICES ASSUME Init PROVE UInv
  OBVIOUS
<1> USE DEF Init
<1>1. TypeOK
  <2>1. out \in Outs \cup {<<0>>} /\ part \in 1..Len(out)
    OBVIOUS
  <2>2. PartLen(part) = Hdr + 0
    BY DEF PartLen
  <2>3. sent \in 0..PartLen(part) /\ tid \in 0..MaxCalls /\ owed \in 0..MaxCalls
    BY <2>2, Sizes
  <2> QED
    BY <2>1, <2>3, Sizes DEF TypeOK
<1>2. Results /\ Own /\ Writing /\ Failed /\ Reading /\ Resting /\ Counting
  BY DEF Results, Own, Writing, Failed, Reading, Resting, Counting
<1> QED
  BY <1>1, <1>2 DEF UInv

LEMMA CallKeeps == ASSUME UInv, Call PROVE UInv'
<1>1. /\ pc = "idle" /\ tid < MaxCalls /\ tid' = tid + 1
      /\ out' \in Outs /\ part' = 1 /\ sent' = 0
      /\ try' = 1 /\ pc' = "write" /\ result' = "none"
      /\ UNCHANGED <<attempts, data, verdict, line, owed, executed, pipe>>
  BY DEF Call, camera
<1>2. wanted' \in Nat /\ wait' \in Nat
  BY WaitAssumption DEF Call
<1>3. line = <<>> /\ owed = 0 /\ pipe = <<>> /\ TypeOK /\ Own
  BY <1>1 DEF UInv, Resting
<1>4. tid \in Nat /\ tid' \in 0..MaxCalls /\ tid' > 0
  BY <1>1, <1>3, Typed, Sizes
<1>5. /\ Len(out') = 1 \/ Len(out') = 2
      /\ out' \in Seq(Nat)
  BY <1>1, UnitsAssumption
<1>6. 1 \in 1..Len(out') /\ out'[1] \in Nat
  BY <1>5
<1>7. PartLen(1)' \in Nat \ {0}
  BY <1>6, Sizes DEF PartLen
<1>8. part' \in 1..Len(out') /\ PartLen(part)' = PartLen(1)'
  BY <1>1, <1>6 DEF PartLen
<1>9. TypeOK'
  <2>1. sent' \in 0..PartLen(part)'
    BY <1>1, <1>7, <1>8
  <2> QED
    BY <1>1, <1>2, <1>3, <1>4, <1>8, <2>1 DEF TypeOK
<1>10. Cardinality(Runs') = 0
  <2>1. \A i \in 1..Len(executed) : executed[i] # tid'
    <3>1. \A i \in 1..Len(executed) : executed[i] \in Nat /\ executed[i] <= tid
      BY <1>3, Typed DEF Own
    <3> QED
      BY <1>1, <1>4, <3>1
  <2>2. DOMAIN executed = 1..Len(executed)
    BY <1>3, Typed
  <2>3. Runs' = {}
    BY <1>1, <2>1, <2>2 DEF Runs
  <2> QED
    BY <2>3, FS_EmptySet
<1>11. Still' /\ Own'
  <2>1. Own'
    <3>1. \A i \in 1..Len(executed) : executed[i] \in Nat /\ executed[i] <= tid
      BY <1>3, Typed DEF Own
    <3> QED
      BY <1>1, <1>4, <3>1 DEF Own
  <2> QED
    BY <1>1, <1>3, <1>10, <2>1 DEF Still
<1>12. Writing'
  <2>1. SentSoFar' = 0
    BY <1>1 DEF SentSoFar
  <2>2. Len(line') = 0
    BY <1>1, <1>3
  <2>3. Heard(SentSoFar)'
    BY <2>1, <2>2 DEF Heard
  <2>4. sent' < PartLen(part)'
    BY <1>1, <1>7, <1>8
  <2> QED
    BY <1>11, <2>3, <2>4 DEF Writing
<1>13. Results' /\ Failed' /\ Reading' /\ Resting' /\ Counting'
  BY <1>1, <1>4 DEF Results, Failed, Reading, Resting, Counting
<1> QED
  BY <1>9, <1>11, <1>12, <1>13 DEF UInv

LEMMA CommandKept ==
  ASSUME out' = out, tid' = tid
  PROVE  /\ Command' = Command /\ Total(Command)' = Total(Command)
         /\ \A k \in 1..2 : PartLen(k)' = PartLen(k)
         /\ \A i \in Nat : UnitAt(Command, i)' = UnitAt(Command, i)
<1>1. \A k \in Nat : PartLen(k)' = PartLen(k)
  BY DEF PartLen
<1>2. Command' = Command
  BY DEF Command, Part, PartLen
<1> QED
  BY <1>1, <1>2 DEF Total, UnitAt

LEMMA UnitsAre ==
  ASSUME NEW p \in Container
  PROVE  /\ Units(p) \in Seq(Unit) /\ Len(Units(p)) = p.len
         /\ \A i \in 1..p.len : Units(p)[i] = [of |-> p, at |-> i]
<1>1. p.len \in Nat
  BY DEF Container
<1>2. \A i \in 1..p.len : [of |-> p, at |-> i] \in Unit
  BY <1>1 DEF Unit
<1>3. Units(p) = [i \in 1..p.len |-> [of |-> p, at |-> i]]
  BY DEF Units
<1> QED
  BY <1>1, <1>2, <1>3

\* A write adds the next units of the command.
LEMMA WriteHeard ==
  ASSUME TypeOK, Heard(SentSoFar), NEW n \in Nat \ {0}, n <= PartLen(part) - sent,
         line' = line \o SubSeq(Units(Outgoing), sent + 1, sent + n),
         out' = out, tid' = tid
  PROVE  line' \in Seq(Unit) /\ Len(line') = SentSoFar + n
         /\ \A i \in 1..Len(line') : line'[i] = UnitAt(Command, i)
<1>1. /\ part \in Nat /\ sent \in Nat /\ part \in 1..Len(out)
      /\ Len(out) = 1 \/ Len(out) = 2
      /\ part = 1 \/ (part = 2 /\ Len(out) = 2)
      /\ PartLen(part) \in Nat \ {0} /\ PartLen(1) \in Nat \ {0}
  BY OutIs
<1>2. /\ Len(Command) = Len(out) /\ Command[1] = Part(1)
      /\ Len(out) = 2 => Command[2] = Part(2)
  BY CommandIs
<1>3. line \in Seq(Unit) /\ Len(line) \in Nat /\ tid \in Nat
  BY Typed
<1>4. Len(line) = SentSoFar /\ \A i \in 1..Len(line) : line[i] = UnitAt(Command, i)
  BY DEF Heard
<1> DEFINE o == Outgoing
           all == Units(o)
           u == SubSeq(all, sent + 1, sent + n)
<1>5. o = Part(part) /\ o.len = PartLen(part)
  BY DEF Outgoing, Part
<1>6. o \in Container
  BY <1>1, <1>3 DEF Outgoing, Container
<1> HIDE DEF o
<1>7. /\ all \in Seq(Unit) /\ Len(all) = PartLen(part)
      /\ \A i \in 1..PartLen(part) : all[i] = [of |-> o, at |-> i]
  BY <1>5, <1>6, UnitsAre
<1> HIDE DEF all
<1>8. sent + n <= PartLen(part) /\ sent + 1 \in 1..PartLen(part) + 1 /\ sent + n \in Nat
  BY <1>1
<1>9. u \in Seq(Unit) /\ Len(u) = n /\ \A i \in 1..n : u[i] = all[sent + i]
  <2>1. ASSUME NEW lo \in Nat, NEW hi \in Nat, lo <= hi, \A i \in lo..hi : all[i] \in Unit
        PROVE  /\ SubSeq(all, lo, hi) \in Seq(Unit) /\ Len(SubSeq(all, lo, hi)) = hi - lo + 1
               /\ \A i \in 1..hi - lo + 1 : SubSeq(all, lo, hi)[i] = all[lo + i - 1]
    BY <2>1, SubSeqProperties
  <2>2. /\ sent + 1 \in Nat /\ sent + n \in Nat /\ sent + 1 <= sent + n
        /\ (sent + n) - (sent + 1) + 1 = n /\ \A i \in Nat : sent + 1 + i - 1 = sent + i
    BY <1>1
  <2>3. \A i \in sent + 1..sent + n : all[i] \in Unit
    BY <1>1, <1>7, <1>8
  <2>4. /\ u \in Seq(Unit) /\ Len(u) = (sent + n) - (sent + 1) + 1
        /\ \A i \in 1..(sent + n) - (sent + 1) + 1 : u[i] = all[sent + 1 + i - 1]
    BY <2>1, <2>2, <2>3
  <2> HIDE DEF u
  <2>5. u \in Seq(Unit) /\ Len(u) = n
    BY <2>2, <2>4
  <2>6. ASSUME NEW i \in 1..n PROVE u[i] = all[sent + i]
    <3>1. i \in 1..(sent + n) - (sent + 1) + 1 /\ sent + 1 + i - 1 = sent + i
      BY <1>1, <2>2
    <3> QED
      BY <2>4, <3>1
  <2> QED
    BY <2>5, <2>6
<1> HIDE DEF u
<1>10. /\ line' \in Seq(Unit) /\ Len(line') = Len(line) + n
       /\ \A i \in 1..Len(line) + n :
            line'[i] = IF i <= Len(line) THEN line[i] ELSE u[i - Len(line)]
  <2>1. /\ line \o u \in Seq(Unit) /\ Len(line \o u) = Len(line) + Len(u)
        /\ \A i \in 1..Len(line) + Len(u) :
             (line \o u)[i] = IF i <= Len(line) THEN line[i] ELSE u[i - Len(line)]
    BY <1>3, <1>9, ConcatProperties
  <2>2. line' = line \o u
    BY DEF u, all, o
  <2> QED
    BY <1>9, <2>1, <2>2
<1>11. ASSUME NEW i \in 1..n PROVE u[i] = UnitAt(Command, Len(line) + i)
  <2>1. sent + i \in 1..PartLen(part) /\ sent + i \in Nat \ {0}
    BY <1>1, <1>8
  <2>2. u[i] = [of |-> Part(part), at |-> sent + i]
    BY <1>5, <1>7, <1>9, <2>1
  <2>3. CASE part = 1
    <3>1. Len(line) = sent
      BY <1>4, <2>3 DEF SentSoFar
    <3>2. Len(line) + i <= Command[1].len
      BY <1>2, <2>1, <2>3, <3>1 DEF Part
    <3> QED
      BY <1>2, <2>2, <2>3, <3>1, <3>2 DEF UnitAt
  <2>4. CASE part = 2
    <3>1. Len(line) = PartLen(1) + sent
      BY <1>4, <2>4 DEF SentSoFar
    <3>2. Command[1].len = PartLen(1)
      BY <1>2 DEF Part
    <3>3. ~(Len(line) + i <= PartLen(1)) /\ (Len(line) + i) - PartLen(1) = sent + i
      BY <1>1, <3>1
    <3>4. Command[2] = Part(2)
      BY <1>1, <1>2, <2>4
    <3> QED
      BY <2>2, <2>4, <3>2, <3>3, <3>4 DEF UnitAt
  <2> QED
    BY <1>1, <2>3, <2>4
<1>12. ASSUME NEW i \in 1..Len(line') PROVE line'[i] = UnitAt(Command, i)
  <2>1. CASE i <= Len(line)
    BY <1>3, <1>4, <1>10, <2>1
  <2>2. CASE ~(i <= Len(line))
    <3> DEFINE j == i - Len(line)
    <3>1. j \in 1..n /\ Len(line) + j = i
      BY <1>3, <1>10, <2>2
    <3>2. line'[i] = u[j]
      BY <1>10, <2>2
    <3> HIDE DEF j
    <3> QED
      BY <1>11, <3>1, <3>2
  <2> QED
    BY <2>1, <2>2
<1> QED
  BY <1>4, <1>10, <1>12

LEMMA WriteKeeps == ASSUME Prompt, UInv, Write PROVE UInv'
<1>1. /\ pc = "write"
      /\ UNCHANGED <<tid, try, out, wanted, result, owed, executed, pipe>>
  BY DEF Write
<1>2. /\ TypeOK /\ Still /\ Heard(SentSoFar) /\ sent < PartLen(part) /\ Own
      /\ tid > 0 /\ result = "none"
  BY <1>1 DEF UInv, Writing, Results
<1>3. /\ part \in Nat /\ sent \in Nat /\ part \in 1..Len(out)
      /\ Len(out) = 1 \/ Len(out) = 2
      /\ part = 1 \/ (part = 2 /\ Len(out) = 2)
      /\ PartLen(part) \in Nat \ {0}
      /\ \A k \in 1..Len(out) : PartLen(k) \in Nat \ {0}
  BY <1>2, OutIs
<1>4. /\ Len(out) = 1 => Total(Command) = PartLen(1)
      /\ Len(out) = 2 => Total(Command) = PartLen(1) + PartLen(2)
      /\ PartLen(1) \in Nat /\ (Len(out) = 2 => PartLen(2) \in Nat)
  BY <1>2, CommandIs
<1> DEFINE left == PartLen(part) - sent
           max == IF left < MaxPacket THEN left ELSE MaxPacket
<1>5. PICK n \in 1..max :
        /\ line' = line \o SubSeq(Units(Outgoing), sent + 1, sent + n)
        /\ IF SentNow(n, max) < PartLen(part)
             THEN /\ sent' = SentNow(n, max)
                  /\ UNCHANGED <<pc, part, wait, attempts, data, verdict>>
           ELSE IF part < Len(out)
             THEN /\ part' = part + 1 /\ sent' = 0
                  /\ UNCHANGED <<pc, wait, attempts, data, verdict>>
           ELSE BeginRead
  BY DEF Write
<1>6. n \in Nat \ {0} /\ n <= PartLen(part) - sent /\ PartLen(part) \in Nat
  <2>1. PartLen(part) \in Nat /\ MaxPacket \in Nat
    BY <1>3, Sizes
  <2> QED
    BY <1>3, <2>1
<1> HIDE DEF left, max
<1>7. /\ line' \in Seq(Unit) /\ Len(line') = SentSoFar + n
      /\ \A i \in 1..Len(line') : line'[i] = UnitAt(Command, i)
  BY <1>1, <1>2, <1>5, <1>6, WriteHeard
<1>8. /\ Command' = Command /\ Total(Command)' = Total(Command)
      /\ \A k \in 1..2 : PartLen(k)' = PartLen(k)
  BY <1>1, CommandKept
<1>9. Still' /\ Own'
  BY <1>1, <1>2 DEF Still, Own, Runs
<1>10. SentNow(n, max) = sent + n
  BY DEF SentNow
<1>11. ASSUME NEW m, m = SentSoFar + n PROVE Heard(m)'
  <2>1. \A i \in Nat : UnitAt(Command, i)' = UnitAt(Command, i)
    BY <1>1, CommandKept
  <2>2. Len(line') \in Nat
    BY <1>7
  <2> QED
    BY <1>7, <1>11, <2>1, <2>2 DEF Heard
<1>12. CASE sent + n < PartLen(part)
  <2>1. sent' = sent + n /\ UNCHANGED <<pc, part, wait, attempts, data, verdict>>
    BY <1>5, <1>10, <1>12
  <2>2. PartLen(part)' = PartLen(part)
    BY <1>1, <2>1 DEF PartLen
  <2>3. SentSoFar' = SentSoFar + n
    <3>1. PartLen(1)' = PartLen(1)
      BY <1>8
    <3> QED
      BY <1>3, <1>4, <1>6, <2>1, <3>1 DEF SentSoFar
  <2>4. TypeOK'
    <3>1. sent' \in 0..PartLen(part)'
      BY <1>3, <1>6, <1>12, <2>1, <2>2
    <3> QED
      BY <1>1, <1>2, <1>7, <2>1, <3>1 DEF TypeOK
  <2>5. Heard(SentSoFar)'
    BY <1>11, <2>3 DEF Heard
  <2>6. Writing'
    BY <1>9, <1>12, <2>1, <2>2, <2>5 DEF Writing
  <2>7. Results' /\ Failed' /\ Reading' /\ Resting' /\ Counting'
    BY <1>1, <1>2, <2>1 DEF Results, Failed, Reading, Resting, Counting
  <2> QED
    BY <1>9, <2>4, <2>6, <2>7 DEF UInv
<1>13. CASE ~(sent + n < PartLen(part))
  <2>0. sent + n = PartLen(part)
    BY <1>3, <1>6, <1>13
  <2>1. CASE part < Len(out)
    <3>1. part' = part + 1 /\ sent' = 0 /\ UNCHANGED <<pc, wait, attempts, data, verdict>>
      BY <1>5, <1>10, <1>13, <2>1
    <3>2. part = 1 /\ Len(out) = 2 /\ part' = 2
      <4>1. part # 2
        <5>1. \A x \in 1..2 : 2 < x => FALSE
          OBVIOUS
        <5>2. Len(out) \in 1..2
          BY <1>3
        <5> QED
          BY <2>1, <5>1, <5>2
      <4>2. part = 1
        BY <1>3, <4>1
      <4>3. Len(out) # 1
        BY <2>1, <4>2
      <4> QED
        BY <1>3, <3>1, <4>2, <4>3
    <3>3. PartLen(part)' = PartLen(2) /\ PartLen(2) \in Nat \ {0}
      BY <1>1, <1>3, <3>2 DEF PartLen
    <3>4. SentSoFar' = SentSoFar + n
      <4>1. PartLen(1)' = PartLen(1)
        BY <1>8
      <4>2. SentSoFar = sent
        BY <3>2 DEF SentSoFar
      <4>3. SentSoFar' = PartLen(1) + 0
        BY <3>1, <3>2, <4>1 DEF SentSoFar
      <4> QED
        BY <1>4, <2>0, <3>2, <4>2, <4>3
    <3>5. TypeOK'
      <4>1. sent' \in 0..PartLen(part)' /\ part' \in 1..Len(out')
        BY <1>1, <3>1, <3>2, <3>3
      <4> QED
        BY <1>1, <1>2, <1>7, <3>1, <4>1 DEF TypeOK
    <3>6. Heard(SentSoFar)'
      BY <1>11, <3>4 DEF Heard
    <3>7. Writing'
      BY <1>9, <3>1, <3>3, <3>6 DEF Writing
    <3>8. Results' /\ Failed' /\ Reading' /\ Resting' /\ Counting'
      BY <1>1, <1>2, <3>1 DEF Results, Failed, Reading, Resting, Counting
    <3> QED
      BY <1>9, <3>5, <3>7, <3>8 DEF UInv
  <2>2. CASE ~(part < Len(out))
    <3>1. /\ pc' = "read" /\ part' = 1 /\ sent' = 0 /\ wait' = WaitDefault
          /\ attempts' = 0 /\ data' = <<>> /\ verdict' = "more"
      BY <1>5, <1>10, <1>13, <2>2 DEF BeginRead, WaitFirst
    <3>2. SentSoFar + n = Total(Command)
      <4>1. CASE part = 1
        <5>1. Len(out) # 2
          BY <2>2, <4>1
        <5> QED
          BY <1>3, <1>4, <1>6, <2>0, <4>1, <5>1 DEF SentSoFar
      <4>2. CASE part = 2
        BY <1>3, <1>4, <1>6, <2>0, <2>2, <4>2 DEF SentSoFar
      <4> QED
        BY <1>3, <4>1, <4>2
    <3>3. Heard(Total(Command))'
      BY <1>8, <1>11, <3>2 DEF Heard
    <3>4. TypeOK'
      <4>1. PartLen(1)' \in Nat /\ PartLen(part)' = PartLen(1)' /\ 1 \in 1..Len(out')
        BY <1>1, <1>3, <1>4, <1>8, <3>1 DEF PartLen
      <4>2. sent' \in 0..PartLen(part)' /\ part' \in 1..Len(out') /\ wait' \in Nat
        BY <3>1, <4>1, Sizes
      <4> QED
        BY <1>1, <1>2, <1>7, <3>1, <4>2 DEF TypeOK
    <3>5. Reading'
      BY <1>9, <3>1, <3>3 DEF Reading
    <3>6. Counting'
      BY <3>1, Sizes DEF Counting
    <3>7. Results' /\ Failed' /\ Writing' /\ Resting'
      BY <1>1, <1>2, <3>1 DEF Results, Failed, Writing, Resting
    <3> QED
      BY <1>9, <3>4, <3>5, <3>6, <3>7 DEF UInv
  <2> QED
    BY <2>1, <2>2
<1> QED
  BY <1>12, <1>13

\* While a part of the command is unfinished the camera has not heard all of it.
LEMMA NotAllSent ==
  ASSUME TypeOK, sent < PartLen(part)
  PROVE  SentSoFar \in Nat /\ SentSoFar < Total(Command)
<1>1. /\ part = 1 \/ (part = 2 /\ Len(out) = 2)
      /\ sent \in Nat
  BY OutIs
<1>2. /\ PartLen(1) \in Nat \ {0} /\ (Len(out) = 1 \/ Len(out) = 2)
      /\ Len(out) = 1 => Total(Command) = PartLen(1)
      /\ Len(out) = 2 => /\ Total(Command) = PartLen(1) + PartLen(2)
                         /\ PartLen(2) \in Nat \ {0}
  BY CommandIs, OutIs
<1>3. CASE part = 1
  <2>1. SentSoFar = sent /\ sent < PartLen(1)
    BY <1>3 DEF SentSoFar
  <2>2. PartLen(1) <= Total(Command) /\ Total(Command) \in Nat
    BY <1>1, <1>2
  <2>3. \A x \in Nat, y \in Nat, z \in Nat : x < y /\ y <= z => x < z
    OBVIOUS
  <2> QED
    BY <1>1, <1>2, <2>1, <2>2, <2>3
<1>4. CASE part = 2 /\ Len(out) = 2
  <2>1. SentSoFar = PartLen(1) + sent /\ sent < PartLen(2)
    BY <1>4 DEF SentSoFar
  <2>2. \A x \in Nat, y \in Nat, z \in Nat : x < y => z + x \in Nat /\ z + x < z + y
    OBVIOUS
  <2> QED
    BY <1>1, <1>2, <1>4, <2>1, <2>2
<1> QED
  BY <1>1, <1>3, <1>4

LEMMA HeardKept ==
  ASSUME NEW n, Heard(n), line' = line, out' = out, tid' = tid, TypeOK
  PROVE  Heard(n)'
<1>1. \A i \in Nat : UnitAt(Command, i)' = UnitAt(Command, i)
  BY CommandKept
<1>2. Len(line) \in Nat
  BY Typed
<1> QED
  BY <1>1, <1>2 DEF Heard

LEMMA WriteFailsKeeps == ASSUME UInv, WriteFails PROVE UInv'
<1>1. /\ pc = "write" /\ pc' = "dead" /\ result' = "failed"
      /\ UNCHANGED <<tid, try, out, part, sent, wanted, wait, attempts, data, verdict,
                     line, owed, executed, pipe>>
  BY DEF WriteFails, sending, camera
<1>2. /\ TypeOK /\ Still /\ Heard(SentSoFar) /\ sent < PartLen(part) /\ Own /\ tid > 0
  BY <1>1 DEF UInv, Writing, Results
<1>3. SentSoFar \in Nat /\ SentSoFar < Total(Command)
  BY <1>2, NotAllSent
<1>4. PartLen(part)' = PartLen(part)
  BY <1>1 DEF PartLen
<1>5. TypeOK'
  BY <1>1, <1>2, <1>4 DEF TypeOK
<1>6. Still' /\ Own'
  BY <1>1, <1>2 DEF Still, Own, Runs
<1>7. Failed'
  <2>1. Total(Command)' = Total(Command)
    BY <1>1, CommandKept
  <2>2. PICK n \in Nat : n = SentSoFar
    BY <1>3
  <2>3. Heard(n)'
    BY <1>1, <1>2, <2>2, HeardKept
  <2>4. n < Total(Command)'
    BY <1>3, <2>1, <2>2
  <2> QED
    BY <1>6, <2>3, <2>4 DEF Failed
<1>8. Results' /\ Writing' /\ Reading' /\ Resting' /\ Counting'
  BY <1>1, <1>2 DEF Results, Writing, Reading, Resting, Counting
<1> QED
  BY <1>5, <1>6, <1>7, <1>8 DEF UInv

\* The units that make up a transfer, when nothing of it moves.
LEMMA FlowKept ==
  ASSUME NEW a, Flow(a), data' = data, pipe' = pipe
  PROVE  Flow(a)'
  BY DEF Flow

LEMMA ReadChunkKeeps == ASSUME Prompt, UInv, ReadChunk PROVE UInv'
<1>1. /\ pc = "read" /\ pipe # <<>>
      /\ UNCHANGED <<tid, out, part, sent, wanted, wait, attempts, line, owed, executed>>
      /\ EndTry(Examine(data', wait, attempts))
  BY DEF ReadChunk, sending, camera
<1>2. PICK n \in 1..MaxPacket : /\ n <= Len(pipe)
                               /\ data' = data \o SubSeq(pipe, 1, n)
                               /\ pipe' = SubSeq(pipe, n + 1, Len(pipe))
  BY DEF ReadChunk
<1>3. /\ TypeOK /\ Own /\ tid > 0 /\ part = 1 /\ sent = 0 /\ result = "none"
      /\ wait + attempts = WaitDefault /\ (attempts > Patience => pipe = <<>>)
  BY <1>1 DEF UInv, Results, Reading, Counting
<1>4. /\ data \in Seq(Unit) /\ pipe \in Seq(Unit) /\ Len(data) \in Nat /\ Len(pipe) \in Nat
      /\ tid \in Nat /\ wait \in Nat /\ attempts \in Nat
  BY <1>3, Typed
<1>5. wait \in Nat \ {0}
  <2>1. ~(attempts > Patience)
    BY <1>1, <1>3
  <2> QED
    BY <1>3, <1>4, <2>1, Sizes DEF Prompt
<1>6. n \in 1..Len(pipe)
  BY <1>2, <1>4
<1>7. /\ line = <<>> /\ Cardinality(Runs) = 1
      /\ \/ owed = tid /\ \E a \in Begun(tid) : Flow(a)
         \/ owed = 0 /\ \E a \in Answer(tid) : Flow(a) /\ Len(data) < Total(a)
  BY <1>1 DEF UInv, Reading, Still
<1>8. Cardinality(Runs)' = 1 /\ Own' /\ PartLen(part)' = PartLen(part)
  BY <1>1, <1>3, <1>7 DEF Own, Runs, PartLen
<1>9. ASSUME NEW a, Flow(a)
      PROVE  /\ data' \in Seq(Unit) /\ pipe' \in Seq(Unit)
             /\ Len(data') \in Nat /\ Len(pipe') \in Nat
             /\ Len(data') + Len(pipe') = Total(a)
             /\ \A i \in 1..Len(data') : data'[i] = UnitAt(a, i)
             /\ Flow(a)'
  <2>1. Makes(data, pipe, a)
    BY <1>9 DEF Flow
  <2>2. data' \in Seq(Unit) /\ pipe' \in Seq(Unit) /\ Makes(data', pipe', a)
    <3>1. Moved(data, pipe, n, data', pipe')
      BY <1>2 DEF Moved
    <3> QED
      BY <1>4, <1>6, <2>1, <3>1, ChunkMoves
  <2>3. Flow(a)'
    BY <2>2 DEF Flow, Makes, Total, UnitAt
  <2> QED
    BY <2>2, <2>3 DEF Makes
<1>10. CASE owed = tid /\ \E a \in Begun(tid) : Flow(a)
  <2>1. PICK a \in Begun(tid) : Flow(a)
    BY <1>10
  <2>2. Examine(data', wait, attempts) = "more"
    <3>1. Total(a) \in Nat
      BY <1>4, BegunIs
    <3>2. Len(data') <= Total(a)
      BY <1>9, <2>1, <3>1
    <3> QED
      BY <1>4, <1>5, <1>9, <2>1, <3>2, ExamineBegun
  <2>3. UNCHANGED <<pc, try, result>> /\ verdict' = "more"
    BY <1>1, <2>2 DEF EndTry
  <2>4. Reading'
    BY <1>1, <1>3, <1>7, <1>8, <1>9, <1>10, <2>1 DEF Reading
  <2>5. TypeOK'
    BY <1>1, <1>3, <1>8, <1>9, <2>1, <2>3 DEF TypeOK
  <2>6. Counting'
    BY <1>1, <1>3, <2>3 DEF Counting
  <2>7. Results' /\ Writing' /\ Failed' /\ Resting'
    BY <1>1, <1>3, <2>3 DEF Results, Writing, Failed, Resting
  <2> QED
    BY <1>8, <2>4, <2>5, <2>6, <2>7 DEF UInv
<1>11. CASE owed = 0 /\ \E a \in Answer(tid) : Flow(a) /\ Len(data) < Total(a)
  <2>1. PICK a \in Answer(tid) : Flow(a) /\ Len(data) < Total(a)
    BY <1>11
  <2>2. Total(a) \in Nat
    BY <1>4, AnswerIs
  <2>3. Len(data') <= Total(a)
    BY <1>9, <2>1, <2>2
  <2>4. Examine(data', wait, attempts) = IF Len(data') = Total(a) THEN "ok" ELSE "more"
    BY <1>4, <1>5, <1>9, <2>1, <2>3, ExamineIs
  <2>5. CASE Len(data') = Total(a)
    <3>1. pc' = "idle" /\ result' = "ok" /\ try' = try /\ verdict' = "ok"
      BY <1>1, <2>4, <2>5 DEF EndTry
    <3>2. pipe' = <<>>
      BY <1>9, <2>1, <2>2, <2>5
    <3>3. TypeOK'
      BY <1>1, <1>3, <1>8, <1>9, <2>1, <3>1 DEF TypeOK
    <3>4. Resting'
      BY <1>1, <1>7, <1>8, <1>9, <1>11, <2>1, <3>1, <3>2 DEF Resting
    <3>5. Results' /\ Writing' /\ Failed' /\ Reading' /\ Counting'
      BY <1>1, <1>3, <3>1 DEF Results, Writing, Failed, Reading, Counting
    <3> QED
      BY <1>8, <3>3, <3>4, <3>5 DEF UInv
  <2>6. CASE Len(data') # Total(a)
    <3>1. UNCHANGED <<pc, try, result>> /\ verdict' = "more"
      BY <1>1, <2>4, <2>6 DEF EndTry
    <3>2. TypeOK'
      BY <1>1, <1>3, <1>8, <1>9, <2>1, <3>1 DEF TypeOK
    <3>3. Len(data') < Total(a)
      BY <1>9, <2>1, <2>2, <2>3, <2>6
    <3>4. Total(a)' = Total(a)
      BY DEF Total
    <3>5. Reading'
      BY <1>1, <1>3, <1>7, <1>8, <1>9, <1>11, <2>1, <3>3, <3>4 DEF Reading
    <3>6. Counting'
      BY <1>1, <1>3, <3>1 DEF Counting
    <3>7. Results' /\ Writing' /\ Failed' /\ Resting'
      BY <1>1, <1>3, <3>1 DEF Results, Writing, Failed, Resting
    <3> QED
      BY <1>8, <3>2, <3>5, <3>6, <3>7 DEF UInv
  <2> QED
    BY <2>5, <2>6
<1> QED
  BY <1>7, <1>10, <1>11

\* An empty read that is not the last.
LEMMA Waited ==
  ASSUME UInv, pc = "read", Quiet, wait > 0, wait' = wait - 1, attempts' = attempts + 1,
         UNCHANGED <<pc, try, result, verdict, tid, out, part, sent, wanted, data, line, owed,
                     executed, pipe>>
  PROVE  UInv'
<1>1. TypeOK /\ wait \in Nat /\ attempts \in Nat /\ wait + attempts = WaitDefault
  BY Typed DEF UInv, Counting
<1>2. wait' \in Nat /\ attempts' \in Nat /\ wait' + attempts' = WaitDefault
  BY <1>1
<1>3. pipe = <<>> /\ (attempts < Patience \/ (line = <<>> /\ owed = 0))
  BY DEF Quiet
<1>4. Counting'
  <2>1. attempts' > Patience => ~(attempts < Patience)
    BY <1>1, Sizes
  <2> QED
    BY <1>2, <1>3, <2>1 DEF Counting
<1>5. PartLen(part)' = PartLen(part)
  BY DEF PartLen
<1>6. TypeOK'
  BY <1>1, <1>2, <1>5 DEF TypeOK
<1>7. Still => Still'
  BY DEF Still, Runs
<1>8. Reading'
  <2>1. /\ part = 1 /\ sent = 0
        /\ \/ Still /\ data = <<>> /\ Heard(Total(Command))
           \/ Still /\ data = <<>> /\ line = <<>>
           \/ /\ line = <<>> /\ Cardinality(Runs) = 1
              /\ \/ owed = tid /\ \E a \in Begun(tid) : Flow(a)
                 \/ owed = 0 /\ \E a \in Answer(tid) : Flow(a) /\ Len(data) < Total(a)
    BY DEF UInv, Reading
  <2>2. CASE Still /\ data = <<>> /\ Heard(Total(Command))
    <3>1. Heard(Total(Command))'
      BY <1>1, <2>2, CommandKept, HeardKept DEF Heard
    <3> QED
      BY <1>7, <2>1, <2>2, <3>1 DEF Reading
  <2>3. CASE Still /\ data = <<>> /\ line = <<>>
    BY <1>7, <2>1, <2>3 DEF Reading
  <2>4. CASE /\ line = <<>> /\ Cardinality(Runs) = 1
             /\ \/ owed = tid /\ \E a \in Begun(tid) : Flow(a)
                \/ owed = 0 /\ \E a \in Answer(tid) : Flow(a) /\ Len(data) < Total(a)
    <3>1. Cardinality(Runs)' = 1
      BY <2>4 DEF Runs
    <3>2. \A a : Flow(a) => Flow(a)'
      BY DEF Flow, Makes, Total, UnitAt
    <3>3. \A a : Total(a)' = Total(a)
      BY DEF Total
    <3> QED
      BY <2>1, <2>4, <3>1, <3>2, <3>3 DEF Reading
  <2> QED
    BY <2>1, <2>2, <2>3, <2>4
<1>9. Own' /\ Results' /\ Writing' /\ Failed' /\ Resting'
  BY DEF UInv, Own, Results, Writing, Failed, Resting
<1> QED
  BY <1>4, <1>6, <1>8, <1>9 DEF UInv

\* When nothing is left to wait for, the camera has dropped the command.
LEMMA WasDropped ==
  ASSUME Prompt, UInv, pc = "read", Quiet, ~(wait > 0)
  PROVE  /\ wait = 0 /\ attempts > 0 /\ Still /\ line = <<>> /\ data = <<>>
         /\ part = 1 /\ sent = 0 /\ tid > 0 /\ TypeOK /\ Own
<1>1. TypeOK /\ wait \in Nat /\ attempts \in Nat /\ wait + attempts = WaitDefault
  BY Typed DEF UInv, Counting
<1>2. wait = 0 /\ attempts > Patience /\ attempts > 0
  BY <1>1, Sizes DEF Prompt
<1>3. line = <<>> /\ owed = 0 /\ pipe = <<>> /\ tid > 0 /\ Own
  BY <1>2 DEF UInv, Counting, Results
<1>4. /\ part = 1 /\ sent = 0
      /\ \/ Still /\ data = <<>> /\ Heard(Total(Command))
         \/ Still /\ data = <<>> /\ line = <<>>
         \/ /\ line = <<>> /\ Cardinality(Runs) = 1
            /\ \/ owed = tid /\ \E a \in Begun(tid) : Flow(a)
               \/ owed = 0 /\ \E a \in Answer(tid) : Flow(a) /\ Len(data) < Total(a)
  BY DEF UInv, Reading
<1>5. ASSUME NEW a \in Answer(tid), Flow(a), Len(data) < Total(a) PROVE FALSE
  <2>1. Len(data) + Len(pipe) = Total(a)
    BY <1>5 DEF Flow, Makes
  <2>2. Len(pipe) = 0 /\ Len(data) \in Nat
    BY <1>1, <1>3, Typed
  <2>3. Len(data) + 0 = Len(data)
    BY <2>2
  <2>4. Total(a) = Len(data)
    BY <2>1, <2>2, <2>3
  <2> QED
    BY <1>5, <2>2, <2>4
<1>6. Still /\ data = <<>>
  BY <1>3, <1>4, <1>5
<1> QED
  BY <1>1, <1>2, <1>3, <1>4, <1>6

\* The call fails after the camera has dropped its command.
LEMMA Abandoned ==
  ASSUME UInv, Still, line = <<>>, data = <<>>, tid > 0, pc' = "dead", result' = "failed",
         verdict' \in {"more", "ok", "ignored", "ioerr"},
         UNCHANGED <<tid, try, out, part, sent, wanted, wait, attempts, data, line, owed,
                     executed, pipe>>
  PROVE  UInv'
<1>1. TypeOK /\ Own
  BY DEF UInv
<1>2. PartLen(part)' = PartLen(part)
  BY DEF PartLen
<1>3. TypeOK'
  BY <1>1, <1>2 DEF TypeOK
<1>4. Still' /\ Own'
  BY <1>1 DEF Still, Own, Runs
<1>5. Failed'
  <2>1. Heard(0)'
    BY DEF Heard
  <2>2. 0 < Total(Command)'
    <3>1. Total(Command)' = Total(Command)
      BY CommandKept
    <3> QED
      BY <1>1, <3>1, CommandIs
  <2> QED
    BY <1>4, <2>1, <2>2 DEF Failed
<1>6. Results' /\ Writing' /\ Reading' /\ Resting' /\ Counting'
  BY DEF Results, Writing, Reading, Resting, Counting
<1> QED
  BY <1>3, <1>4, <1>5, <1>6 DEF UInv

LEMMA ReadTimeoutKeeps == ASSUME Prompt, UInv, ReadTimeout PROVE UInv'
<1>1. /\ pc = "read" /\ Quiet
      /\ UNCHANGED <<tid, out, part, sent, wanted, data, line, owed, executed, pipe>>
  BY DEF ReadTimeout, sending, camera
<1>2. CASE wait > 0
  BY <1>1, <1>2, Waited DEF ReadTimeout
<1>3. CASE ~(wait > 0)
  <2>1. EndTry("ioerr") /\ UNCHANGED <<wait, attempts>>
    BY <1>3 DEF ReadTimeout
  <2>2. verdict' = "ioerr" /\ pc' = "dead" /\ result' = "failed" /\ try' = try
    BY <2>1 DEF EndTry
  <2>3. Still /\ line = <<>> /\ data = <<>> /\ tid > 0
    BY <1>1, <1>3, WasDropped
  <2> QED
    BY <1>1, <2>1, <2>2, <2>3, Abandoned
<1> QED
  BY <1>2, <1>3

LEMMA ReadZeroKeeps == ASSUME Prompt, UInv, ReadZero PROVE UInv'
<1>1. /\ pc = "read" /\ Quiet
      /\ UNCHANGED <<tid, out, part, sent, wanted, data, line, owed, executed, pipe>>
  BY DEF ReadZero, sending, camera
<1>2. CASE wait > 0
  BY <1>1, <1>2, Waited DEF ReadZero
<1>3. CASE ~(wait > 0)
  <2>1. EndTry(Examine(data, wait, attempts)) /\ UNCHANGED <<wait, attempts>>
    BY <1>3 DEF ReadZero
  <2>2. /\ wait = 0 /\ attempts > 0 /\ Still /\ line = <<>> /\ data = <<>>
        /\ part = 1 /\ sent = 0 /\ tid > 0 /\ TypeOK /\ Own
    BY <1>1, <1>3, WasDropped
  <2>3. Examine(data, wait, attempts) = "ignored"
    BY <2>2 DEF Examine
  <2>4. EndTry("ignored")
    BY <2>1, <2>3
  <2>5. CASE try = 1
    <3>1. verdict' = "ignored" /\ pc' = "write" /\ try' = 2 /\ result' = result
      BY <2>4, <2>5 DEF EndTry
    <3>2. PartLen(part)' = PartLen(part)
      BY <1>1 DEF PartLen
    <3>3. TypeOK'
      BY <1>1, <2>1, <2>2, <3>1, <3>2 DEF TypeOK
    <3>4. Still' /\ Own'
      BY <1>1, <2>2 DEF Still, Own, Runs
    <3>5. Writing'
      <4>1. SentSoFar' = 0
        BY <1>1, <2>2 DEF SentSoFar
      <4>2. Len(line') = 0
        BY <1>1, <2>2
      <4>3. Heard(SentSoFar)'
        BY <4>1, <4>2 DEF Heard
      <4>4. sent' < PartLen(part)'
        <5>1. PartLen(1) \in Nat \ {0}
          BY <2>2, OutIs
        <5> QED
          BY <1>1, <2>2, <3>2, <5>1
      <4> QED
        BY <3>4, <4>3, <4>4 DEF Writing
    <3>6. Results' /\ Failed' /\ Reading' /\ Resting' /\ Counting'
      <4>1. result = "none"
        BY <1>1 DEF UInv, Results
      <4> QED
        BY <1>1, <2>2, <3>1, <4>1 DEF Results, Failed, Reading, Resting, Counting
    <3> QED
      BY <3>3, <3>4, <3>5, <3>6 DEF UInv
  <2>6. CASE try # 1
    <3>1. verdict' = "ignored" /\ pc' = "dead" /\ result' = "failed" /\ try' = try
      BY <2>4, <2>6 DEF EndTry
    <3> QED
      BY <1>1, <2>1, <2>2, <3>1, Abandoned
  <2> QED
    BY <2>5, <2>6
<1> QED
  BY <1>2, <1>3

\* A camera takes the command of the call that waits for the answer.
LEMMA Taken ==
  ASSUME UInv, TakeCommand
  PROVE  /\ pc = "read" /\ Still /\ data = <<>> /\ part = 1 /\ sent = 0
         /\ Header(line, 0).tid = tid /\ line' = <<>> /\ ~(attempts > Patience)
         /\ tid > 0 /\ TypeOK /\ Own /\ result = "none" /\ wait + attempts = WaitDefault
<1>1. TypeOK /\ Own /\ Arrived > 0 /\ line' = SubSeq(line, Arrived + 1, Len(line))
  BY DEF UInv, TakeCommand
<1>2. line # <<>>
  BY <1>1, NothingArrived
<1>3. pc # "idle"
  BY <1>2 DEF UInv, Resting
<1>4. ASSUME Still, NEW n \in Nat, n < Total(Command), Heard(n) PROVE FALSE
  <2>1. owed = 0 /\ Total(Command) \in Nat
    BY <1>1, <1>4, CommandIs DEF Still
  <2>2. n <= Total(Command) /\ n # Total(Command)
    BY <1>4, <2>1
  <2>3. Arrived = 0
    BY <1>1, <1>4, <2>1, <2>2, ArrivedIs
  <2> QED
    BY <1>1, <2>3
<1>5. pc # "dead"
  BY <1>4 DEF UInv, Failed
<1>6. ASSUME pc = "write" PROVE FALSE
  <2>1. Still /\ Heard(SentSoFar) /\ sent < PartLen(part)
    BY <1>6 DEF UInv, Writing
  <2>2. SentSoFar \in Nat /\ SentSoFar < Total(Command)
    BY <1>1, <2>1, NotAllSent
  <2> QED
    BY <1>4, <2>1, <2>2
<1>7. pc = "read"
  BY <1>1, <1>3, <1>5, <1>6 DEF TypeOK
<1>8. /\ part = 1 /\ sent = 0 /\ Still /\ data = <<>> /\ Heard(Total(Command))
  BY <1>2, <1>7 DEF UInv, Reading
<1>9. Arrived = Total(Command) /\ Header(line, 0) = Part(1) /\ Len(line) = Total(Command)
      /\ Total(Command) \in Nat \ {0}
  <2>1. Total(Command) \in Nat \ {0} /\ owed = 0
    BY <1>1, <1>8, CommandIs DEF Still
  <2>2. Total(Command) <= Total(Command) /\ Total(Command) > 0
    BY <2>1
  <2>3. Arrived = Total(Command) /\ Header(line, 0) = Part(1)
    BY <1>1, <1>8, <2>1, <2>2, ArrivedIs
  <2> QED
    BY <1>8, <2>1, <2>3 DEF Heard
<1>10. line' = <<>>
  <2>1. \A k \in Nat : SubSeq(line, k + 1, k) = <<>>
    BY SubSeqEmpty
  <2> QED
    BY <1>1, <1>9, <2>1
<1>11. Header(line, 0).tid = tid
  BY <1>9 DEF Part
<1>12. /\ ~(attempts > Patience) /\ tid > 0 /\ result = "none" /\ wait + attempts = WaitDefault
  BY <1>2, <1>7 DEF UInv, Counting, Results
<1> QED
  BY <1>1, <1>7, <1>8, <1>10, <1>11, <1>12

\* What changes for the call when the camera does something about its command.
LEMMA CameraKeeps ==
  ASSUME TypeOK, pc = "read", part = 1, sent = 0, tid > 0, result = "none",
         wait + attempts = WaitDefault, ~(attempts > Patience), UNCHANGED host,
         line' \in Seq(Unit), pipe' \in Seq(Unit), owed' \in 0..MaxCalls,
         executed' \in Seq(1..MaxCalls), Own', Reading'
  PROVE  UInv'
<1> USE DEF host
<1>1. PartLen(part)' = PartLen(part)
  BY DEF PartLen
<1>2. TypeOK'
  BY <1>1 DEF TypeOK
<1>3. Results' /\ Writing' /\ Failed' /\ Resting' /\ Counting'
  BY DEF Results, Writing, Failed, Resting, Counting
<1> QED
  BY <1>2, <1>3 DEF UInv

LEMMA OwnGrows ==
  ASSUME TypeOK, Own, tid > 0, tid' = tid, executed' = Append(executed, tid)
  PROVE  executed' \in Seq(1..MaxCalls) /\ Own'
<1>1. tid \in 1..MaxCalls /\ tid \in Nat /\ executed \in Seq(1..MaxCalls) /\ Len(executed) \in Nat
  BY Typed, Sizes DEF TypeOK
<1>2. /\ executed' \in Seq(1..MaxCalls) /\ Len(executed') = Len(executed) + 1
      /\ \A i \in 1..Len(executed) : executed'[i] = executed[i]
      /\ executed'[Len(executed) + 1] = tid
  BY <1>1, AppendProperties
<1>3. Own'
  <2> SUFFICES ASSUME NEW i \in 1..Len(executed') PROVE executed'[i] <= tid'
    BY DEF Own
  <2>1. i \in 1..Len(executed) \/ i = Len(executed) + 1
    BY <1>1, <1>2
  <2> QED
    BY <1>1, <1>2, <2>1 DEF Own
<1> QED
  BY <1>2, <1>3

LEMMA DropKeeps == ASSUME UInv, Drop PROVE UInv'
<1>1. TakeCommand /\ UNCHANGED <<host, owed, executed, pipe>>
  BY DEF Drop
<1>2. /\ pc = "read" /\ Still /\ data = <<>> /\ part = 1 /\ sent = 0
      /\ line' = <<>> /\ ~(attempts > Patience)
      /\ tid > 0 /\ TypeOK /\ Own /\ result = "none" /\ wait + attempts = WaitDefault
  BY <1>1, Taken
<1>3. Still' /\ Own'
  BY <1>1, <1>2 DEF Still, Own, Runs, host
<1>4. Reading'
  BY <1>1, <1>2, <1>3 DEF Reading, host
<1>5. /\ line' \in Seq(Unit) /\ pipe' \in Seq(Unit) /\ owed' \in 0..MaxCalls
      /\ executed' \in Seq(1..MaxCalls)
  BY <1>1, <1>2 DEF TypeOK
<1> QED
  BY <1>1, <1>2, <1>3, <1>4, <1>5, CameraKeeps

\* A transfer of one container that has just been sent.
LEMMA FirstSent ==
  ASSUME NEW c \in Container, data' = <<>>, pipe = <<>>, pipe' = pipe \o Units(c)
  PROVE  /\ pipe' \in Seq(Unit) /\ Flow(<<c>>)'
         /\ Total(<<c>>) = c.len /\ Len(data') = 0
<1>1. /\ Units(c) \in Seq(Unit) /\ Len(Units(c)) = c.len /\ c.len \in Nat
      /\ \A i \in 1..c.len : Units(c)[i] = [of |-> c, at |-> i]
  BY UnitsAre DEF Container
<1>2. pipe' = Units(c)
  BY <1>1
<1>3. Total(<<c>>) = c.len /\ \A i \in 1..c.len : UnitAt(<<c>>, i) = [of |-> c, at |-> i]
  BY <1>1 DEF Total, UnitAt
<1>4. Len(data') = 0
  OBVIOUS
<1>5. Makes(data', pipe', <<c>>)
  <2>1. Len(data') + Len(pipe') = c.len
    BY <1>1, <1>2, <1>4
  <2>2. \A i \in 1..Len(pipe') : pipe'[i] = UnitAt(<<c>>, Len(data') + i)
    <3>1. \A i \in 1..c.len : Len(data') + i = i
      BY <1>1, <1>4
    <3> QED
      BY <1>1, <1>2, <1>3, <3>1
  <2> QED
    BY <1>3, <1>4, <2>1, <2>2 DEF Makes
<1>6. Flow(<<c>>)'
  BY <1>5 DEF Flow, Makes, Total, UnitAt
<1> QED
  BY <1>1, <1>2, <1>3, <1>4, <1>6

LEMMA RespondKeeps == ASSUME UInv, Respond PROVE UInv'
<1>1. /\ TakeCommand /\ UNCHANGED <<host, owed>>
      /\ executed' = Append(executed, Header(line, 0).tid)
  BY DEF Respond
<1>2. PICK c \in Rsp(Header(line, 0).tid) : pipe' = pipe \o Units(c)
  BY DEF Respond
<1>3. /\ pc = "read" /\ Still /\ data = <<>> /\ part = 1 /\ sent = 0
      /\ Header(line, 0).tid = tid
      /\ line' = <<>> /\ ~(attempts > Patience)
      /\ tid > 0 /\ TypeOK /\ Own /\ result = "none" /\ wait + attempts = WaitDefault
  BY <1>1, Taken
<1>4. c \in Rsp(tid) /\ executed' = Append(executed, tid) /\ tid' = tid /\ tid \in Nat
  BY <1>1, <1>2, <1>3, Typed DEF host
<1>5. <<c>> \in Answer(tid)
  BY <1>4 DEF Answer
<1>6. c \in Container /\ Total(<<c>>) \in Nat \ {0}
  <2>1. <<c>>[1] \in Container /\ Total(<<c>>) \in Nat \ {0}
    BY <1>4, <1>5, AnswerIs
  <2> QED
    BY <2>1
<1>7. /\ pipe' \in Seq(Unit) /\ Flow(<<c>>)' /\ Len(data') = 0
  BY <1>1, <1>2, <1>3, <1>6, FirstSent DEF Still, host
<1>8. executed' \in Seq(1..MaxCalls) /\ Own'
  BY <1>3, <1>4, OwnGrows
<1>9. Cardinality(Runs)' = 1
  BY <1>3, <1>4, OneRunMore DEF Still
<1>10. Reading'
  <2>1. Len(data') < Total(<<c>>)'
    <3>1. Total(<<c>>)' = Total(<<c>>)
      BY DEF Total
    <3> QED
      BY <1>6, <1>7, <3>1
  <2>2. owed' = 0 /\ part' = 1 /\ sent' = 0 /\ <<c>> \in Answer(tid')
    BY <1>1, <1>3, <1>4, <1>5 DEF Still, host
  <2> QED
    BY <1>3, <1>7, <1>9, <2>1, <2>2 DEF Reading
<1>11. line' \in Seq(Unit) /\ owed' \in 0..MaxCalls
  BY <1>1, <1>3 DEF TypeOK
<1> QED
  BY <1>1, <1>3, <1>7, <1>8, <1>10, <1>11, CameraKeeps

LEMMA SendDataKeeps == ASSUME UInv, SendData PROVE UInv'
<1>1. /\ TakeCommand /\ UNCHANGED host
      /\ executed' = Append(executed, Header(line, 0).tid)
      /\ owed' = Header(line, 0).tid
  BY DEF SendData
<1>2. PICK p \in Payloads :
        pipe' = pipe \o Units([type |-> "data", len |-> Hdr + p, tid |-> Header(line, 0).tid])
  BY DEF SendData
<1>3. /\ pc = "read" /\ Still /\ data = <<>> /\ part = 1 /\ sent = 0
      /\ Header(line, 0).tid = tid
      /\ line' = <<>> /\ ~(attempts > Patience)
      /\ tid > 0 /\ TypeOK /\ Own /\ result = "none" /\ wait + attempts = WaitDefault
  BY <1>1, Taken
<1>13. PICK d : d = [type |-> "data", len |-> Hdr + p, tid |-> tid]
  OBVIOUS
<1>4. d \in DataOf(tid) /\ executed' = Append(executed, tid) /\ tid' = tid /\ tid \in Nat
  BY <1>1, <1>3, <1>13, Typed DEF host, DataOf
<1>5. pipe' = pipe \o Units(d)
  BY <1>2, <1>3, <1>13
<1>6. <<d>> \in Begun(tid)
  BY <1>4 DEF Begun
<1>7. d \in Container
  <2>1. <<d>>[1] \in Container
    BY <1>4, <1>6, BegunIs
  <2> QED
    BY <2>1
<1>8. /\ pipe' \in Seq(Unit) /\ Flow(<<d>>)'
  BY <1>1, <1>3, <1>5, <1>7, FirstSent DEF Still, host
<1>9. executed' \in Seq(1..MaxCalls) /\ Own'
  BY <1>3, <1>4, OwnGrows
<1>10. Cardinality(Runs)' = 1
  BY <1>3, <1>4, OneRunMore DEF Still
<1>11. Reading'
  <2>1. owed' = tid' /\ part' = 1 /\ sent' = 0 /\ <<d>> \in Begun(tid')
    BY <1>1, <1>3, <1>4, <1>6 DEF host
  <2> QED
    BY <1>3, <1>8, <1>10, <2>1 DEF Reading
<1>12. line' \in Seq(Unit) /\ owed' \in 0..MaxCalls
  BY <1>1, <1>3, <1>4 DEF TypeOK
<1> QED
  BY <1>1, <1>3, <1>8, <1>9, <1>11, <1>12, CameraKeeps

LEMMA FinishDataKeeps == ASSUME UInv, FinishData PROVE UInv'
<1>1. owed # 0 /\ owed' = 0 /\ UNCHANGED <<host, line, executed>>
  BY DEF FinishData
<1>2. PICK c \in Rsp(owed) : pipe' = pipe \o Units(c)
  BY DEF FinishData
<1>3. TypeOK /\ Own
  BY DEF UInv
<1>4. pc = "read"
  BY <1>1, <1>3 DEF UInv, TypeOK, Resting, Writing, Failed, Still
<1>5. /\ part = 1 /\ sent = 0 /\ line = <<>> /\ Cardinality(Runs) = 1 /\ owed = tid
      /\ \E a \in Begun(tid) : Flow(a)
  BY <1>1, <1>4 DEF UInv, Reading, Still
<1>6. /\ ~(attempts > Patience) /\ tid > 0 /\ result = "none" /\ wait + attempts = WaitDefault
  BY <1>1, <1>4 DEF UInv, Counting, Results
<1>7. PICK a \in Begun(tid) : Flow(a)
  BY <1>5
<1>8. /\ data \in Seq(Unit) /\ pipe \in Seq(Unit) /\ Len(data) \in Nat /\ Len(pipe) \in Nat
      /\ tid \in Nat
  BY <1>3, Typed
<1>9. PICK d : d = a[1]
  OBVIOUS
<1>10. /\ d \in DataOf(tid) /\ d.len \in Nat /\ Total(a) = d.len
  BY <1>8, <1>9, BegunIs
<1>11. c \in Rsp(tid)
  BY <1>2, <1>5
<1>12. PICK b : b = <<d, c>>
  OBVIOUS
<1>13. b \in Answer(tid) /\ Len(b) = 2 /\ b[1] = d /\ b[2] = c
  BY <1>10, <1>11, <1>12 DEF Answer
<1>14. c \in Container /\ c.len \in Nat /\ c.len >= Hdr /\ Total(b) = d.len + c.len
  BY <1>8, <1>13, AnswerIs
<1>15. /\ Len(data) + Len(pipe) = d.len
       /\ \A i \in 1..Len(data) : data[i] = UnitAt(a, i)
       /\ \A i \in 1..Len(pipe) : pipe[i] = UnitAt(a, Len(data) + i)
  BY <1>7, <1>10 DEF Flow, Makes
<1>16. \A i \in Nat : i <= d.len => UnitAt(a, i) = UnitAt(b, i)
  BY <1>9, <1>13 DEF UnitAt
<1>17. PICK u : u = Units(c)
  OBVIOUS
<1>18. u \in Seq(Unit) /\ Len(u) = c.len /\ \A i \in 1..c.len : u[i] = [of |-> c, at |-> i]
  BY <1>14, <1>17, UnitsAre
<1>19. /\ pipe' \in Seq(Unit) /\ Len(pipe') = Len(pipe) + c.len
       /\ \A i \in 1..Len(pipe) + c.len :
            pipe'[i] = IF i <= Len(pipe) THEN pipe[i] ELSE u[i - Len(pipe)]
  <2>1. /\ pipe \o u \in Seq(Unit) /\ Len(pipe \o u) = Len(pipe) + Len(u)
        /\ \A i \in 1..Len(pipe) + Len(u) :
             (pipe \o u)[i] = IF i <= Len(pipe) THEN pipe[i] ELSE u[i - Len(pipe)]
    BY <1>8, <1>18, ConcatProperties
  <2>2. pipe' = pipe \o u
    BY <1>2, <1>17
  <2> QED
    BY <1>18, <2>1, <2>2
<1>20. data' = data /\ tid' = tid /\ line' = line /\ executed' = executed
       /\ part' = part /\ sent' = sent /\ pc' = pc
  BY <1>1 DEF host
<1>21. Makes(data', pipe', b)
  <2>1. Len(data') + Len(pipe') = Total(b)
    BY <1>8, <1>14, <1>15, <1>19, <1>20
  <2>2. ASSUME NEW i \in 1..Len(data') PROVE data'[i] = UnitAt(b, i)
    <3>1. i \in Nat /\ i <= d.len /\ i \in 1..Len(data)
      BY <1>8, <1>15, <1>20
    <3> QED
      BY <1>15, <1>16, <1>20, <3>1
  <2>3. ASSUME NEW i \in 1..Len(pipe') PROVE pipe'[i] = UnitAt(b, Len(data') + i)
    <3>1. CASE i <= Len(pipe)
      <4>1. i \in 1..Len(pipe) /\ Len(data) + i \in Nat /\ Len(data) + i <= d.len
        BY <1>8, <1>15, <3>1
      <4>2. pipe'[i] = pipe[i]
        BY <1>19, <3>1
      <4> QED
        BY <1>15, <1>16, <1>20, <4>1, <4>2
    <3>2. CASE ~(i <= Len(pipe))
      <4>1. PICK j : j = i - Len(pipe)
        OBVIOUS
      <4>2. j \in 1..c.len /\ ~(Len(data) + i <= d.len) /\ (Len(data) + i) - d.len = j
        BY <1>8, <1>10, <1>14, <1>15, <1>19, <3>2, <4>1
      <4>3. UnitAt(b, Len(data) + i) = [of |-> c, at |-> j]
        BY <1>13, <4>2 DEF UnitAt
      <4>4. pipe'[i] = u[j]
        BY <1>19, <3>2, <4>1
      <4> QED
        BY <1>18, <1>20, <4>2, <4>3, <4>4
    <3> QED
      BY <3>1, <3>2
  <2> QED
    BY <2>1, <2>2, <2>3 DEF Makes
<1>22. Flow(b)'
  BY <1>21 DEF Flow, Makes, Total, UnitAt
<1>23. Len(data') < Total(b)
  BY <1>8, <1>10, <1>14, <1>15, <1>20, Sizes
<1>24. Reading'
  <2>1. Cardinality(Runs)' = 1
    BY <1>5, <1>20 DEF Runs
  <2>2. Total(b)' = Total(b) /\ b \in Answer(tid')
    BY <1>13, <1>20 DEF Total
  <2> QED
    BY <1>1, <1>5, <1>20, <1>22, <1>23, <2>1, <2>2 DEF Reading
<1>25. /\ line' \in Seq(Unit) /\ owed' \in 0..MaxCalls
       /\ executed' \in Seq(1..MaxCalls) /\ Own'
  BY <1>1, <1>3, <1>20, Sizes DEF TypeOK, Own
<1> QED
  BY <1>1, <1>3, <1>4, <1>5, <1>6, <1>19, <1>24, <1>25, CameraKeeps

LEMMA StandsStill == ASSUME UInv, UNCHANGED vars PROVE UInv'
<1> USE DEF vars
<1>1. TypeOK' /\ Own' /\ Results' /\ Counting'
  <2>1. PartLen(part)' = PartLen(part)
    BY DEF PartLen
  <2> QED
    BY <2>1 DEF UInv, TypeOK, Own, Results, Counting
<1>2. Still' <=> Still
  BY DEF Still, Runs
<1>3. \A a : (Flow(a) <=> Flow(a)') /\ Total(a)' = Total(a)
  BY DEF Flow, Makes, Total, UnitAt
<1>4. Command' = Command /\ Total(Command)' = Total(Command) /\ SentSoFar' = SentSoFar
      /\ PartLen(part)' = PartLen(part)
  <2>1. PartLen(part)' = PartLen(part) /\ PartLen(1)' = PartLen(1)
    BY DEF PartLen
  <2> QED
    BY <2>1, CommandKept DEF SentSoFar
<1>5. \A n : Heard(n) => Heard(n)'
  BY HeardKept DEF UInv
<1>6. Writing'
  <2>1. Heard(SentSoFar) => Heard(SentSoFar)'
    BY <1>4, <1>5 DEF Heard
  <2> QED
    BY <1>2, <1>4, <2>1 DEF UInv, Writing
<1>7. Failed'
  BY <1>2, <1>4, <1>5 DEF UInv, Failed
<1>8. Resting'
  <2>1. Cardinality(Runs)' = Cardinality(Runs)
    BY DEF Runs
  <2> QED
    BY <1>3, <2>1 DEF UInv, Resting
<1>9. Reading'
  <2>1. Cardinality(Runs)' = Cardinality(Runs)
    BY DEF Runs
  <2>2. Heard(Total(Command)) => Heard(Total(Command))'
    BY <1>4, <1>5 DEF Heard
  <2> QED
    BY <1>2, <1>3, <2>1, <2>2 DEF UInv, Reading
<1> QED
  BY <1>1, <1>6, <1>7, <1>8, <1>9 DEF UInv

LEMMA NextUInv == ASSUME Prompt PROVE UInv /\ [Next]_vars => UInv'
<1> SUFFICES ASSUME UInv, [Next]_vars PROVE UInv'
  OBVIOUS
<1>1. CASE Call
  BY <1>1, CallKeeps
<1>2. CASE Write
  BY <1>2, WriteKeeps
<1>3. CASE WriteFails
  BY <1>3, WriteFailsKeeps
<1>4. CASE ReadChunk
  BY <1>4, ReadChunkKeeps
<1>5. CASE ReadTimeout
  BY <1>5, ReadTimeoutKeeps
<1>6. CASE ReadZero
  BY <1>6, ReadZeroKeeps
<1>7. CASE Respond
  BY <1>7, RespondKeeps
<1>8. CASE SendData
  BY <1>8, SendDataKeeps
<1>9. CASE FinishData
  BY <1>9, FinishDataKeeps
<1>10. CASE Drop
  BY <1>10, DropKeeps
<1>11. CASE Done \/ UNCHANGED vars
  BY <1>11, StandsStill DEF Done
<1> QED
  BY <1>1, <1>2, <1>3, <1>4, <1>5, <1>6, <1>7, <1>8, <1>9, <1>10, <1>11
     DEF Next, Host, Camera

LEMMA UInvAlways == ASSUME Prompt PROVE Spec => []UInv
  BY InitUInv, NextUInv, PTL DEF Spec

-----------------------------------------------------------------------------
(* What the invariant says.                                                *)

\* The buffer of a call that succeeded holds all of one answer to it.
LEMMA AnswerHeld ==
  ASSUME UInv, result = "ok", tid > 0
  PROVE  \E a \in Answer(tid) : /\ Len(data) = Total(a)
                                /\ \A i \in 1..Len(data) : data[i] = UnitAt(a, i)
<1>1. pc = "idle" /\ TypeOK
  BY DEF UInv, Results
<1>2. PICK a \in Answer(tid) : Flow(a) /\ pipe = <<>>
  BY <1>1 DEF UInv, Resting
<1>3. Len(data) \in Nat /\ Len(pipe) = 0
  BY <1>1, <1>2, Typed
<1> QED
  BY <1>2, <1>3 DEF Flow, Makes

\* The last unit of an answer is the last one of its response.
LEMMA LastOf ==
  ASSUME NEW t \in Nat, NEW a \in Answer(t), NEW d \in Seq(Unit), Len(d) = Total(a),
         \A i \in 1..Len(d) : d[i] = UnitAt(a, i)
  PROVE  /\ Last(d).of = a[Len(a)] /\ Last(d).at = a[Len(a)].len
         /\ a[Len(a)].type = "rsp"
<1>1. /\ Len(a) = 1 \/ Len(a) = 2
      /\ a[1].len \in Nat \ {0} /\ Total(a) \in Nat \ {0}
      /\ Len(a) = 1 => a[1].type = "rsp" /\ Total(a) = a[1].len
      /\ Len(a) = 2 => /\ a[2].type = "rsp" /\ a[2].len \in Nat \ {0}
                       /\ Total(a) = a[1].len + a[2].len
  BY AnswerIs, Sizes
<1>2. Last(d) = UnitAt(a, Total(a))
  <2>1. Len(d) \in 1..Len(d)
    BY <1>1
  <2> QED
    BY <2>1 DEF Last
<1>3. CASE Len(a) = 1
  BY <1>1, <1>2, <1>3 DEF UnitAt
<1>4. CASE Len(a) = 2
  <2>1. ~(Total(a) <= a[1].len) /\ Total(a) - a[1].len = a[2].len
    BY <1>1, <1>4
  <2>2. Last(d) = [of |-> a[2], at |-> a[2].len]
    BY <1>2, <2>1 DEF UnitAt
  <2> QED
    BY <1>1, <1>4, <2>2
<1> QED
  BY <1>1, <1>3, <1>4

\* Every unit of an answer to call t is of call t.
LEMMA UnitsOf ==
  ASSUME NEW t \in Nat, NEW a \in Answer(t), NEW i \in 1..Total(a)
  PROVE  UnitAt(a, i).of.tid = t
<1>1. /\ Len(a) = 1 \/ Len(a) = 2
      /\ a[1].tid = t /\ a[1].len \in Nat
      /\ Len(a) = 1 => Total(a) = a[1].len
      /\ Len(a) = 2 => a[2].tid = t
      /\ Total(a) \in Nat
  BY AnswerIs
<1>2. CASE i <= a[1].len
  BY <1>1, <1>2 DEF UnitAt
<1>3. CASE ~(i <= a[1].len)
  <2>1. Len(a) = 2
    BY <1>1, <1>3
  <2> QED
    BY <1>1, <1>3, <2>1 DEF UnitAt
<1> QED
  BY <1>2, <1>3

LEMMA UInvWhole == UInv => WholeAnswer
<1> SUFFICES ASSUME UInv, result = "ok", tid > 0
             PROVE  /\ \A i \in 1..Len(data) : data[i].of.tid = tid
                    /\ Last(data).of.type = "rsp" /\ Last(data).at = Last(data).of.len
  BY DEF WholeAnswer
<1>1. tid \in Nat /\ data \in Seq(Unit)
  BY Typed DEF UInv
<1>2. PICK a \in Answer(tid) : /\ Len(data) = Total(a)
                               /\ \A i \in 1..Len(data) : data[i] = UnitAt(a, i)
  BY AnswerHeld
<1>3. \A i \in 1..Len(data) : data[i].of.tid = tid
  BY <1>1, <1>2, UnitsOf
<1>4. /\ Last(data).of = a[Len(a)] /\ Last(data).at = a[Len(a)].len
      /\ a[Len(a)].type = "rsp"
  BY <1>1, <1>2, LastOf
<1> QED
  BY <1>3, <1>4

\* packet.c finds the response of an answer.
LEMMA ResponseIs ==
  ASSUME NEW t \in Nat, NEW a \in Answer(t), NEW d \in Seq(Unit), Len(d) = Total(a),
         \A i \in 1..Len(d) : d[i] = UnitAt(a, i)
  PROVE  Header(d, 0) = a[1] /\ UsbResponse(d) = a[Len(a)]
<1>1. /\ Len(a) = 1 \/ Len(a) = 2
      /\ a[1].len \in Nat \ {0} /\ Total(a) \in Nat \ {0}
      /\ Len(a) = 1 => a[1].type = "rsp"
      /\ Len(a) = 2 => /\ a[1].type = "data" /\ a[2].len \in Nat \ {0}
                       /\ Total(a) = a[1].len + a[2].len
  BY AnswerIs, Sizes
<1>2. /\ d # <<>> => Header(d, 0) = a[1]
      /\ Len(d) > a[1].len => Header(d, a[1].len) = a[2]
  BY <1>1, HeadersAre
<1>3. Header(d, 0) = a[1]
  BY <1>1, <1>2
<1>4. CASE Len(a) = 1
  BY <1>1, <1>3, <1>4 DEF UsbResponse
<1>5. CASE Len(a) = 2
  <2>1. Len(d) > a[1].len
    BY <1>1, <1>5
  <2> QED
    BY <1>1, <1>2, <1>3, <1>5, <2>1 DEF UsbResponse
<1> QED
  BY <1>1, <1>3, <1>4, <1>5

LEMMA UInvAgree == UInv => AccessorsAgree
<1> SUFFICES ASSUME UInv, result = "ok", tid > 0
             PROVE  /\ UsbResponse(data) = Last(data).of
                    /\ UsbPayload(data, Hdr) = [i \in 1..(data[1].of.len - Hdr) |->
                                                [of |-> data[1].of, at |-> Hdr + i]]
  BY DEF AccessorsAgree
<1>1. tid \in Nat /\ data \in Seq(Unit)
  BY Typed DEF UInv
<1>2. PICK a \in Answer(tid) : /\ Len(data) = Total(a)
                               /\ \A i \in 1..Len(data) : data[i] = UnitAt(a, i)
  BY AnswerHeld
<1>3. UsbResponse(data) = Last(data).of /\ Header(data, 0) = a[1]
  BY <1>1, <1>2, LastOf, ResponseIs
<1>4. /\ a[1].len \in Nat \ {0} /\ a[1].len >= Hdr /\ a[1].len <= Total(a)
      /\ a[1] \in Container /\ Total(a) \in Nat \ {0} /\ Hdr \in Nat
  <2>1. /\ Len(a) = 1 \/ Len(a) = 2
        /\ a[1].len \in Nat /\ a[1].len >= Hdr /\ a[1] \in Container
        /\ Len(a) = 1 => Total(a) = a[1].len
        /\ Len(a) = 2 => a[2].len \in Nat /\ Total(a) = a[1].len + a[2].len
        /\ Total(a) \in Nat \ {0}
    BY <1>1, AnswerIs
  <2> QED
    BY <2>1, Sizes
<1> DEFINE n == a[1].len
           p == [i \in 1..(n - Hdr) |-> [of |-> a[1], at |-> Hdr + i]]
<1>5. \A i \in (Hdr + 1)..n : data[i] = [of |-> a[1], at |-> i] /\ data[i] \in Unit
  <2> SUFFICES ASSUME NEW i \in (Hdr + 1)..n
               PROVE  data[i] = [of |-> a[1], at |-> i] /\ data[i] \in Unit
    OBVIOUS
  <2>1. i \in 1..Len(data) /\ i <= a[1].len
    BY <1>2, <1>4
  <2> QED
    BY <1>1, <1>2, <2>1 DEF UnitAt
<1>6. data[1].of = a[1]
  <2>1. 1 \in 1..Len(data) /\ 1 <= a[1].len
    BY <1>2, <1>4
  <2> QED
    BY <1>2, <2>1 DEF UnitAt
<1> HIDE DEF n
<1>7. n \in Nat \ {0} /\ n >= Hdr
  BY <1>4 DEF n
<1>8. Hdr + 1 \in Int /\ n \in Int /\ (Hdr + 1 <= n \/ n = Hdr) /\ n - Hdr \in Nat
  BY <1>4, <1>7
<1>9. /\ SubSeq(data, Hdr + 1, n) \in Seq(Unit)
      /\ Len(SubSeq(data, Hdr + 1, n)) = n - Hdr
      /\ \A i \in 1..(n - Hdr) : SubSeq(data, Hdr + 1, n)[i] = data[Hdr + i]
  <2>1. /\ SubSeq(data, Hdr + 1, n) \in Seq(Unit)
        /\ Len(SubSeq(data, Hdr + 1, n)) = IF Hdr + 1 <= n THEN n - (Hdr + 1) + 1 ELSE 0
        /\ \A i \in 1..(n - (Hdr + 1) + 1) :
             SubSeq(data, Hdr + 1, n)[i] = data[(Hdr + 1) + i - 1]
    <3>1. \A i \in (Hdr + 1)..n : data[i] \in Unit
      BY <1>5
    <3> QED
      BY <1>8, <3>1, SubSeqProperties
  <2>2. n - (Hdr + 1) + 1 = n - Hdr /\ \A i \in Int : (Hdr + 1) + i - 1 = Hdr + i
    BY <1>4, <1>7
  <2> QED
    BY <1>4, <1>7, <1>8, <2>1, <2>2
<1>10. \A i \in 1..(n - Hdr) : p[i] = SubSeq(data, Hdr + 1, n)[i] /\ p[i] \in Unit
  <2> SUFFICES ASSUME NEW i \in 1..(n - Hdr)
               PROVE  p[i] = SubSeq(data, Hdr + 1, n)[i] /\ p[i] \in Unit
    OBVIOUS
  <2>1. Hdr + i \in (Hdr + 1)..n
    BY <1>4, <1>7
  <2> QED
    BY <1>5, <1>9, <2>1
<1>11. p \in Seq(Unit) /\ Len(p) = n - Hdr
  BY <1>8, <1>10
<1>12. SubSeq(data, Hdr + 1, n) = p
  <2> HIDE DEF p
  <2> QED
    BY <1>9, <1>10, <1>11, SeqEqual
<1>13. UsbPayload(data, Hdr) = p
  BY <1>3, <1>12 DEF UsbPayload, n
<1> QED
  BY <1>3, <1>6, <1>13 DEF n

\* However it was cut, the beginning of a command is whole packets in order.
LEMMA HeardWhole ==
  ASSUME TypeOK, NEW n \in Nat, n <= Total(Command), Heard(n)
  PROVE  /\ \A i \in 1..Len(line) :
              IF i = 1 \/ Ends(line[i - 1])
                THEN line[i].at = 1 /\ (line[i].of.type = "cmd" <=> i = 1)
                ELSE line[i] = [line[i - 1] EXCEPT !.at = @ + 1]
         /\ n = Total(Command) => Ends(Last(line))
<1>1. /\ Command[1] = Part(1)
      /\ Len(out) = 1 \/ (Len(out) = 2 /\ Command[2] = Part(2))
      /\ PartLen(1) \in Nat \ {0} /\ Total(Command) \in Nat \ {0}
      /\ Len(out) = 1 => Total(Command) = PartLen(1)
      /\ Len(out) = 2 => /\ Total(Command) = PartLen(1) + PartLen(2)
                         /\ PartLen(2) \in Nat \ {0}
  BY CommandIs, OutIs
<1>2. Len(line) = n /\ \A i \in 1..n : line[i] = UnitAt(Command, i)
  BY DEF Heard
<1>3. /\ Part(1).type = "cmd" /\ Part(1).len = PartLen(1)
      /\ Part(2).type = "data" /\ Part(2).len = PartLen(2)
  BY DEF Part
<1>4. \A i \in 1..n : i <= PartLen(1) => line[i] = [of |-> Part(1), at |-> i]
  BY <1>1, <1>2, <1>3 DEF UnitAt
<1>5. \A i \in 1..n : ~(i <= PartLen(1)) =>
         Len(out) = 2 /\ line[i] = [of |-> Part(2), at |-> i - PartLen(1)]
  <2> SUFFICES ASSUME NEW i \in 1..n, ~(i <= PartLen(1))
               PROVE  Len(out) = 2 /\ line[i] = [of |-> Part(2), at |-> i - PartLen(1)]
    OBVIOUS
  <2>1. Len(out) = 2
    BY <1>1
  <2> QED
    BY <1>1, <1>2, <1>3, <2>1 DEF UnitAt
<1>6. ASSUME NEW i \in 1..n
      PROVE  IF i = 1 \/ Ends(line[i - 1])
               THEN line[i].at = 1 /\ (line[i].of.type = "cmd" <=> i = 1)
               ELSE line[i] = [line[i - 1] EXCEPT !.at = @ + 1]
  <2>1. CASE i = 1
    <3>1. line[i] = [of |-> Part(1), at |-> 1]
      BY <1>1, <1>4, <2>1
    <3> QED
      BY <1>3, <2>1, <3>1
  <2>2. CASE i # 1 /\ i <= PartLen(1)
    <3>1. i - 1 \in 1..n /\ i - 1 <= PartLen(1) /\ i - 1 # PartLen(1) /\ (i - 1) + 1 = i
      BY <1>1, <2>2
    <3>2. line[i - 1] = [of |-> Part(1), at |-> i - 1] /\ line[i] = [of |-> Part(1), at |-> i]
      BY <1>4, <2>2, <3>1
    <3>3. ~Ends(line[i - 1])
      BY <1>3, <3>1, <3>2 DEF Ends
    <3>4. [line[i - 1] EXCEPT !.at = @ + 1] = [of |-> Part(1), at |-> i]
      BY <3>1, <3>2
    <3> QED
      BY <2>2, <3>2, <3>3, <3>4
  <2>3. CASE i = PartLen(1) + 1
    <3>1. i - 1 \in 1..n /\ i - 1 = PartLen(1) /\ i # 1 /\ i - PartLen(1) = 1
          /\ ~(i <= PartLen(1))
      BY <1>1, <2>3
    <3>2. line[i - 1] = [of |-> Part(1), at |-> PartLen(1)] /\ line[i] = [of |-> Part(2), at |-> 1]
      <4>1. line[i - 1] = [of |-> Part(1), at |-> i - 1]
        BY <1>1, <1>4, <3>1
      <4>2. line[i] = [of |-> Part(2), at |-> i - PartLen(1)]
        BY <1>5, <3>1
      <4> QED
        BY <3>1, <4>1, <4>2
    <3>3. Ends(line[i - 1])
      BY <1>3, <3>2 DEF Ends
    <3> QED
      BY <1>3, <3>1, <3>2, <3>3
  <2>4. CASE i > PartLen(1) + 1
    <3>1. /\ i - 1 \in 1..n /\ ~(i - 1 <= PartLen(1)) /\ ~(i <= PartLen(1)) /\ i # 1
          /\ ((i - 1) - PartLen(1)) + 1 = i - PartLen(1)
      BY <1>1, <2>4
    <3>2. /\ Len(out) = 2
          /\ line[i - 1] = [of |-> Part(2), at |-> (i - 1) - PartLen(1)]
          /\ line[i] = [of |-> Part(2), at |-> i - PartLen(1)]
      BY <1>5, <3>1
    <3>3. (i - 1) - PartLen(1) # PartLen(2)
      BY <1>1, <3>2
    <3>4. ~Ends(line[i - 1])
      BY <1>3, <3>2, <3>3 DEF Ends
    <3>5. [line[i - 1] EXCEPT !.at = @ + 1] = [of |-> Part(2), at |-> i - PartLen(1)]
      BY <3>1, <3>2
    <3> QED
      BY <3>1, <3>2, <3>4, <3>5
  <2> QED
    BY <1>1, <2>1, <2>2, <2>3, <2>4
<1>7. ASSUME n = Total(Command) PROVE Ends(Last(line))
  <2>1. Last(line) = line[n] /\ n \in 1..n
    BY <1>1, <1>2, <1>7 DEF Last
  <2>2. CASE Len(out) = 1
    <3>1. n <= PartLen(1) /\ n = PartLen(1)
      BY <1>1, <1>7, <2>2
    <3>2. line[n] = [of |-> Part(1), at |-> PartLen(1)]
      BY <1>4, <2>1, <3>1
    <3> QED
      BY <1>3, <2>1, <3>2 DEF Ends
  <2>3. CASE Len(out) = 2
    <3>1. ~(n <= PartLen(1)) /\ n - PartLen(1) = PartLen(2)
      BY <1>1, <1>7, <2>3
    <3>2. line[n] = [of |-> Part(2), at |-> PartLen(2)]
      BY <1>5, <2>1, <3>1
    <3> QED
      BY <1>3, <2>1, <3>2 DEF Ends
  <2> QED
    BY <1>1, <2>2, <2>3
<1> QED
  BY <1>2, <1>6, <1>7

LEMMA UInvPackets == UInv => WholePackets
<1> SUFFICES ASSUME UInv PROVE WholePackets
  OBVIOUS
<1>1. TypeOK /\ Total(Command) \in Nat
  BY CommandIs DEF UInv
<1>2. CASE line = <<>>
  BY <1>2 DEF WholePackets
<1>3. CASE line # <<>>
  <2>1. PICK n \in Nat : /\ n <= Total(Command) /\ Heard(n)
                         /\ pc = "read" => n = Total(Command)
    <3>1. CASE pc = "write"
      BY <1>1, <3>1, NotAllSent DEF UInv, Writing
    <3>2. CASE pc = "dead"
      BY <1>1, <3>2 DEF UInv, Failed
    <3>3. CASE pc = "read"
      BY <1>1, <1>3, <3>3 DEF UInv, Reading
    <3>4. pc # "idle"
      BY <1>3 DEF UInv, Resting
    <3> QED
      BY <1>1, <3>1, <3>2, <3>3, <3>4 DEF TypeOK
  <2> QED
    BY <1>1, <2>1, HeardWhole DEF WholePackets
<1> QED
  BY <1>2, <1>3

-----------------------------------------------------------------------------
(* The call that a caller believes in.                                     *)

\* What the abstract call takes for the answer, by number.
Answers == Answered = IF result = "ok" THEN tid ELSE tid - 1

LEMMA UInvAnswers == UInv => Answers
<1> SUFFICES ASSUME UInv PROVE Answers
  OBVIOUS
<1>1. tid \in Nat /\ data \in Seq(Unit) /\ (result # "ok" => tid > 0)
  <2>1. TypeOK /\ Results
    BY DEF UInv
  <2> QED
    BY <2>1, Typed DEF Results, TypeOK
<1>2. CASE result = "ok" /\ tid > 0
  <2>1. PICK a \in Answer(tid) : /\ Len(data) = Total(a)
                                 /\ \A i \in 1..Len(data) : data[i] = UnitAt(a, i)
    BY <1>2, AnswerHeld
  <2>2. UsbResponse(data) = a[Len(a)] /\ a[Len(a)].tid = tid
    <3>1. UsbResponse(data) = a[Len(a)]
      BY <1>1, <2>1, ResponseIs
    <3>2. a[Len(a)].tid = tid
      <4>1. /\ Len(a) = 1 \/ Len(a) = 2
            /\ a[1].tid = tid
            /\ Len(a) = 2 => a[2].tid = tid
        BY <1>1, AnswerIs
      <4> QED
        BY <4>1
    <3> QED
      BY <3>1, <3>2
  <2> QED
    BY <1>2, <2>2 DEF Answers, Answered
<1>3. CASE result = "ok" /\ ~(tid > 0)
  <2>1. tid = 0
    BY <1>1, <1>3
  <2> QED
    BY <1>3, <2>1 DEF Answers, Answered
<1>4. CASE result # "ok"
  BY <1>1, <1>4 DEF Answers, Answered
<1> QED
  BY <1>2, <1>3, <1>4

LEMMA InitCalls == Init => Remote!CallInit
<1> SUFFICES ASSUME Init PROVE Remote!CallInit
  OBVIOUS
<1>1. Runs = {}
  BY DEF Init, Runs
<1>2. Cardinality(Runs) = 0
  BY <1>1, FS_EmptySet
<1>3. Answered = 0
  BY DEF Init, Answered
<1> QED
  BY <1>2, <1>3 DEF Init, Remote!CallInit

\* A step that leaves the call, its result and the camera's history alone.
LEMMA NothingShows ==
  ASSUME Answers, Answers', UNCHANGED <<tid, result, executed>>
  PROVE  UNCHANGED Remote!rcVars
<1>1. Cardinality(Runs)' = Cardinality(Runs)
  BY DEF Runs
<1>2. Answered' = Answered
  BY DEF Answers
<1> QED
  BY <1>1, <1>2 DEF Remote!rcVars

\* The host learns the end of a try.
LEMMA TryCalls ==
  ASSUME UInv, UInv', Answers, Answers', pc = "read", UNCHANGED <<tid, executed>>,
         UNCHANGED <<pc, result>> \/ \E v \in {"more", "ok", "ignored", "ioerr"} : EndTry(v)
  PROVE  [Remote!CallNext]_(Remote!rcVars)
<1>1. result = "none" /\ tid \in Nat /\ tid > 0 /\ Answered = tid - 1
  <2>1. TypeOK /\ Results
    BY DEF UInv
  <2>2. result = "none" /\ tid > 0
    BY <2>1 DEF Results
  <2> QED
    BY <2>1, <2>2, Typed DEF Answers
<1>2. Cardinality(Runs)' = Cardinality(Runs)
  BY DEF Runs
<1>3. CASE UNCHANGED result
  BY <1>3, NothingShows
<1>4. CASE pc' = "idle" /\ result' = "ok"
  <2>1. Cardinality(Runs)' = 1
    BY <1>1, <1>4 DEF UInv, Resting
  <2>2. Answered' = tid
    BY <1>4 DEF Answers
  <2>3. Remote!Succeed
    BY <1>1, <1>2, <1>4, <2>1, <2>2 DEF Remote!Succeed
  <2> QED
    BY <2>3 DEF Remote!CallNext
<1>5. CASE result' = "failed"
  <2>1. Answered' = tid - 1
    BY <1>5 DEF Answers
  <2>2. Remote!GiveUp
    BY <1>1, <1>2, <1>5, <2>1 DEF Remote!GiveUp
  <2> QED
    BY <2>2 DEF Remote!CallNext
<1> QED
  BY <1>3, <1>4, <1>5 DEF EndTry

\* The camera executes a command.
LEMMA ExecuteCalls ==
  ASSUME UInv, Answers, Answers', TakeCommand, UNCHANGED host,
         executed' = Append(executed, Header(line, 0).tid)
  PROVE  Remote!Execute
<1>1. /\ Still /\ Header(line, 0).tid = tid /\ tid > 0 /\ TypeOK /\ result = "none"
  BY Taken
<1>2. tid' = tid /\ result' = result /\ Cardinality(Runs) = 0 /\ executed' = Append(executed, tid)
  BY <1>1 DEF host, Still
<1>3. Cardinality(Runs') = 1
  BY <1>1, <1>2, OneRunMore
<1>4. Answered' = Answered
  BY <1>1, <1>2 DEF Answers
<1> QED
  BY <1>1, <1>2, <1>3, <1>4 DEF Remote!Execute

LEMMA StepCalls ==
  ASSUME UInv, UInv', Answers, Answers', [Next]_vars
  PROVE  [Remote!CallNext]_(Remote!rcVars)
<1>1. CASE Call
  <2>1. /\ pc = "idle" /\ tid' = tid + 1 /\ pc' = "write" /\ result' = "none"
    BY <1>1 DEF Call
  <2>2. result = "ok" /\ tid \in Nat
    BY <2>1, Typed DEF UInv, Results
  <2>3. Cardinality(Runs)' = 0
    BY <2>1 DEF UInv, Writing, Still
  <2>4. Answered' = Answered
    <3>1. Answered = tid /\ Answered' = tid' - 1
      BY <2>1, <2>2 DEF Answers
    <3> QED
      BY <2>1, <2>2, <3>1
  <2>5. Remote!Start
    BY <2>1, <2>2, <2>3, <2>4 DEF Remote!Start
  <2> QED
    BY <2>5 DEF Remote!CallNext
<1>2. CASE Write
  <2>1. UNCHANGED <<tid, result, executed>>
    BY <1>2 DEF Write
  <2> QED
    BY <2>1, NothingShows
<1>3. CASE WriteFails
  <2>1. pc = "write" /\ result' = "failed" /\ UNCHANGED <<tid, executed>>
    BY <1>3 DEF WriteFails, camera
  <2>2. result = "none" /\ Answered' = Answered
    BY <2>1 DEF UInv, Results, Answers
  <2>3. Cardinality(Runs)' = Cardinality(Runs)
    BY <2>1 DEF Runs
  <2>4. Remote!GiveUp
    BY <2>1, <2>2, <2>3 DEF Remote!GiveUp
  <2> QED
    BY <2>4 DEF Remote!CallNext
<1>4. CASE ReadChunk
  <2>1. pc = "read" /\ UNCHANGED <<tid, executed>> /\ EndTry(Examine(data', wait, attempts))
    BY <1>4 DEF ReadChunk, camera
  <2>2. Examine(data', wait, attempts) \in {"more", "ok", "ignored", "ioerr"}
    BY DEF Examine
  <2> QED
    BY <2>1, <2>2, TryCalls
<1>5. CASE ReadTimeout
  <2>1. /\ pc = "read" /\ UNCHANGED <<tid, executed>>
        /\ UNCHANGED <<pc, result>> \/ EndTry("ioerr")
    BY <1>5 DEF ReadTimeout, camera
  <2> QED
    BY <2>1, TryCalls
<1>6. CASE ReadZero
  <2>1. /\ pc = "read" /\ UNCHANGED <<tid, executed>>
        /\ UNCHANGED <<pc, result>> \/ EndTry(Examine(data, wait, attempts))
    BY <1>6 DEF ReadZero, camera
  <2>2. Examine(data, wait, attempts) \in {"more", "ok", "ignored", "ioerr"}
    BY DEF Examine
  <2> QED
    BY <2>1, <2>2, TryCalls
<1>7. CASE Respond \/ SendData
  <2>1. /\ TakeCommand /\ UNCHANGED host
        /\ executed' = Append(executed, Header(line, 0).tid)
    BY <1>7 DEF Respond, SendData, host
  <2>2. Remote!Execute
    BY <2>1, ExecuteCalls
  <2> QED
    BY <2>2 DEF Remote!CallNext
<1>8. CASE FinishData \/ Drop \/ Done \/ UNCHANGED vars
  <2>1. UNCHANGED <<tid, result, executed>>
    BY <1>8 DEF FinishData, Drop, Done, host, vars
  <2> QED
    BY <2>1, NothingShows
<1> QED
  BY <1>1, <1>2, <1>3, <1>4, <1>5, <1>6, <1>7, <1>8 DEF Next, Host, Camera

-----------------------------------------------------------------------------
(* The theorems.                                                           *)

\* Counters, units and lengths have their types however long calls go on: in
\* particular a write never counts more than the packet holds.
THEOREM UsbCallTypeCorrect == ASSUME Prompt PROVE Spec => []TypeOK
<1>1. UInv => TypeOK
  BY DEF UInv
<1> QED
  BY <1>1, UInvAlways, PTL

\* ptp_send_packet: the camera hears whole packets in order, whatever the
\* packet size and however short the writes, and only a failed write leaves
\* one unfinished.
THEOREM PacketsAreWhole == ASSUME Prompt PROVE Spec => []WholePackets
  BY UInvPackets, UInvAlways, PTL

\* ptpusb_read_all_packets: a call that returns 0 leaves one whole answer in
\* r->data, of this call, however the reads cut it.
THEOREM AnswersAreWhole == ASSUME Prompt PROVE Spec => []WholeAnswer
  BY UInvWhole, UInvAlways, PTL

\* packet.c: the accessors find the response and all of the payload, with or
\* without a data phase, a payload of no bytes included.
THEOREM AccessorsFindParts == ASSUME Prompt PROVE Spec => []AccessorsAgree
  BY UInvAgree, UInvAlways, PTL

\* ptp_send implements the call that callers believe in: what returns 0 was
\* executed exactly once, second try included, and the buffer answers it.
THEOREM ImplementsRemoteCall == ASSUME Prompt PROVE Spec => RemoteSpec
<1>1. UInv /\ UInv' /\ Answers /\ Answers' /\ [Next]_vars
        => [Remote!CallNext]_(Remote!rcVars)
  BY StepCalls
<1> QED
  BY <1>1, InitCalls, UInvAnswers, UInvAlways, PTL DEF Spec, RemoteSpec, Remote!CallSpec

-----------------------------------------------------------------------------
(* The life of the handle: the interface claim and the mutex.              *)

ManagerPlaces == {"idle", "lock", "listing", "check", "open", "detach", "claim",
                  "enableIo", "enableOp", "stopOp", "release", "free"}
WorkerPlaces == {"idle", "lock", "recheck", "checkIo", "submit", "transfer"}

\* Every thread is in its own code, and the manager where its call has led it.
PlacesMatch ==
  /\ place[Manager] \in ManagerPlaces
  /\ \A w \in Workers : place[w] \in WorkerPlaces
  /\ place[Manager] = "listing" => call \in {"list", "init"}
  /\ place[Manager] = "check" => call = "open"
  /\ place[Manager] \in {"open", "detach", "claim", "enableIo", "enableOp"} =>
       call \in {"init", "open"}
  /\ place[Manager] \in {"stopOp", "release", "free"} => call = "close"

\* What the manager has made of the handle when it is there, and that the I/O
\* switch stays on until the claim.
ManagerKnows ==
  /\ place[Manager] \in {"listing", "open", "detach", "claim", "enableIo",
                      "stopOp", "release", "free"} => ioKill
  /\ place[Manager] = "lock" /\ call # "open" => ioKill
  /\ place[Manager] \in {"detach", "claim", "enableIo", "enableOp",
                      "stopOp", "release", "free"} => handle \in Handles
  /\ place[Manager] = "enableIo" => state[handle] = "claimed"

AInv == DeviceTypeOK /\ PlacesMatch /\ ManagerKnows /\ ActiveMeansClaimed

USE DEF At, Go, Mark, Threads, Handles

LEMMA InitAInv == DeviceInit => AInv
<1> SUFFICES ASSUME DeviceInit PROVE AInv
  OBVIOUS
<1> USE UsbThreadsAssumption, UsbBoundsAssumption DEF DeviceInit
<1>1. DeviceTypeOK
  <2>1. 0 \in 0..MaxHandles
    OBVIOUS
  <2>2. using \in [Workers -> 0..MaxHandles]
    BY <2>1, Zenon
  <2>3. place \in [Threads -> {"idle"}] /\ state \in [Handles -> {"unused"}]
    BY Zenon
  <2>4. /\ ioKill \in BOOLEAN /\ opKill \in BOOLEAN /\ listed \in BOOLEAN
        /\ handle \in 0..MaxHandles
    BY <2>1, Zenon
  <2> QED
    BY <2>2, <2>3, <2>4 DEF DeviceTypeOK
<1>2. PlacesMatch /\ ManagerKnows
  BY DEF PlacesMatch, ManagerKnows, ManagerPlaces, WorkerPlaces
<1>3. ActiveMeansClaimed
  BY DEF ActiveMeansClaimed
<1> QED
  BY <1>1, <1>2, <1>3 DEF AInv

\* A worker's step moves the worker, the mutex and its transfer.
LEMMA WorkKeepsAInv ==
  ASSUME AInv, NEW w \in Workers, Work(w)
  PROVE  AInv'
<1> USE DEF AInv
<1>1. w # Manager
  BY UsbThreadsAssumption
<1>2. DeviceTypeOK'
  <2> USE DEF DeviceTypeOK
  <2>1. CASE Send(w) \/ SendLock(w)
    BY <2>1 DEF Send, SendLock, Acquire
  <2>2. CASE Recheck(w) \/ CheckIo(w)
    BY <2>2 DEF Recheck, CheckIo, Leave, Release
  <2>3. CASE Submit(w)
    BY <2>3 DEF Submit
  <2>4. CASE Transferred(w)
    BY <2>4, UsbBoundsAssumption DEF Transferred, Leave, Release
  <2> QED
    BY <2>1, <2>2, <2>3, <2>4 DEF Work
<1>3. /\ \E l \in WorkerPlaces : place' = [place EXCEPT ![w] = l]
      /\ UNCHANGED <<call, ioKill, handle, state>>
  BY DEF Work, Send, SendLock, Recheck, CheckIo, Submit, Transferred, Leave,
         WorkerPlaces
<1>4. place'[Manager] = place[Manager]
  BY <1>1, <1>3 DEF DeviceTypeOK
<1>5. PlacesMatch'
  BY <1>3, <1>4 DEF PlacesMatch, DeviceTypeOK
<1>6. ManagerKnows' /\ ActiveMeansClaimed'
  BY <1>3, <1>4 DEF ManagerKnows, ActiveMeansClaimed
<1> QED
  BY <1>2, <1>5, <1>6

\* The manager's step: its place, its call and the handle move together.
LEMMA ManageKeepsAInv ==
  ASSUME AInv, Manage
  PROVE  AInv'
<1> USE DEF AInv
<1>1. DeviceTypeOK'
  <2> USE DEF DeviceTypeOK
  <2>1. CASE \E c \in {"list", "init"} : CallList(c)
    BY <2>1 DEF CallList
  <2>2. CASE ListLock \/ ListDevices \/ CallOpen \/ OpenLock \/ OpenCheck
    BY <2>2 DEF ListLock, ListDevices, CallOpen, OpenLock, OpenCheck, Acquire, Release
  <2>3. CASE LibusbOpen
    BY <2>3 DEF LibusbOpen, Return
  <2>4. CASE AutoDetach \/ Claim
    BY <2>4, UsbBoundsAssumption DEF AutoDetach, Claim, Return
  <2>5. CASE EnableIo \/ EnableOp \/ CloseDevice \/ StopOp
    BY <2>5 DEF EnableIo, EnableOp, CloseDevice, StopOp, Return
  <2>6. CASE ReleaseInterface
    BY <2>6 DEF ReleaseInterface
  <2>7. CASE FreeHandle
    BY <2>7 DEF FreeHandle
  <2> QED
    BY <2>1, <2>2, <2>3, <2>4, <2>5, <2>6, <2>7 DEF Manage
<1>2. \A w \in Workers : place'[w] = place[w]
  BY UsbThreadsAssumption
     DEF DeviceTypeOK, Manage, CallList, ListLock, ListDevices, CallOpen, OpenLock, OpenCheck,
         LibusbOpen, AutoDetach, Claim, EnableIo, EnableOp, CloseDevice, StopOp,
         ReleaseInterface, FreeHandle, Return
<1>3. PlacesMatch'
  BY <1>2
     DEF DeviceTypeOK, PlacesMatch, ManagerPlaces, Manage, CallList, ListLock, ListDevices,
         CallOpen, OpenLock, OpenCheck, LibusbOpen, AutoDetach, Claim, EnableIo,
         EnableOp, CloseDevice, StopOp, ReleaseInterface, FreeHandle, Return
<1>4. ManagerKnows' /\ ActiveMeansClaimed'
  <2> USE DEF DeviceTypeOK, PlacesMatch, ManagerKnows, ActiveMeansClaimed
  <2>1. CASE \E c \in {"list", "init"} : CallList(c)
    BY <2>1 DEF CallList
  <2>2. CASE ListLock \/ ListDevices \/ CallOpen \/ OpenLock \/ OpenCheck
    BY <2>2 DEF ListLock, ListDevices, CallOpen, OpenLock, OpenCheck
  <2>3. CASE LibusbOpen
    BY <2>3 DEF LibusbOpen, Return
  <2>4. CASE AutoDetach \/ Claim
    BY <2>4, UsbBoundsAssumption DEF AutoDetach, Claim, Return
  <2>5. CASE EnableIo \/ EnableOp
    <3>1. /\ place[Manager] \in {"enableIo", "enableOp"}
          /\ place'[Manager] \in {"enableOp", "idle"}
          /\ UNCHANGED <<call, handle, state>>
      BY <2>5 DEF EnableIo, EnableOp, Return
    <3>2. handle \in Handles /\ handle # 0
      BY <3>1, UsbBoundsAssumption
    <3>3. CASE EnableIo
      BY <3>1, <3>2, <3>3, Zenon DEF EnableIo
    <3>4. CASE EnableOp
      BY <3>1, <3>2, <3>4, Zenon DEF EnableOp
    <3> QED
      BY <2>5, <3>3, <3>4
  <2>6. CASE CloseDevice \/ StopOp
    BY <2>6 DEF CloseDevice, StopOp
  <2>7. CASE ReleaseInterface
    BY <2>7 DEF ReleaseInterface
  <2>8. CASE FreeHandle
    BY <2>8 DEF FreeHandle
  <2> QED
    BY <2>1, <2>2, <2>3, <2>4, <2>5, <2>6, <2>7, <2>8 DEF Manage
<1> QED
  BY <1>1, <1>3, <1>4

LEMMA NextAInv == AInv /\ [DeviceNext]_deviceVars => AInv'
<1> SUFFICES ASSUME AInv, [DeviceNext]_deviceVars PROVE AInv'
  OBVIOUS
<1>1. CASE DeviceNext
  BY <1>1, WorkKeepsAInv, ManageKeepsAInv DEF DeviceNext
<1>2. CASE UNCHANGED deviceVars
  BY <1>2 DEF deviceVars, AInv, DeviceTypeOK, PlacesMatch, ManagerKnows, ActiveMeansClaimed
<1> QED
  BY <1>1, <1>2

LEMMA AInvAlways == DeviceSpec => []AInv
<1> QED
  BY InitAInv, NextAInv, PTL DEF DeviceSpec

\* The state of the USB back end keeps its types (libusb.c:60-310).
THEOREM UsbTypeCorrect == DeviceSpec => []DeviceTypeOK
<1>1. AInv => DeviceTypeOK
  BY DEF AInv
<1> QED
  BY <1>1, AInvAlways, PTL

\* The I/O switch is off only while the current handle owns the interface,
\* whichever call into libusb failed on the way (libusb.c:203-310), even in a
\* program that opens an active connection.
THEOREM SwitchMeansClaim == DeviceSpec => []ActiveMeansClaimed
<1>1. AInv => ActiveMeansClaimed
  BY DEF AInv
<1> QED
  BY <1>1, AInvAlways, PTL

-----------------------------------------------------------------------------
(* The mutex.                                                              *)

WorkerHolds(w) == place[w] \in {"recheck", "checkIo", "submit", "transfer"}
ManagerHolds ==
  \/ place[Manager] \in {"listing", "check"}
  \/ call = "open" /\ place[Manager] \in {"open", "detach", "claim", "enableIo", "enableOp"}

\* Who is where the mutex is needed holds it.
HoldersKnown ==
  /\ \A w \in Workers : WorkerHolds(w) <=> owner = w
  /\ ManagerHolds => owner = Manager

LEMMA InitHolders == DeviceInit => HoldersKnown
BY UsbThreadsAssumption DEF DeviceInit, HoldersKnown, WorkerHolds, ManagerHolds

LEMMA WorkKeepsHolders ==
  ASSUME AInv, HoldersKnown, NEW w \in Workers, Work(w)
  PROVE  HoldersKnown' /\ (owner' = Manager <=> owner = Manager)
<1> USE UsbThreadsAssumption DEF AInv, DeviceTypeOK
<1>1. /\ UNCHANGED <<call, ioKill>> /\ place'[Manager] = place[Manager]
      /\ \A v \in Workers \ {w} : place'[v] = place[v]
  BY DEF Work, Send, SendLock, Recheck, CheckIo, Submit, Transferred, Leave
<1>2. \/ WorkerHolds(w)' /\ owner' = w /\ owner \in {w, NoOne}
      \/ ~WorkerHolds(w)' /\ owner' = NoOne /\ owner = w
      \/ ~WorkerHolds(w)' /\ owner' = owner /\ owner # w
  <2> USE DEF HoldersKnown, WorkerHolds
  <2>1. CASE Send(w) \/ SendLock(w)
    BY <2>1 DEF Send, SendLock, Acquire
  <2>2. CASE Recheck(w) \/ CheckIo(w)
    BY <2>2 DEF Recheck, CheckIo, Leave, Release
  <2>3. CASE Submit(w) \/ Transferred(w)
    BY <2>3 DEF Submit, Transferred, Leave, Release
  <2> QED
    BY <2>1, <2>2, <2>3 DEF Work
<1> QED
  BY <1>1, <1>2 DEF HoldersKnown, WorkerHolds, ManagerHolds

LEMMA ManageKeepsHolders ==
  ASSUME AInv, HoldersKnown, Manage
  PROVE  HoldersKnown'
<1> USE UsbThreadsAssumption DEF AInv, DeviceTypeOK
<1>1. \A w \in Workers : place'[w] = place[w]
  BY DEF Manage, CallList, ListLock, ListDevices, CallOpen, OpenLock, OpenCheck,
         LibusbOpen, AutoDetach, Claim, EnableIo, EnableOp, CloseDevice, StopOp,
         ReleaseInterface, FreeHandle, Return
<1>2. /\ ManagerHolds' => owner' = Manager
      /\ owner' = owner \/ {owner, owner'} \subseteq {NoOne, Manager}
  <2> USE DEF PlacesMatch, ManagerPlaces, ManagerHolds, HoldersKnown
  <2>1. CASE \E c \in {"list", "init"} : CallList(c)
    BY <2>1 DEF CallList
  <2>2. CASE ListLock \/ ListDevices \/ CallOpen
    BY <2>2 DEF ListLock, ListDevices, CallOpen, Acquire, Release
  <2>3. CASE OpenLock \/ OpenCheck
    BY <2>3 DEF OpenLock, OpenCheck
  <2>4. CASE LibusbOpen
    BY <2>4 DEF LibusbOpen, Return
  <2>5. CASE AutoDetach \/ Claim
    BY <2>5 DEF AutoDetach, Claim, Return
  <2>6. CASE EnableIo \/ EnableOp
    BY <2>6 DEF EnableIo, EnableOp, Return
  <2>7. CASE CloseDevice \/ StopOp
    BY <2>7 DEF CloseDevice, StopOp
  <2>8. CASE ReleaseInterface \/ FreeHandle
    BY <2>8 DEF ReleaseInterface, FreeHandle
  <2> QED
    BY <2>1, <2>2, <2>3, <2>4, <2>5, <2>6, <2>7, <2>8 DEF Manage
<1> QED
  BY <1>1, <1>2 DEF HoldersKnown, WorkerHolds

LEMMA HoldersAlways == DeviceSpec => [](AInv /\ HoldersKnown)
<1>1. DeviceInit => AInv /\ HoldersKnown
  BY InitAInv, InitHolders
<1>2. ASSUME AInv, HoldersKnown, [DeviceNext]_deviceVars PROVE HoldersKnown'
  <2>1. CASE DeviceNext
    BY <1>2, <2>1, WorkKeepsHolders, ManageKeepsHolders DEF DeviceNext
  <2>2. CASE UNCHANGED deviceVars
    BY <1>2, <2>2 DEF deviceVars, HoldersKnown, WorkerHolds, ManagerHolds
  <2> QED
    BY <1>2, <2>1, <2>2
<1>3. AInv /\ HoldersKnown /\ [DeviceNext]_deviceVars => (AInv /\ HoldersKnown)'
  BY <1>2, NextAInv
<1> QED
  BY <1>1, <1>3, PTL DEF DeviceSpec

\* Two threads never have a transfer under way at the same time, whatever the
\* manager is doing (lib.c:193-219, libusb.c:312-372).
TransfersExclude ==
  \A v, w \in Workers : place[v] = "transfer" /\ place[w] = "transfer" => v = w

THEOREM OneTransfer == DeviceSpec => []TransfersExclude
<1>1. AInv /\ HoldersKnown => TransfersExclude
  BY DEF HoldersKnown, WorkerHolds, TransfersExclude
<1> QED
  BY <1>1, HoldersAlways, PTL

-----------------------------------------------------------------------------
(* Nothing is kept, when the program opens no active connection (it may not:*)
(* see UsbDevice_reopen).                                                  *)
NoReopens == ~Reopens

NothingKept ==
  /\ owner = Manager => ManagerHolds
  /\ place[Manager] = "check" \/ (place[Manager] = "lock" /\ call = "open") => ioKill

LEMMA ManageKeepsNothing ==
  ASSUME NoReopens, AInv, HoldersKnown, NothingKept, Manage
  PROVE  NothingKept'
<1> USE UsbThreadsAssumption DEF AInv, DeviceTypeOK
<1>1. owner' = Manager => ManagerHolds'
  <2> USE DEF PlacesMatch, ManagerPlaces, ManagerHolds, NothingKept
  <2>1. CASE \E c \in {"list", "init"} : CallList(c)
    BY <2>1 DEF CallList
  <2>2. CASE ListLock \/ ListDevices \/ CallOpen
    BY <2>2 DEF ListLock, ListDevices, CallOpen, Acquire, Release
  <2>3. CASE OpenLock \/ OpenCheck
    BY <2>3 DEF OpenLock, OpenCheck
  <2>4. CASE LibusbOpen \/ AutoDetach \/ Claim
    BY <2>4 DEF LibusbOpen, AutoDetach, Claim, Return
  <2>5. CASE EnableIo \/ EnableOp
    BY <2>5 DEF EnableIo, EnableOp, Return
  <2>6. CASE CloseDevice \/ StopOp \/ ReleaseInterface \/ FreeHandle
    BY <2>6 DEF CloseDevice, StopOp, ReleaseInterface, FreeHandle
  <2> QED
    BY <2>1, <2>2, <2>3, <2>4, <2>5, <2>6 DEF Manage
<1>2. place'[Manager] = "check" \/ (place'[Manager] = "lock" /\ call' = "open") => ioKill'
  BY Zenon, SMT DEF NoReopens, NothingKept, PlacesMatch, Manage, CallList, ListLock,
     ListDevices, CallOpen, OpenLock, OpenCheck, LibusbOpen, AutoDetach, Claim,
     EnableIo, EnableOp, CloseDevice, StopOp, ReleaseInterface, FreeHandle, Return
<1> QED
  BY <1>1, <1>2 DEF NothingKept

LEMMA NextKeepsNothing ==
  ASSUME NoReopens, AInv, HoldersKnown, NothingKept, [DeviceNext]_deviceVars
  PROVE  NothingKept'
<1>1. ASSUME NEW w \in Workers, Work(w) PROVE NothingKept'
  <2>1. /\ UNCHANGED <<call, ioKill>> /\ place'[Manager] = place[Manager]
        /\ owner' = Manager <=> owner = Manager
    BY <1>1, WorkKeepsHolders, UsbThreadsAssumption
       DEF AInv, DeviceTypeOK, Work, Send, SendLock, Recheck, CheckIo, Submit, Transferred,
           Leave
  <2> QED
    BY <2>1 DEF NothingKept, ManagerHolds
<1>2. CASE UNCHANGED deviceVars
  BY <1>2 DEF deviceVars, NothingKept, ManagerHolds
<1> QED
  BY <1>1, <1>2, ManageKeepsNothing DEF DeviceNext

\* No function of the back end returns with the mutex locked: listing, opening
\* and initialising release it on every early return, for a program that opens
\* no active connection (libusb.c:60-245).
THEOREM MutexIsReleased == ASSUME NoReopens PROVE DeviceSpec => []MutexReleased
<1>1. DeviceInit => NothingKept
  BY UsbThreadsAssumption DEF DeviceInit, NothingKept
<1>2. AInv /\ HoldersKnown /\ NothingKept /\ [DeviceNext]_deviceVars => NothingKept'
  BY NoReopens, NextKeepsNothing
<1>3. AInv /\ HoldersKnown /\ NothingKept => MutexReleased
  BY UsbThreadsAssumption
     DEF HoldersKnown, NothingKept, WorkerHolds, ManagerHolds, MutexReleased
<1> QED
  BY <1>1, <1>2, <1>3, HoldersAlways, PTL DEF DeviceSpec
=============================================================================

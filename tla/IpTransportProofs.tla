-------------------------- MODULE IpTransportProofs --------------------------
(* Answers received over a TCP stream: proofs about IpTransport, for any   *)
(* lengths of packets, waits and sizes of the buffer.                      *)
EXTENDS IpTransport, SequenceTheorems, TLAPS

-----------------------------------------------------------------------------
(* Where the packets of an answer are.  The camera has chosen the answer a *)
(* and sent n packets of it, whose lengths are in ls; the stream is what   *)
(* the host has of it in r->data and what is still on its way.             *)

\* The units of a packet that claims the length l, and the lengths that say
\* how many there are.
CountOf(l) == IF l < LenField THEN LenField ELSE IF l < Modulus \div 2 THEN l ELSE Huge
Honest(l) == LenField < l /\ CountOf(l) = l

\* The units before packet k.
Before(ls, k) ==
  IF k = 1 THEN 0 ELSE IF k = 2 THEN CountOf(ls[1])
  ELSE IF k = 3 THEN CountOf(ls[1]) + CountOf(ls[2])
  ELSE CountOf(ls[1]) + CountOf(ls[2]) + CountOf(ls[3])

\* The packet k.
Sent(a, ls, k) == [type |-> a[k], len |-> ls[k], call |-> call]

\* The unit u at place i of the stream is the one of the packet that is there.
Placed(u, i, a, n, ls) ==
  \A k \in 1..n : Before(ls, k) < i /\ i <= Before(ls, k + 1) =>
                    u.of = Sent(a, ls, k) /\ u.at = i - Before(ls, k)

\* The stream holds the packets sent and nothing else; a connection that was
\* closed may have lost the end of it.
Flow(a, n, ls) ==
  /\ n <= Len(a) /\ Len(plan) = Len(a) - n
  /\ \A i \in 1..Len(plan) : plan[i] = a[n + i]
  /\ Len(data) + Len(pipe) <= Before(ls, n + 1)
  /\ peer # "gone" => Len(data) + Len(pipe) = Before(ls, n + 1)
  /\ \A i \in 1..Len(data) : Placed(data[i], i, a, n, ls)
  /\ \A i \in 1..Len(pipe) : Placed(pipe[i], Len(data) + i, a, n, ls)

\* The host reads packet after packet, and is done with the last.
Reading(a, n, ls) ==
  /\ pc \in {"length", "body"} =>
       /\ of = Before(ls, stage)
       /\ stage > 1 => a[1] = "start"
       /\ stage > 2 => a[2] = "end"
       /\ \A k \in 1..3 : k < stage => Honest(ls[k])
  /\ pc = "length" => stage <= n + 1 /\ Len(data) = of
  /\ pc = "body" => /\ stage <= n /\ Honest(ls[stage])
                    /\ of + LenField <= Len(data) /\ Len(data) < of + ls[stage]
                    /\ of + LenField + ls[stage] <= size
  /\ pc = "idle" => /\ a \in {<<"rsp">>, <<"start", "end", "rsp">>} /\ n = Len(a)
                    /\ Len(data) = Before(ls, n + 1)
                    /\ \A k \in 1..n : Honest(ls[k])

InStep == pc # "dead" /\ call > 0 =>
            \E a \in Answers, n \in 0..3, ls \in [1..3 -> Lens] :
              Flow(a, n, ls) /\ Reading(a, n, ls)

\* Between two answers the stream is empty.
Quiet == pc = "idle" => pipe = <<>> /\ plan = <<>>

Verdicts == /\ verdict = "ok" => pc = "idle"
            /\ pc = "idle" /\ call > 0 => verdict = "ok"
            /\ verdict = "more" <=> pc \in {"length", "body"}
            /\ pc \in {"length", "body"} => call > 0

\* The length of the first packet: reads that failed and reads left make up the
\* caller's wait, until the camera is gone and the command cannot count as ignored.
Waits ==
  /\ pc = "length" /\ data = <<>> /\ peer # "gone" => fails + wait = wanted
  /\ verdict = "ignored" /\ data = <<>> => fails = wanted

\* A packet leaves room for the length field of the next one, and no read has
\* gone beyond the buffer.
Roomy == /\ size >= Buffer /\ verdict # "overrun"
         /\ pc = "length" => Len(data) + LenField <= size

\* What holds whatever the packets claim, and what holds until one of them
\* claims a length that is not sound.
Always == TypeOK /\ Verdicts /\ Waits
Steady == Always /\ InStep /\ Quiet /\ Roomy

IInv == Always /\ (claims = "sound" => Steady)

-----------------------------------------------------------------------------
(* Answers, places and sequences.                                          *)

LEMMA AnswersAre ==
  ASSUME NEW a \in Answers
  PROVE  /\ a \in Seq(Types) /\ Len(a) \in 1..3
         /\ a[1] = "rsp" => a = <<"rsp">>
         /\ a[1] = "start" => Len(a) > 1
         /\ a[1] = "start" /\ a[2] = "end" => Len(a) = 3
         /\ a[1] = "start" /\ a[2] = "end" /\ a[3] = "rsp" => a = <<"start", "end", "rsp">>
<1>1. \/ a = <<"rsp">> \/ a = <<"start", "end", "rsp">> \/ a = <<"other">>
      \/ a = <<"start", "rsp">> \/ a = <<"start", "end", "other">>
  BY DEF Answers
<1> USE DEF Types
<1>2. CASE a = <<"rsp">>
  BY <1>2
<1>3. CASE a = <<"other">>
  BY <1>3
<1>4. CASE a = <<"start", "rsp">>
  BY <1>4
<1>5. CASE a = <<"start", "end", "rsp">>
  BY <1>5
<1>6. CASE a = <<"start", "end", "other">>
  BY <1>6
<1> QED
  BY <1>1, <1>2, <1>3, <1>4, <1>5, <1>6

LEMMA HalfIs ==
  ASSUME NEW m \in Nat
  PROVE  m \div 2 \in Nat /\ m \div 2 <= m
<1>1. m \div 2 \in Nat
  OBVIOUS
<1>2. m \div 2 <= m
  OBVIOUS
<1> QED
  BY <1>1, <1>2

LEMMA LensAreNat == \A l \in Lens : l \in Nat
<1> SUFFICES ASSUME NEW l \in Lens PROVE l \in Nat
  OBVIOUS
<1>1. Lens \subseteq 0..Modulus - 1 /\ Modulus \in Nat
  BY IpLensAssumption
<1>2. l \in 0..Modulus - 1
  BY <1>1, Zenon
<1> QED
  BY <1>2

LEMMA CountsAre ==
  ASSUME NEW l \in Nat
  PROVE  /\ CountOf(l) \in Nat /\ CountOf(l) >= LenField /\ CountOf(l) > 0
         /\ LenField < l /\ l < Modulus \div 2 => Honest(l)
         /\ Honest(l) => CountOf(l) = l /\ l > LenField
BY IpLensAssumption DEF CountOf, Honest

LEMMA BeforeIs ==
  ASSUME NEW ls \in [1..3 -> Lens]
  PROVE  /\ \A k \in 1..4 : Before(ls, k) \in Nat
         /\ \A k \in 1..3 : /\ Before(ls, k + 1) = Before(ls, k) + CountOf(ls[k])
                            /\ ls[k] \in Nat
                            /\ CountOf(ls[k]) \in Nat /\ CountOf(ls[k]) > 0
                            /\ Honest(ls[k]) => CountOf(ls[k]) = ls[k] /\ ls[k] > LenField
         /\ \A j \in 1..4, k \in 1..4 : j < k => Before(ls, j) < Before(ls, k)
<1>0. ASSUME NEW k \in 1..3 PROVE ls[k] \in Nat
  <2>1. ls[k] \in Lens
    OBVIOUS
  <2> QED
    BY <2>1, LensAreNat
<1>1. \A k \in 1..3 : /\ CountOf(ls[k]) \in Nat /\ CountOf(ls[k]) > 0
                      /\ Honest(ls[k]) => CountOf(ls[k]) = ls[k] /\ ls[k] > LenField
  BY <1>0, CountsAre
<1>2. /\ Before(ls, 1) = 0 /\ Before(ls, 2) = CountOf(ls[1])
      /\ Before(ls, 3) = CountOf(ls[1]) + CountOf(ls[2])
      /\ Before(ls, 4) = CountOf(ls[1]) + CountOf(ls[2]) + CountOf(ls[3])
  BY DEF Before
<1> DEFINE x == CountOf(ls[1])
           y == CountOf(ls[2])
           z == CountOf(ls[3])
<1>3. /\ x \in Nat \ {0} /\ y \in Nat \ {0} /\ z \in Nat \ {0}
      /\ Before(ls, 1) = 0 /\ Before(ls, 2) = x
      /\ Before(ls, 3) = x + y /\ Before(ls, 4) = x + y + z
  <2>1. 1 \in 1..3 /\ 2 \in 1..3 /\ 3 \in 1..3
    OBVIOUS
  <2> QED
    BY <1>1, <1>2, <2>1
<1>4. ASSUME NEW k \in 1..3 PROVE Before(ls, k + 1) = Before(ls, k) + CountOf(ls[k])
  <2>1. k = 1 \/ k = 2 \/ k = 3
    OBVIOUS
  <2>2. CASE k = 1
    <3>1. Before(ls, 2) = Before(ls, 1) + x
      BY <1>3
    <3> QED
      BY <2>2, <3>1
  <2>3. CASE k = 2
    <3>1. Before(ls, 3) = Before(ls, 2) + y
      BY <1>3
    <3> QED
      BY <2>3, <3>1
  <2>4. CASE k = 3
    <3>1. Before(ls, 4) = Before(ls, 3) + z
      BY <1>3
    <3> QED
      BY <2>4, <3>1
  <2> QED
    BY <2>1, <2>2, <2>3, <2>4
<1> HIDE DEF x, y, z
<1>5. \A k \in 1..4 : k = 1 \/ k = 2 \/ k = 3 \/ k = 4
  OBVIOUS
<1>6. \A k \in 1..4 : Before(ls, k) \in Nat
  BY <1>3, <1>5
<1>7. \A j \in 1..4, k \in 1..4 : j < k => Before(ls, j) < Before(ls, k)
  BY <1>3, <1>5
<1> QED
  BY <1>0, <1>1, <1>4, <1>6, <1>7

LEMMA TakeMoves ==
  ASSUME data \in Seq(Unit), pipe \in Seq(Unit), NEW n \in 1..Len(pipe), Take(n)
  PROVE  /\ data' \in Seq(Unit) /\ Len(data') = Len(data) + n
         /\ pipe' \in Seq(Unit) /\ Len(pipe') = Len(pipe) - n
         /\ \A i \in 1..Len(data') :
              data'[i] = IF i <= Len(data) THEN data[i] ELSE pipe[i - Len(data)]
         /\ \A i \in 1..Len(pipe') : pipe'[i] = pipe[n + i]
<1> DEFINE s == SubSeq(pipe, 1, n)
           t == SubSeq(pipe, n + 1, Len(pipe))
<1>1. /\ Len(data) \in Nat /\ Len(pipe) \in Nat /\ n \in Nat
      /\ \A i \in 1..Len(pipe) : pipe[i] \in Unit
  OBVIOUS
<1>2. s \in Seq(Unit) /\ Len(s) = n /\ \A i \in 1..n : s[i] = pipe[i]
  BY <1>1, SubSeqProperties
<1>3. /\ t \in Seq(Unit) /\ Len(t) = Len(pipe) - n
      /\ \A i \in 1..Len(pipe) - n : t[i] = pipe[n + i]
  BY <1>1, SubSeqProperties
<1>4. data' = data \o s /\ pipe' = t
  BY DEF Take
<1> HIDE DEF s, t
<1>5. /\ data' \in Seq(Unit) /\ Len(data') = Len(data) + n
      /\ \A i \in 1..Len(data) + n :
           data'[i] = IF i <= Len(data) THEN data[i] ELSE s[i - Len(data)]
  <2>1. /\ data \o s \in Seq(Unit) /\ Len(data \o s) = Len(data) + Len(s)
        /\ \A i \in 1..Len(data) + Len(s) :
             (data \o s)[i] = IF i <= Len(data) THEN data[i] ELSE s[i - Len(data)]
    BY <1>2, ConcatProperties
  <2> QED
    BY <1>2, <1>4, <2>1
<1>6. \A i \in 1..Len(data') :
        data'[i] = IF i <= Len(data) THEN data[i] ELSE pipe[i - Len(data)]
  <2> TAKE i \in 1..Len(data')
  <2>1. i \in 1..Len(data) + n
    BY <1>5
  <2>2. CASE i <= Len(data)
    BY <1>5, <2>1, <2>2
  <2>3. CASE ~(i <= Len(data))
    <3>1. i - Len(data) \in 1..n
      BY <1>1, <2>1, <2>3
    <3> QED
      BY <1>2, <1>5, <2>1, <2>3, <3>1
  <2> QED
    BY <2>2, <2>3
<1>7. pipe' \in Seq(Unit) /\ Len(pipe') = Len(pipe) - n
  BY <1>3, <1>4
<1>8. \A i \in 1..Len(pipe') : pipe'[i] = pipe[n + i]
  BY <1>3, <1>4
<1> QED
  BY <1>5, <1>6, <1>7, <1>8

\* What is read moves from one part of the stream to the other.
LEMMA FlowTaken ==
  ASSUME data \in Seq(Unit), pipe \in Seq(Unit),
         NEW m \in 1..Len(pipe), Take(m), UNCHANGED <<call, plan, peer>>,
         NEW a \in Answers, NEW n \in 0..3, NEW ls \in [1..3 -> Lens], Flow(a, n, ls)
  PROVE  /\ Flow(a, n, ls)'
         /\ \A i \in 1..Len(data') : Placed(data'[i], i, a, n, ls)
<1>1. /\ data' \in Seq(Unit) /\ Len(data') = Len(data) + m
      /\ pipe' \in Seq(Unit) /\ Len(pipe') = Len(pipe) - m
      /\ \A i \in 1..Len(data') :
           data'[i] = IF i <= Len(data) THEN data[i] ELSE pipe[i - Len(data)]
      /\ \A i \in 1..Len(pipe') : pipe'[i] = pipe[m + i]
  BY TakeMoves
<1>2. Len(data) \in Nat /\ Len(pipe) \in Nat
  OBVIOUS
<1>3. ASSUME NEW i \in 1..Len(data') PROVE Placed(data[i], i, a, n, ls)'
  <2>1. CASE i <= Len(data)
    <3>1. i \in 1..Len(data) /\ data'[i] = data[i]
      BY <1>1, <1>2, <2>1
    <3>2. Placed(data[i], i, a, n, ls)
      BY <3>1 DEF Flow
    <3> QED
      BY <3>1, <3>2 DEF Placed, Sent
  <2>2. CASE ~(i <= Len(data))
    <3> DEFINE j == i - Len(data)
    <3>1. j \in 1..Len(pipe) /\ data'[i] = pipe[j] /\ Len(data) + j = i
      BY <1>1, <1>2, <2>2
    <3>2. Placed(pipe[j], Len(data) + j, a, n, ls)
      BY <3>1 DEF Flow
    <3> HIDE DEF j
    <3> QED
      BY <3>1, <3>2 DEF Placed, Sent
  <2> QED
    BY <2>1, <2>2
<1>4. ASSUME NEW i \in 1..Len(pipe') PROVE Placed(pipe[i], Len(data) + i, a, n, ls)'
  <2> DEFINE j == m + i
  <2>1. /\ Len(data') = Len(data) + m /\ Len(pipe') = Len(pipe) - m
        /\ Len(data) \in Nat /\ Len(pipe) \in Nat /\ m \in Nat
    BY <1>1, <1>2
  <2>2. j \in 1..Len(pipe) /\ Len(data) + j = Len(data') + i
    BY <2>1
  <2>3. pipe'[i] = pipe[j]
    BY <1>1
  <2>4. Placed(pipe[j], Len(data) + j, a, n, ls)
    BY <2>2 DEF Flow
  <2> HIDE DEF j
  <2> QED
    BY <2>2, <2>3, <2>4 DEF Placed, Sent
<1>5. Len(data') + Len(pipe') = Len(data) + Len(pipe)
  BY <1>1, <1>2
<1>6. \A i \in 1..Len(data') : Placed(data'[i], i, a, n, ls)
  BY <1>3 DEF Placed, Sent
<1> QED
  BY <1>3, <1>4, <1>5, <1>6 DEF Flow

\* What the host is about to read is of the packet it reads, which was sent.
LEMMA NextUnit ==
  ASSUME NEW a \in Answers, NEW n \in 0..3, NEW ls \in [1..3 -> Lens], Flow(a, n, ls),
         data \in Seq(Unit), pipe \in Seq(Unit), pipe # <<>>,
         NEW k \in 1..n + 1, Before(ls, k) <= Len(data)
  PROVE  k \in 1..n /\ k \in 1..3
<1>1. Len(pipe) \in Nat \ {0} /\ Len(data) \in Nat
  OBVIOUS
<1>2. Len(data) + Len(pipe) <= Before(ls, n + 1)
  BY DEF Flow
<1>3. Before(ls, n + 1) \in Nat /\ Before(ls, k) \in Nat
  <2>1. n + 1 \in 1..4 /\ k \in 1..4
    OBVIOUS
  <2> QED
    BY <2>1, BeforeIs
<1>4. k # n + 1
  BY <1>1, <1>2, <1>3
<1> QED
  BY <1>4

\* The packet at an offset of r->data, once its first unit is there.
LEMMA HereIs ==
  ASSUME NEW a \in Answers, NEW n \in 0..3, NEW ls \in [1..3 -> Lens], NEW d \in Seq(Unit),
         \A i \in 1..Len(d) : Placed(d[i], i, a, n, ls),
         NEW k \in 1..n, Before(ls, k) < Len(d)
  PROVE  d[Before(ls, k) + 1].of = Sent(a, ls, k)
<1> DEFINE b == Before(ls, k)
<1>1. b \in Nat /\ Before(ls, k + 1) = b + CountOf(ls[k])
      /\ CountOf(ls[k]) \in Nat /\ CountOf(ls[k]) > 0
  <2>1. k \in 1..3 /\ k \in 1..4
    OBVIOUS
  <2> QED
    BY <2>1, BeforeIs
<1>2. b + 1 \in 1..Len(d) /\ b < b + 1 /\ b + 1 <= Before(ls, k + 1)
  BY <1>1
<1>3. Placed(d[b + 1], b + 1, a, n, ls)
  BY <1>2
<1> QED
  BY <1>2, <1>3 DEF Placed

-----------------------------------------------------------------------------
(* The steps.                                                              *)

LEMMA InitIInv == Init => IInv
<1> SUFFICES ASSUME Init PROVE IInv
  OBVIOUS
<1> USE DEF Init
<1>1. Buffer \in Nat /\ LenField \in Nat /\ Buffer > LenField /\ WaitDefault \in Nat
      /\ MaxCalls \in Nat /\ MaxFails \in Nat
  BY IpBufferAssumption, IpWaitAssumption, IpLensAssumption, IpCameraAssumption
<1>2. TypeOK
  BY <1>1 DEF TypeOK
<1>3. InStep /\ Quiet /\ Verdicts /\ Waits /\ Roomy
  BY <1>1 DEF InStep, Quiet, Verdicts, Waits, Roomy
<1> QED
  BY <1>2, <1>3 DEF IInv, Steady, Always

LEMMA Typed ==
  ASSUME TypeOK
  PROVE  /\ data \in Seq(Unit) /\ pipe \in Seq(Unit) /\ Len(data) \in Nat /\ Len(pipe) \in Nat
         /\ of \in Nat /\ of <= Len(data) /\ size \in Nat /\ wait \in Nat /\ wanted \in Nat
         /\ fails \in Nat /\ call \in Nat /\ stage \in 1..3
         /\ LenField \in Nat \ {0} /\ Buffer \in Nat /\ Extra \in Nat /\ WaitDefault \in Nat
         /\ claims \in {"sound", "odd"}
         /\ Buffer > LenField /\ MaxFails \in Nat /\ MaxCalls \in Nat
<1>1. MaxCalls \in Nat /\ MaxFails \in Nat
  BY IpCameraAssumption
<1> QED
  BY <1>1, IpBufferAssumption, IpWaitAssumption, IpLensAssumption DEF TypeOK

\* Where the host has given up nothing but the types and the counts remain.
LEMMA GivenUp ==
  ASSUME Steady, pc' = "dead", verdict' \in {"ignored", "ioerr", "nomem"}, claims' = claims,
         verdict' = "ignored" /\ data' = <<>> => fails' = wanted',
         size' = size, call' = call, stage' = stage, of' = of, wanted' = wanted,
         wait' \in Nat, fails' \in 0..MaxFails,
         data' \in Seq(Unit), Len(data) <= Len(data'), pipe' \in Seq(Unit),
         plan' = plan, peer' = peer
  PROVE  Steady'
<1>1. Len(data') \in Nat /\ of \in 0..Len(data')
  <2>1. Len(data') \in Nat
    OBVIOUS
  <2> QED
    BY <2>1, Typed DEF Steady, Always
<1>2. TypeOK'
  BY <1>1 DEF Steady, Always, TypeOK
<1>3. InStep' /\ Quiet' /\ Verdicts' /\ Waits' /\ Roomy'
  BY DEF Steady, Always, InStep, Quiet, Verdicts, Waits, Roomy
<1> QED
  BY <1>2, <1>3 DEF Steady, Always

LEMMA FlowKept ==
  ASSUME NEW a, NEW n, NEW ls, Flow(a, n, ls), UNCHANGED <<data, pipe, plan, call>>,
         peer # "gone" \/ peer' = "gone"
  PROVE  Flow(a, n, ls)'
  BY DEF Flow, Placed, Sent

\* A step that moves nothing.
LEMMA InStepKept ==
  ASSUME InStep, UNCHANGED <<pc, stage, of, size, data, pipe, plan, call>>,
         peer # "gone" \/ peer' = "gone"
  PROVE  InStep'
<1> SUFFICES ASSUME pc # "dead", call > 0
             PROVE  InStep'
  BY DEF InStep
<1>1. PICK a \in Answers, n \in 0..3, ls \in [1..3 -> Lens] :
        Flow(a, n, ls) /\ Reading(a, n, ls)
  BY DEF InStep
<1>2. Flow(a, n, ls)'
  BY <1>1, FlowKept
<1>3. Reading(a, n, ls)'
  BY <1>1 DEF Reading
<1> QED
  BY <1>2, <1>3 DEF InStep

LEMMA ReceiveKeeps == ASSUME Steady, Receive PROVE Steady'
<1>0. /\ TypeOK /\ call \in Nat /\ size \in Nat /\ MaxCalls \in Nat /\ MaxFails \in Nat
      /\ LenField \in Nat /\ Buffer \in Nat /\ Buffer > LenField
  <2>1. TypeOK
    BY DEF Steady, Always
  <2> QED
    BY <2>1, Typed
<1>1. /\ pc = "idle" /\ call < MaxCalls /\ call' = call + 1 /\ stage' = 1
      /\ fails' = 0 /\ data' = <<>> /\ of' = 0 /\ verdict' = "more" /\ pc' = "length"
      /\ plan' \in Answers
      /\ UNCHANGED <<size, claims, pipe, peer>>
  BY DEF Receive
<1>2. wanted' \in Nat /\ wait' = wanted'
  BY Typed, IpWaitAssumption DEF Receive, Steady, Always
<1>3. pipe' = <<>> /\ Len(data') = 0 /\ Len(pipe') = 0
  BY <1>1 DEF Steady, Always, Quiet
<1>4. PICK l \in Lens : TRUE
  BY IpLensAssumption
<1> DEFINE ls == [k \in 1..3 |-> l]
<1>5. ls \in [1..3 -> Lens] /\ Before(ls, 1) = 0
  BY DEF Before
<1> HIDE DEF ls
<1> PICK a \in Answers : plan' = a
  BY <1>1
<1>6. a \in Seq(Types) /\ Len(a) \in 1..3
  BY AnswersAre
<1>7. Flow(a, 0, ls)'
  BY <1>3, <1>5, <1>6 DEF Flow
<1>8. Reading(a, 0, ls)'
  BY <1>1, <1>3, <1>5 DEF Reading
<1>9. InStep'
  BY <1>1, <1>5, <1>7, <1>8 DEF InStep
<1>10. TypeOK'
  <2>1. call' \in 0..MaxCalls /\ fails' \in 0..MaxFails /\ of' \in 0..Len(data')
    BY <1>0, <1>1, <1>3
  <2>2. data' \in Seq(Unit) /\ plan' \in Seq(Types)
    BY <1>1, <1>6
  <2>3. /\ size' \in Nat /\ pipe' \in Seq(Unit)
        /\ peer' \in {"there", "silent", "gone"} /\ claims' \in {"sound", "odd"}
    BY <1>1 DEF Steady, Always, TypeOK
  <2>4. wanted' \in Nat /\ wait' \in Nat
    BY <1>2
  <2>5. stage' \in 1..3 /\ pc' \in {"idle", "length", "body", "dead"}
        /\ verdict' \in {"more", "ok", "ignored", "ioerr", "nomem", "overrun"}
    BY <1>1
  <2> QED
    BY <2>1, <2>2, <2>3, <2>4, <2>5 DEF TypeOK
<1>11. Quiet' /\ Verdicts' /\ Waits'
  <2>1. call' \in Nat /\ call' > 0
    BY <1>0, <1>1
  <2>2. Quiet' /\ Verdicts'
    <3>1. pc' = "length" /\ verdict' = "more"
      BY <1>1
    <3> QED
      BY <2>1, <3>1 DEF Quiet, Verdicts
  <2>3. fails' + wait' = wanted'
    <3>1. \A w \in Nat : 0 + w = w
      OBVIOUS
    <3>2. fails' = 0 /\ wait' = wanted' /\ wanted' \in Nat
      BY <1>1, <1>2
    <3> QED
      BY <3>1, <3>2
  <2>4. Waits'
    BY <1>1, <2>3 DEF Waits
  <2> QED
    BY <2>2, <2>4
<1>12. Roomy'
  BY <1>0, <1>1, <1>3 DEF Steady, Roomy
<1> QED
  BY <1>9, <1>10, <1>11, <1>12 DEF Steady, Always

LEMMA ReadLengthKeeps ==
  ASSUME Steady, ReadLength, claims = "sound", claims' = "sound"
  PROVE  Steady'
<1> DEFINE m == IF Len(pipe) < LenField THEN Len(pipe) ELSE LenField
<1>1. /\ pc = "length" /\ wait > 0 /\ pipe # <<>> /\ wait' = WaitDefault /\ Take(m)
      /\ UNCHANGED <<call, wanted, fails, plan, peer>>
  BY DEF ReadLength
<1>2. data \in Seq(Unit) /\ pipe \in Seq(Unit) /\ TypeOK
  BY Typed DEF Steady, Always
<1>3. m \in 1..Len(pipe) /\ m \in Nat
  <2>1. Len(pipe) \in Nat \ {0} /\ LenField \in Nat \ {0}
    BY <1>1, <1>2, IpLensAssumption
  <2> QED
    BY <2>1
<1>4. /\ data' \in Seq(Unit) /\ Len(data') = Len(data) + m
      /\ pipe' \in Seq(Unit) /\ Len(pipe') = Len(pipe) - m
  BY <1>1, <1>2, <1>3, TakeMoves
<1>r. /\ of \in Nat /\ size \in Nat /\ Len(data) \in Nat
      /\ LenField \in Nat \ {0} /\ Extra \in Nat /\ WaitDefault \in Nat
  BY <1>2, Typed
<1>s. Len(data') <= size
  <2>1. Len(data) + LenField <= size /\ m <= LenField
    BY <1>1, <1>r DEF Steady, Roomy
  <2> QED
    BY <1>3, <1>4, <1>r, <2>1
<1>5. CASE Len(pipe) < LenField
  <2>1. EndReceive("ioerr") /\ size' = size
    BY <1>5, <1>r, <1>s DEF ReadLength
  <2>2. pc' = "dead" /\ verdict' = "ioerr" /\ stage' = stage /\ of' = of
    BY <2>1 DEF EndReceive
  <2>3. Len(data) <= Len(data') /\ wait' \in Nat /\ fails' \in 0..MaxFails
    BY <1>1, <1>2, <1>3, <1>4, Typed DEF TypeOK
  <2> QED
    BY <1>1, <1>4, <2>1, <2>2, <2>3, GivenUp
<1>6. CASE ~(Len(pipe) < LenField)
  <2>1. /\ TakeLength(Here(data').len) /\ m = LenField
        /\ claims' = IF Sound(Here(data').len) THEN claims ELSE "odd"
    BY <1>6, <1>r, <1>s DEF ReadLength
  <2>s. Sound(Here(data').len)
    BY <2>1
  <2>2. PICK a \in Answers, n \in 0..3, ls \in [1..3 -> Lens] :
          Flow(a, n, ls) /\ Reading(a, n, ls)
    BY <1>1 DEF Steady, Always, InStep, Verdicts
  <2>3. /\ Flow(a, n, ls)'
        /\ \A i \in 1..Len(data') : Placed(data'[i], i, a, n, ls)
    BY <1>1, <1>2, <1>3, <2>2, FlowTaken
  <2>4. of = Before(ls, stage) /\ stage <= n + 1 /\ Len(data) = of
    BY <1>1, <2>2 DEF Reading
  <2>5. stage \in 1..n /\ stage \in 1..3
    <3>1. stage \in 1..n + 1 /\ Before(ls, stage) <= Len(data)
      BY <1>2, <2>4, Typed
    <3> QED
      BY <1>1, <1>2, <2>2, <3>1, NextUnit
  <2> HIDE DEF m
  <2>0. /\ of \in Nat /\ size \in Nat /\ Len(data) \in Nat
        /\ LenField \in Nat \ {0} /\ Extra \in Nat
    BY <1>r
  <2>6. Len(data') = of + LenField /\ of < of + LenField
    BY <1>4, <2>0, <2>1, <2>4
  <2>7. Here(data').len = ls[stage] /\ ls[stage] \in Nat /\ ls[stage] > LenField
        /\ Honest(ls[stage]) /\ CountOf(ls[stage]) = ls[stage]
        /\ of + LenField + ls[stage] + Extra < Modulus \div 2
    <3>0. Before(ls, stage) < Len(data')
      BY <2>0, <2>4, <2>6
    <3>1. data'[Before(ls, stage) + 1].of = Sent(a, ls, stage)
      BY <1>4, <2>3, <2>5, <3>0, HereIs
    <3>2. Here(data').len = ls[stage]
      BY <2>4, <3>1 DEF Here, Sent
    <3>3. ls[stage] \in Nat
      BY <2>5, BeforeIs
    <3>4. ls[stage] > LenField /\ of + LenField + ls[stage] + Extra < Modulus \div 2
      BY <2>s, <3>2 DEF Sound
    <3>5. LenField < ls[stage] /\ ls[stage] < Modulus \div 2
      BY <2>0, <3>3, <3>4, IpLensAssumption
    <3> QED
      BY <3>2, <3>3, <3>4, <3>5, CountsAre
  <2> DEFINE need == of + LenField + ls[stage]
  <2>w. need \in Nat /\ Wrapped(need) = need
    <3>1. Modulus \div 2 <= Modulus /\ Modulus \div 2 \in Nat /\ Modulus \in Nat
      <4>1. Modulus \in Nat
        BY IpLensAssumption
      <4> QED
        BY <4>1, HalfIs, Zenon
    <3>2. \A o, f, l, e, h \in Nat :
            o + f + l + e < h => o + f + l \in Nat /\ o + f + l < h
      OBVIOUS
    <3>3. need \in Nat /\ need < Modulus \div 2
      BY <2>0, <2>7, <3>1, <3>2
    <3>4. need < Modulus
      <4>1. \A x, h, y \in Nat : x < h /\ h <= y => x < y
        OBVIOUS
      <4> HIDE DEF need
      <4> QED
        BY <3>1, <3>3, <4>1
    <3> HIDE DEF need
    <3> QED
      BY <3>1, <3>3, <3>4 DEF Wrapped
  <2>t. \/ /\ pc' = "body" /\ size' = Room(need)
           /\ UNCHANGED <<stage, of, verdict>>
        \/ EndReceive("nomem") /\ UNCHANGED size
    <3>1. ls[stage] # LenField
      BY <2>0, <2>7
    <3>2. TakeLength(ls[stage])
      BY <2>1, <2>7
    <3> HIDE DEF need
    <3>3. Wrapped(of + LenField + ls[stage]) = need
      BY <2>w DEF need
    <3> QED
      BY <3>1, <3>2, <3>3 DEF TakeLength
  <2>8. CASE EndReceive("nomem") /\ UNCHANGED size
    <3>1. pc' = "dead" /\ verdict' = "nomem" /\ stage' = stage /\ of' = of
      BY <2>8 DEF EndReceive
    <3>2. Len(data) <= Len(data') /\ wait' \in Nat /\ fails' \in 0..MaxFails
      BY <1>1, <1>2, <1>3, <1>4, <1>r DEF TypeOK
    <3> QED
      BY <1>1, <1>4, <2>8, <3>1, <3>2, GivenUp
  <2>9. CASE /\ pc' = "body" /\ size' = Room(need)
             /\ UNCHANGED <<stage, of, verdict>>
    <3>1. size' \in Nat /\ size <= size' /\ of + LenField + ls[stage] <= size'
      BY <2>0, <2>9, <2>w DEF Room
    <3>2. Reading(a, n, ls)'
      <4>1. (stage > 1 => a[1] = "start") /\ (stage > 2 => a[2] = "end")
            /\ \A k \in 1..3 : k < stage => Honest(ls[k])
        BY <1>1, <2>2 DEF Reading
      <4>2. Len(data') < of + ls[stage]
        BY <2>0, <2>6, <2>7
      <4>3. stage' = stage /\ of' = of /\ pc' = "body"
        BY <2>9
      <4>4. of = Before(ls, stage) /\ stage <= n /\ of + LenField <= Len(data')
        BY <2>0, <2>4, <2>5, <2>6
      <4> QED
        BY <2>7, <3>1, <4>1, <4>2, <4>3, <4>4 DEF Reading
    <3>3. InStep'
      BY <2>3, <3>2 DEF InStep
    <3>4. TypeOK'
      <4>1. of' \in 0..Len(data') /\ wait' \in Nat
        BY <1>1, <1>r, <2>6, <2>9
      <4>2. /\ pc' = "body" /\ stage' = stage /\ verdict' = verdict
        BY <2>9
      <4> QED
        BY <1>1, <1>2, <1>4, <3>1, <4>1, <4>2 DEF TypeOK
    <3>5. Quiet' /\ Verdicts' /\ Waits'
      BY <1>1, <2>9 DEF Steady, Always, Quiet, Verdicts, Waits
    <3>6. Roomy'
      <4>1. size >= Buffer /\ Buffer \in Nat /\ size \in Nat /\ verdict # "overrun"
        BY <1>2, Typed DEF Steady, Roomy
      <4>2. pc' = "body" /\ verdict' = verdict
        BY <2>9
      <4>3. size' >= Buffer
        BY <3>1, <4>1
      <4> QED
        BY <4>1, <4>2, <4>3 DEF Roomy
    <3> QED
      BY <3>3, <3>4, <3>5, <3>6 DEF Steady, Always
  <2> QED
    BY <2>8, <2>9, <2>t
<1> QED
  BY <1>5, <1>6

\* A read of the length field without bytes that is tried again.
LEMMA TriedAgain ==
  ASSUME Steady, pc = "length", wait > 1, wait' = wait - 1, fails' \in 0..MaxFails,
         fails' = fails + 1 \/ peer = "gone",
         UNCHANGED <<pc, stage, of, verdict, call, wanted, data, size, claims, plan, pipe, peer>>
  PROVE  Steady'
<1>1. wait \in Nat /\ fails \in Nat /\ wanted \in Nat
  BY Typed DEF Steady, Always
<1>2. TypeOK'
  <2>1. wait' \in Nat
    BY <1>1
  <2> QED
    BY <2>1 DEF Steady, Always, TypeOK
<1>3. InStep'
  BY InStepKept DEF Steady, Always
<1>4. Waits'
  <2>1. CASE fails' = fails + 1
    <3>1. fails' + wait' = fails + wait
      BY <1>1, <2>1
    <3>2. verdict # "ignored"
      BY DEF Steady, Always, Verdicts
    <3> QED
      BY <3>1, <3>2 DEF Steady, Always, Waits
  <2>2. CASE peer = "gone"
    <3>1. verdict # "ignored"
      BY DEF Steady, Always, Verdicts
    <3> QED
      BY <2>2, <3>1 DEF Waits
  <2> QED
    BY <2>1, <2>2
<1>5. Quiet' /\ Verdicts' /\ Roomy'
  BY DEF Steady, Always, Quiet, Verdicts, Roomy
<1> QED
  BY <1>2, <1>3, <1>4, <1>5 DEF Steady, Always

LEMMA LengthFailsKeeps == ASSUME Steady, LengthFails PROVE Steady'
<1>1. /\ pc = "length" /\ wait > 0 /\ peer # "gone" /\ fails < MaxFails
      /\ NoLength("ignored") /\ fails' = fails + 1
      /\ UNCHANGED <<call, wanted, data, size, claims, plan, pipe, peer>>
  BY DEF LengthFails, MayFail
<1>2. /\ wait \in Nat /\ fails \in Nat /\ wanted \in Nat /\ MaxFails \in Nat
      /\ data \in Seq(Unit) /\ pipe \in Seq(Unit) /\ Len(data) \in Nat /\ WaitDefault \in Nat
  BY Typed DEF Steady, Always
<1>3. fails' \in 0..MaxFails
  BY <1>1, <1>2
<1>4. CASE wait > 1
  <2>1. wait' = wait - 1 /\ UNCHANGED <<pc, stage, of, verdict>>
    BY <1>1, <1>4 DEF NoLength
  <2> QED
    BY <1>1, <1>3, <1>4, <2>1, TriedAgain
<1>5. CASE ~(wait > 1)
  <2>1. wait' = WaitDefault /\ EndReceive("ignored")
    BY <1>1, <1>5 DEF NoLength
  <2>2. verdict' = "ignored" /\ pc' = "dead" /\ stage' = stage /\ of' = of
    BY <2>1 DEF EndReceive
  <2>3. wait = 1
    BY <1>1, <1>2, <1>5
  <2>4. data = <<>> => fails + 1 = wanted
    BY <1>1, <1>2, <2>3 DEF Steady, Always, Waits
  <2>5. data' = <<>> => fails' = wanted'
    BY <1>1, <2>4
  <2>6. Len(data) <= Len(data') /\ data' \in Seq(Unit) /\ pipe' \in Seq(Unit)
    BY <1>1, <1>2
  <2> QED
    BY <1>1, <1>2, <1>3, <2>1, <2>2, <2>5, <2>6, GivenUp
<1> QED
  BY <1>4, <1>5

LEMMA LengthGoneKeeps == ASSUME Steady, LengthGone PROVE Steady'
<1>1. /\ pc = "length" /\ wait > 0 /\ peer = "gone" /\ NoLength("ioerr")
      /\ UNCHANGED <<call, wanted, fails, data, size, claims, plan, pipe, peer>>
  BY DEF LengthGone, Gone
<1>2. /\ fails \in 0..MaxFails /\ WaitDefault \in Nat
      /\ data \in Seq(Unit) /\ pipe \in Seq(Unit) /\ Len(data) \in Nat
  BY Typed DEF Steady, Always, TypeOK
<1>3. CASE wait > 1
  <2>1. wait' = wait - 1 /\ UNCHANGED <<pc, stage, of, verdict>>
    BY <1>1, <1>3 DEF NoLength
  <2> QED
    BY <1>1, <1>2, <1>3, <2>1, TriedAgain
<1>4. CASE ~(wait > 1)
  <2>1. wait' = WaitDefault /\ EndReceive("ioerr")
    BY <1>1, <1>4 DEF NoLength
  <2>2. verdict' = "ioerr" /\ pc' = "dead" /\ stage' = stage /\ of' = of
    BY <2>1 DEF EndReceive
  <2>3. Len(data) <= Len(data') /\ data' \in Seq(Unit) /\ pipe' \in Seq(Unit)
    BY <1>1, <1>2
  <2> QED
    BY <1>1, <1>2, <2>1, <2>2, <2>3, GivenUp
<1> QED
  BY <1>3, <1>4

LEMMA LengthUnreadKeeps == ASSUME Steady, LengthUnread PROVE Steady'
<1>1. /\ wait' = WaitDefault /\ EndReceive("ioerr")
      /\ UNCHANGED <<call, wanted, fails, data, size, claims, plan, pipe, peer>>
  BY DEF LengthUnread
<1>2. /\ fails \in 0..MaxFails /\ WaitDefault \in Nat
      /\ data \in Seq(Unit) /\ pipe \in Seq(Unit) /\ Len(data) \in Nat
  BY Typed DEF Steady, Always, TypeOK
<1>3. verdict' = "ioerr" /\ pc' = "dead" /\ stage' = stage /\ of' = of
  BY <1>1 DEF EndReceive
<1>4. Len(data) <= Len(data') /\ data' \in Seq(Unit) /\ pipe' \in Seq(Unit)
  BY <1>1, <1>2
<1> QED
  BY <1>1, <1>2, <1>3, <1>4, GivenUp

LEMMA BodyFailsKeeps == ASSUME Steady, BodyFails PROVE Steady'
<1>1. /\ fails < MaxFails /\ EndReceive("ioerr") /\ fails' = fails + 1
      /\ UNCHANGED <<call, wanted, wait, data, size, claims, plan, pipe, peer>>
  BY DEF BodyFails
<1>2. /\ fails \in Nat /\ MaxFails \in Nat /\ wait \in Nat
      /\ data \in Seq(Unit) /\ pipe \in Seq(Unit) /\ Len(data) \in Nat
  BY Typed DEF Steady, Always
<1>3. verdict' = "ioerr" /\ pc' = "dead" /\ stage' = stage /\ of' = of
  BY <1>1 DEF EndReceive
<1>4. Len(data) <= Len(data') /\ data' \in Seq(Unit) /\ pipe' \in Seq(Unit)
  BY <1>1, <1>2
<1>5. fails' \in 0..MaxFails /\ wait' \in Nat
  BY <1>1, <1>2
<1> QED
  BY <1>1, <1>3, <1>4, <1>5, GivenUp

LEMMA BodyRefusedKeeps == ASSUME Steady, BodyRefused PROVE Steady'
<1>1. /\ EndReceive("ioerr")
      /\ UNCHANGED <<call, wanted, wait, fails, data, size, claims, plan, pipe, peer>>
  BY DEF BodyRefused
<1>2. /\ fails \in 0..MaxFails /\ wait \in Nat
      /\ data \in Seq(Unit) /\ pipe \in Seq(Unit) /\ Len(data) \in Nat
  BY Typed DEF Steady, Always, TypeOK
<1>3. verdict' = "ioerr" /\ pc' = "dead" /\ stage' = stage /\ of' = of
  BY <1>1 DEF EndReceive
<1>4. Len(data) <= Len(data') /\ data' \in Seq(Unit) /\ pipe' \in Seq(Unit)
  BY <1>1, <1>2
<1> QED
  BY <1>1, <1>2, <1>3, <1>4, GivenUp

LEMMA StandsStill == ASSUME Steady, UNCHANGED vars PROVE Steady'
<1> USE DEF vars
<1>1. TypeOK' /\ Quiet' /\ Verdicts' /\ Waits' /\ Roomy'
  BY DEF Steady, Always, TypeOK, Quiet, Verdicts, Waits, Roomy
<1>2. InStep'
  BY InStepKept DEF Steady, Always
<1> QED
  BY <1>1, <1>2 DEF Steady, Always

LEMMA StopKeeps == ASSUME Steady, Stop PROVE Steady'
<1> USE DEF Stop, host
<1>1. TypeOK' /\ Quiet' /\ Verdicts' /\ Waits' /\ Roomy'
  BY DEF Steady, Always, TypeOK, Quiet, Verdicts, Waits, Roomy
<1>2. InStep'
  BY InStepKept DEF Steady, Always
<1> QED
  BY <1>1, <1>2 DEF Steady, Always

LEMMA HangUpKeeps == ASSUME Steady, HangUp PROVE Steady'
<1>1. peer' = "gone" /\ UNCHANGED <<host, plan>>
  BY DEF HangUp
<1>2. PICK c \in 0..Len(pipe) : pipe' = SubSeq(pipe, 1, c)
  BY DEF HangUp
<1>3. pipe \in Seq(Unit) /\ Len(pipe) \in Nat /\ Len(data) \in Nat
  BY Typed DEF Steady, Always
<1>4. /\ pipe' \in Seq(Unit) /\ Len(pipe') = c
      /\ \A i \in 1..c : pipe'[i] = pipe[i]
  BY <1>2, <1>3, SubSeqProperties
<1>5. Len(pipe') \in Nat /\ Len(pipe') <= Len(pipe)
  BY <1>3, <1>4
<1>6. TypeOK'
  BY <1>1, <1>4 DEF Steady, Always, TypeOK, host
<1>7. InStep'
  <2> SUFFICES ASSUME pc' # "dead", call' > 0 PROVE InStep'
    BY DEF InStep
  <2>1. PICK a \in Answers, n \in 0..3, ls \in [1..3 -> Lens] :
          Flow(a, n, ls) /\ Reading(a, n, ls)
    BY <1>1 DEF Steady, Always, InStep, host
  <2>2. Before(ls, n + 1) \in Nat
    <3>1. n + 1 \in 1..4
      OBVIOUS
    <3> QED
      BY <3>1, BeforeIs
  <2>3. data' = data /\ plan' = plan /\ call' = call
    BY <1>1 DEF host
  <2>4. Len(data') + Len(pipe') <= Before(ls, n + 1)
    <3>1. Len(data) + Len(pipe) <= Before(ls, n + 1) /\ Len(data') = Len(data)
      BY <2>1, <2>3 DEF Flow
    <3> QED
      BY <1>3, <1>5, <2>2, <3>1
  <2>5. ASSUME NEW i \in 1..Len(pipe') PROVE Placed(pipe[i], Len(data) + i, a, n, ls)'
    <3>1. i \in 1..Len(pipe) /\ pipe'[i] = pipe[i]
      BY <1>3, <1>4
    <3>2. Placed(pipe[i], Len(data) + i, a, n, ls)
      BY <2>1, <3>1 DEF Flow
    <3> QED
      BY <2>3, <3>1, <3>2 DEF Placed, Sent
  <2>6. Flow(a, n, ls)'
    <3>1. \A i \in 1..Len(data') : Placed(data[i], i, a, n, ls)'
      BY <2>1, <2>3 DEF Flow, Placed, Sent
    <3>2. n <= Len(a) /\ Len(plan') = Len(a) - n /\ \A i \in 1..Len(plan') : plan'[i] = a[n + i]
      BY <2>1, <2>3 DEF Flow
    <3> QED
      BY <1>1, <2>4, <2>5, <3>1, <3>2 DEF Flow
  <2>7. Reading(a, n, ls)'
    BY <1>1, <2>1 DEF Reading, host
  <2> QED
    BY <2>6, <2>7 DEF InStep
<1>8. Quiet'
  <2>1. pipe = <<>> => pipe' = <<>>
    BY <1>3, <1>4
  <2> QED
    BY <1>1, <2>1 DEF Steady, Always, Quiet, host
<1>9. Verdicts' /\ Waits' /\ Roomy'
  BY <1>1 DEF Steady, Always, Verdicts, Waits, Roomy, host
<1> QED
  BY <1>6, <1>7, <1>8, <1>9 DEF Steady, Always

\* The packet the host reads is the one the camera sent as packet number stage.
LEMMA AtPacket ==
  ASSUME Steady, pc = "body",
         NEW a \in Answers, NEW n \in 0..3, NEW ls \in [1..3 -> Lens],
         Flow(a, n, ls), Reading(a, n, ls)
  PROVE  /\ stage \in 1..n /\ stage \in 1..3
         /\ of = Before(ls, stage) /\ Before(ls, stage + 1) = of + ls[stage]
         /\ ls[stage] \in Nat /\ CountOf(ls[stage]) = ls[stage] /\ Honest(ls[stage])
         /\ Here(data) = Sent(a, ls, stage)
         /\ Len(data) < of + ls[stage]
<1>1. /\ data \in Seq(Unit) /\ Len(data) \in Nat /\ of \in Nat /\ stage \in 1..3
      /\ LenField \in Nat \ {0}
  BY Typed DEF Steady, Always
<1>2. /\ of = Before(ls, stage) /\ stage <= n
      /\ of + LenField <= Len(data) /\ Len(data) < of + ls[stage]
  BY DEF Reading
<1>3. stage \in 1..n
  BY <1>1, <1>2
<1>4. /\ Before(ls, stage + 1) = of + ls[stage] /\ ls[stage] \in Nat
      /\ CountOf(ls[stage]) = ls[stage] /\ Honest(ls[stage])
  <2>1. Honest(ls[stage])
    BY DEF Reading
  <2> QED
    BY <1>1, <1>2, <2>1, BeforeIs
<1>5. Before(ls, stage) < Len(data)
  BY <1>1, <1>2
<1>6. \A i \in 1..Len(data) : Placed(data[i], i, a, n, ls)
  BY DEF Flow
<1>7. data[Before(ls, stage) + 1].of = Sent(a, ls, stage)
  BY <1>1, <1>3, <1>5, <1>6, HereIs
<1>8. Here(data) = Sent(a, ls, stage)
  BY <1>2, <1>7 DEF Here
<1> QED
  BY <1>1, <1>2, <1>3, <1>4, <1>8

LEMMA ReadBodyKeeps == ASSUME Steady, ReadBody PROVE Steady'
<1>1. /\ pc = "body" /\ pipe # <<>>
      /\ UNCHANGED <<call, wanted, wait, fails, size, claims, plan, peer>>
  BY DEF ReadBody
<1>2. PICK m \in 1..Missing :
        /\ m <= Len(pipe)
        /\ Take(m)
        /\ IF Len(data) + m > size THEN EndReceive("overrun")
           ELSE IF m = Missing THEN PacketRead(Here(data').type)
                               ELSE UNCHANGED <<pc, stage, of, verdict>>
  BY DEF ReadBody
<1>3. /\ data \in Seq(Unit) /\ pipe \in Seq(Unit) /\ Len(data) \in Nat /\ Len(pipe) \in Nat
      /\ of \in Nat /\ of <= Len(data) /\ size \in Nat /\ stage \in 1..3
      /\ LenField \in Nat \ {0} /\ TypeOK
  BY Typed DEF Steady, Always
<1>4. /\ call > 0 /\ verdict = "more"
  BY <1>1 DEF Steady, Always, Verdicts
<1>5. PICK a \in Answers, n \in 0..3, ls \in [1..3 -> Lens] :
        Flow(a, n, ls) /\ Reading(a, n, ls)
  BY <1>1, <1>4 DEF Steady, Always, InStep
<1>6. /\ stage \in 1..n
      /\ of = Before(ls, stage) /\ Before(ls, stage + 1) = of + ls[stage]
      /\ ls[stage] \in Nat /\ Honest(ls[stage])
      /\ Here(data) = Sent(a, ls, stage)
      /\ Len(data) < of + ls[stage]
  BY <1>1, <1>5, AtPacket
<1>7. of + LenField <= Len(data) /\ of + LenField + ls[stage] <= size
  BY <1>1, <1>5 DEF Reading
<1>8. Missing = ls[stage] - (Len(data) - of)
  <2>1. Here(data).len = ls[stage]
    BY <1>6 DEF Sent
  <2>2. ~(ls[stage] < Len(data) - of)
    BY <1>3, <1>6
  <2> QED
    BY <2>1, <2>2 DEF Missing
<1>9. m \in 1..Len(pipe) /\ m \in Nat
  BY <1>2, <1>3, <1>6, <1>8
<1>10. /\ data' \in Seq(Unit) /\ Len(data') = Len(data) + m
       /\ pipe' \in Seq(Unit) /\ Len(pipe') = Len(pipe) - m
  BY <1>2, <1>3, <1>9, TakeMoves
<1>11. /\ Flow(a, n, ls)'
       /\ \A i \in 1..Len(data') : Placed(data'[i], i, a, n, ls)
  BY <1>1, <1>2, <1>3, <1>5, <1>9, FlowTaken
<1>12. Len(data') \in Nat /\ of < Len(data') /\ Len(data) <= Len(data')
  BY <1>3, <1>7, <1>9, <1>10
<1>13. (stage > 1 => a[1] = "start") /\ (stage > 2 => a[2] = "end")
       /\ \A k \in 1..3 : k < stage => Honest(ls[k])
  BY <1>1, <1>5 DEF Reading
<1>i. ~(Len(data) + m > size)
  <2>1. m <= ls[stage] - (Len(data) - of)
    BY <1>2, <1>3, <1>6, <1>8
  <2>2. ASSUME NEW o \in Nat, NEW d \in Nat, NEW l \in Nat, NEW f \in Nat, NEW z \in Nat,
               m <= l - (d - o), o + f + l <= z
        PROVE  ~(d + m > z)
    BY <1>9, <2>2
  <2> QED
    BY <1>3, <1>6, <1>7, <2>1, <2>2
<1>14. CASE m # Missing
  <2>1. UNCHANGED <<pc, stage, of, verdict>>
    BY <1>2, <1>14, <1>i
  <2>2. Len(data') < of + ls[stage] /\ of + LenField <= Len(data')
    <3>1. ASSUME NEW o \in Nat, NEW d \in Nat, NEW l \in Nat, NEW f \in Nat,
                 m \in 1..l - (d - o), m # l - (d - o), o + f <= d
          PROVE  d + m < o + l /\ o + f <= d + m
      BY <1>9, <3>1
    <3> QED
      BY <1>2, <1>3, <1>6, <1>7, <1>8, <1>10, <1>14, <3>1
  <2>3. Reading(a, n, ls)'
    BY <1>1, <1>6, <1>7, <1>13, <2>1, <2>2 DEF Reading
  <2>4. InStep'
    BY <1>11, <2>3 DEF InStep
  <2>5. TypeOK'
    <3>1. of' \in 0..Len(data')
      BY <1>3, <1>12, <2>1
    <3> QED
      BY <1>1, <1>3, <1>10, <2>1, <3>1 DEF TypeOK
  <2>6. Quiet' /\ Verdicts' /\ Waits' /\ Roomy'
    BY <1>1, <1>4, <2>1 DEF Steady, Always, Quiet, Verdicts, Waits, Roomy
  <2> QED
    BY <2>4, <2>5, <2>6 DEF Steady, Always
<1>15. CASE m = Missing
  <2>1. Len(data') = of + ls[stage]
    <3>1. \A o \in Nat, d \in Nat, l \in Nat : d + (l - (d - o)) = o + l
      OBVIOUS
    <3>2. Len(data') = Len(data) + (ls[stage] - (Len(data) - of)) /\ ls[stage] \in Nat
      BY <1>6, <1>8, <1>10, <1>15
    <3> QED
      BY <1>3, <3>1, <3>2
  <2>2. Len(data') = Before(ls, stage + 1)
    BY <1>6, <2>1
  <2>3. Here(data').type = a[stage]
    <3>1. Before(ls, stage) < Len(data')
      BY <1>6, <1>12
    <3>2. data'[Before(ls, stage) + 1].of = Sent(a, ls, stage)
      BY <1>6, <1>10, <1>11, <3>1, HereIs
    <3> QED
      BY <1>6, <3>2 DEF Here, Sent
  <2>4. PacketRead(a[stage])
    BY <1>2, <1>15, <1>i, <2>3
  <2>5. CASE (stage = 1 /\ a[1] = "start") \/ (stage = 2 /\ a[2] = "end")
    <3>1. stage' = stage + 1 /\ of' = Len(data') /\ pc' = "length" /\ verdict' = verdict
      BY <2>4, <2>5 DEF PacketRead
    <3>2. stage' \in 2..3 /\ stage' <= n + 1 /\ stage' \in 1..3
      BY <1>6, <2>5, <3>1
    <3>3. (stage' > 1 => a[1] = "start") /\ (stage' > 2 => a[2] = "end")
          /\ \A k \in 1..3 : k < stage' => Honest(ls[k])
      <4>1. \A k \in 1..3 : k < stage' => k < stage \/ k = stage
        BY <1>3, <3>1
      <4>2. \A k \in 1..3 : k < stage' => Honest(ls[k])
        BY <1>6, <1>13, <4>1
      <4> QED
        BY <1>13, <2>5, <3>1, <4>2
    <3>4. Reading(a, n, ls)'
      BY <2>2, <3>1, <3>2, <3>3 DEF Reading
    <3>5. InStep'
      BY <1>11, <3>4 DEF InStep
    <3>6. TypeOK'
      <4>1. of' \in 0..Len(data')
        BY <1>12, <3>1
      <4> QED
        BY <1>1, <1>3, <1>10, <3>1, <3>2, <4>1 DEF TypeOK
    <3>7. data' # <<>>
      BY <1>3, <1>12
    <3>8. Quiet' /\ Verdicts' /\ Waits'
      BY <1>1, <1>4, <3>1, <3>7 DEF Steady, Always, Quiet, Verdicts, Waits
    <3>9. Len(data') + LenField <= size
      BY <1>3, <1>6, <1>7, <2>1
    <3>10. Roomy'
      BY <1>1, <3>1, <3>9 DEF Steady, Always, Roomy
    <3> QED
      BY <3>5, <3>6, <3>8, <3>10 DEF Steady, Always
  <2>6. CASE ~((stage = 1 /\ a[1] = "start") \/ (stage = 2 /\ a[2] = "end"))
    <3>1. EndReceive(IF stage # 2 /\ a[stage] = "rsp" THEN "ok" ELSE "ioerr")
      BY <2>4, <2>6 DEF PacketRead
    <3>2. CASE stage # 2 /\ a[stage] = "rsp"
      <4>1. pc' = "idle" /\ verdict' = "ok" /\ stage' = stage /\ of' = of
        BY <3>1, <3>2 DEF EndReceive
      <4>2. a \in {<<"rsp">>, <<"start", "end", "rsp">>} /\ n = Len(a) /\ stage = n
        <5>1. n <= Len(a)
          BY <1>5 DEF Flow
        <5>2. CASE stage = 1
          <6>1. a = <<"rsp">>
            BY <3>2, <5>2, AnswersAre
          <6>2. Len(a) = 1
            BY <6>1
          <6> QED
            BY <1>6, <5>1, <5>2, <6>1, <6>2
        <5>3. CASE stage = 3
          <6>1. a = <<"start", "end", "rsp">>
            BY <1>13, <3>2, <5>3, AnswersAre
          <6>2. Len(a) = 3
            BY <6>1
          <6> QED
            BY <1>6, <5>1, <5>3, <6>1, <6>2
        <5> QED
          BY <1>3, <3>2, <5>2, <5>3
      <4>3. Len(data') = Before(ls, n + 1)
        BY <2>2, <4>2
      <4>4. Reading(a, n, ls)'
        <5>0. n = stage /\ stage \in 1..3
          BY <1>3, <4>2
        <5>1. \A k \in 1..n : k \in 1..3 /\ (k < stage \/ k = stage)
          BY <5>0
        <5>2. \A k \in 1..n : Honest(ls[k])
          BY <1>6, <1>13, <5>1
        <5> QED
          BY <4>1, <4>2, <4>3, <5>2 DEF Reading
      <4>5. InStep'
        BY <1>11, <4>4 DEF InStep
      <4>6. TypeOK'
        <5>1. of' \in 0..Len(data')
          BY <1>3, <1>12, <4>1
        <5> QED
          BY <1>1, <1>3, <1>10, <4>1, <5>1 DEF TypeOK
      <4>7. pipe' = <<>> /\ plan' = <<>>
        <5>1. Len(data') + Len(pipe') <= Before(ls, n + 1) /\ Len(plan') = Len(a) - n
          BY <1>11 DEF Flow
        <5>2. Len(pipe') \in Nat /\ plan' \in Seq(Types) /\ n \in Nat
          BY <1>10, <4>6 DEF TypeOK
        <5>3. Len(pipe') = 0 /\ Len(plan') = 0
          BY <1>12, <4>2, <4>3, <5>1, <5>2
        <5> QED
          BY <1>10, <5>2, <5>3
      <4>8. Quiet' /\ Verdicts' /\ Waits' /\ Roomy'
        BY <1>1, <4>1, <4>7 DEF Steady, Always, Quiet, Verdicts, Waits, Roomy
      <4> QED
        BY <4>5, <4>6, <4>8 DEF Steady, Always
    <3>3. CASE ~(stage # 2 /\ a[stage] = "rsp")
      <4>1. pc' = "dead" /\ verdict' = "ioerr" /\ stage' = stage /\ of' = of
        BY <3>1, <3>3 DEF EndReceive
      <4>2. wait' \in Nat /\ fails' \in 0..MaxFails
        BY <1>1, <1>3 DEF TypeOK
      <4> QED
        BY <1>1, <1>10, <1>12, <4>1, <4>2, GivenUp
    <3> QED
      BY <3>2, <3>3
  <2> QED
    BY <2>5, <2>6
<1> QED
  BY <1>14, <1>15

\* A packet more: the places of the earlier ones stay.
LEMMA OneMore ==
  ASSUME NEW n \in 0..2, NEW ls \in [1..3 -> Lens], NEW l \in Lens
  PROVE  LET longer == [ls EXCEPT ![n + 1] = l]
         IN  /\ longer \in [1..3 -> Lens] /\ longer[n + 1] = l
             /\ \A k \in 1..n : longer[k] = ls[k]
             /\ \A k \in 1..n + 1 : Before(longer, k) = Before(ls, k)
<1> DEFINE longer == [ls EXCEPT ![n + 1] = l]
<1>1. n = 0 \/ n = 1 \/ n = 2
  OBVIOUS
<1>2. n + 1 \in 1..3
  OBVIOUS
<1>3. longer \in [1..3 -> Lens] /\ longer[n + 1] = l
  BY <1>2
<1>4. \A k \in 1..n : longer[k] = ls[k]
  OBVIOUS
<1> HIDE DEF longer
<1>5. \A k \in 1..n + 1 : Before(longer, k) = Before(ls, k)
  <2> TAKE k \in 1..n + 1
  <2>1. CASE k = 1
    BY <2>1 DEF Before
  <2>2. CASE k = 2
    <3>1. 1 \in 1..n
      BY <2>2
    <3> QED
      BY <1>4, <2>2, <3>1 DEF Before
  <2>3. CASE k = 3
    <3>1. 1 \in 1..n /\ 2 \in 1..n
      BY <2>3
    <3> QED
      BY <1>4, <2>3, <3>1 DEF Before
  <2> QED
    BY <2>1, <2>2, <2>3
<1> QED
  BY <1>3, <1>4, <1>5 DEF longer

LEMMA UnitsAre ==
  ASSUME NEW p \in Packet
  PROVE  LET c == CountOf(p.len)
         IN  /\ Units(p) \in Seq(Unit) /\ Len(Units(p)) = c
             /\ \A i \in 1..c : Units(p)[i] = [of |-> p, at |-> i]
<1> DEFINE c == CountOf(p.len)
<1>1. c \in Nat /\ Units(p) = [i \in 1..c |-> [of |-> p, at |-> i]]
  <2>1. p.len \in Nat
    BY DEF Packet
  <2>2. c \in Nat
    BY <2>1, CountsAre
  <2>3. Count(p) = c
    BY DEF Count, CountOf
  <2> QED
    BY <2>2, <2>3 DEF Units
<1> HIDE DEF c
<1>2. \A i \in 1..c : [of |-> p, at |-> i] \in Unit
  BY <1>1 DEF Unit
<1>3. /\ Units(p) \in Seq(Unit) /\ Len(Units(p)) = c
      /\ \A i \in 1..c : Units(p)[i] = [of |-> p, at |-> i]
  BY <1>1, <1>2
<1> QED
  BY <1>3 DEF c

LEMMA SendPacketKeeps == ASSUME Steady, SendPacket PROVE Steady'
<1>1. plan # <<>> /\ peer = "there" /\ plan' = Tail(plan) /\ UNCHANGED <<host, peer>>
  BY DEF SendPacket
<1>2. PICK l \in Lens :
        pipe' = pipe \o Units([type |-> Head(plan), len |-> l, call |-> call])
  BY DEF SendPacket
<1> DEFINE p == [type |-> Head(plan), len |-> l, call |-> call]
           u == Units(p)
           c == CountOf(l)
<1>3. /\ data \in Seq(Unit) /\ pipe \in Seq(Unit) /\ Len(data) \in Nat /\ Len(pipe) \in Nat
      /\ call \in Nat /\ plan \in Seq(Types) /\ stage \in 1..3 /\ l \in Nat
      /\ c \in Nat
  BY Typed, LensAreNat, CountsAre DEF Steady, Always, TypeOK
<1>4. Head(plan) \in Types /\ plan' \in Seq(Types) /\ Len(plan') = Len(plan) - 1
      /\ \A i \in 1..Len(plan') : plan'[i] = plan[i + 1]
  BY <1>1, <1>3
<1>5. p \in Packet
  BY <1>3, <1>4 DEF Packet
<1>6. u \in Seq(Unit) /\ Len(u) = c /\ \A i \in 1..c : u[i] = [of |-> p, at |-> i]
  BY <1>5, UnitsAre
<1>7. pipe' = pipe \o u
  BY <1>2
<1> HIDE DEF u, c
<1>8. /\ pipe' \in Seq(Unit) /\ Len(pipe') = Len(pipe) + c
      /\ \A i \in 1..Len(pipe) + c :
           pipe'[i] = IF i <= Len(pipe) THEN pipe[i] ELSE u[i - Len(pipe)]
  <2>1. /\ pipe \o u \in Seq(Unit) /\ Len(pipe \o u) = Len(pipe) + Len(u)
        /\ \A i \in 1..Len(pipe) + Len(u) :
             (pipe \o u)[i] = IF i <= Len(pipe) THEN pipe[i] ELSE u[i - Len(pipe)]
    BY <1>3, <1>6, ConcatProperties
  <2> QED
    BY <1>6, <1>7, <2>1
<1>9. TypeOK'
  BY <1>1, <1>4, <1>8 DEF Steady, Always, TypeOK, host
<1>10. pc # "idle"
  BY <1>1 DEF Steady, Always, Quiet
<1>11. Quiet' /\ Verdicts' /\ Waits' /\ Roomy'
  BY <1>1, <1>10 DEF Steady, Always, Quiet, Verdicts, Waits, Roomy, host
<1>12. ASSUME pc # "dead", call > 0 PROVE InStep'
  <2>1. PICK a \in Answers, n \in 0..3, ls \in [1..3 -> Lens] :
          Flow(a, n, ls) /\ Reading(a, n, ls)
    BY <1>12 DEF Steady, Always, InStep
  <2>2. /\ n <= Len(a) /\ Len(plan) = Len(a) - n /\ Len(a) \in 1..3
        /\ \A i \in 1..Len(plan) : plan[i] = a[n + i]
    BY <2>1, AnswersAre DEF Flow
  <2>3. Len(plan) \in Nat \ {0}
    BY <1>1, <1>3
  <2>4. n \in 0..2 /\ n + 1 <= Len(a) /\ n + 1 \in 0..3
    <3>1. \A x \in 1..3, y \in Nat \ {0} :
            y = x - n => n \in 0..2 /\ n + 1 <= x /\ n + 1 \in 0..3
      OBVIOUS
    <3> QED
      BY <2>2, <2>3, <3>1
  <2>5. Head(plan) = a[n + 1]
    BY <1>1, <1>3, <2>2, <2>3
  <2> DEFINE longer == [ls EXCEPT ![n + 1] = l]
  <2>6. /\ longer \in [1..3 -> Lens] /\ longer[n + 1] = l
        /\ \A k \in 1..n : longer[k] = ls[k]
        /\ \A k \in 1..n + 1 : Before(longer, k) = Before(ls, k)
    BY <2>4, OneMore
  <2> HIDE DEF longer
  <2>7. /\ Before(ls, n + 1) \in Nat
        /\ Before(longer, n + 2) = Before(ls, n + 1) + c
    <3>1. n + 1 \in 1..3 /\ n + 1 \in 1..4 /\ n + 1 \in 1..n + 1 /\ (n + 1) + 1 = n + 2
      BY <2>4
    <3>2. Before(longer, (n + 1) + 1) = Before(longer, n + 1) + CountOf(longer[n + 1])
      BY <2>6, <3>1, BeforeIs
    <3>3. Before(ls, n + 1) \in Nat
      BY <3>1, BeforeIs
    <3> QED
      BY <2>6, <3>1, <3>2, <3>3 DEF c
  <2>8. Len(data) + Len(pipe) = Before(ls, n + 1)
    BY <1>1, <2>1 DEF Flow
  <2>9. ASSUME NEW i \in Nat, NEW v, Placed(v, i, a, n, ls), i <= Before(ls, n + 1)
        PROVE  Placed(v, i, a, n + 1, longer)
    <3> SUFFICES ASSUME NEW k \in 1..n + 1,
                        Before(longer, k) < i, i <= Before(longer, k + 1)
                 PROVE  v.of = Sent(a, longer, k) /\ v.at = i - Before(longer, k)
      BY DEF Placed
    <3>1. Before(longer, k) = Before(ls, k)
      BY <2>6
    <3>2. k # n + 1
      BY <2>7, <2>9, <3>1
    <3>3. k \in 1..n /\ k + 1 \in 1..n + 1
      BY <2>4, <3>2
    <3>4. Before(longer, k + 1) = Before(ls, k + 1) /\ longer[k] = ls[k]
      BY <2>6, <3>3
    <3> QED
      BY <2>9, <3>1, <3>3, <3>4 DEF Placed, Sent
  <2>10. ASSUME NEW j \in 1..c
         PROVE  Placed(u[j], Before(ls, n + 1) + j, a, n + 1, longer)
    <3> SUFFICES ASSUME NEW k \in 1..n + 1,
                        Before(longer, k) < Before(ls, n + 1) + j,
                        Before(ls, n + 1) + j <= Before(longer, k + 1)
                 PROVE  /\ u[j].of = Sent(a, longer, k)
                        /\ u[j].at = (Before(ls, n + 1) + j) - Before(longer, k)
      BY Zenon DEF Placed
    <3>1. k = n + 1
      <4>1. CASE k \in 1..n
        <5>1. k + 1 \in 1..n + 1 /\ k + 1 \in 1..4 /\ n + 1 \in 1..4 /\ k + 1 <= n + 1
          BY <2>4, <4>1
        <5>2. Before(longer, k + 1) = Before(ls, k + 1) /\ Before(ls, k + 1) \in Nat
          BY <2>6, <5>1, BeforeIs
        <5>3. Before(ls, k + 1) <= Before(ls, n + 1)
          BY <2>7, <5>1, BeforeIs
        <5> QED
          BY <2>7, <5>2, <5>3
      <4> QED
        BY <2>4, <4>1
    <3>2. Before(longer, k) = Before(ls, n + 1) /\ longer[k] = l
      BY <2>6, <3>1
    <3>3. u[j] = [of |-> p, at |-> j]
      BY <1>6
    <3>4. p = Sent(a, longer, k)
      BY <2>5, <3>1, <3>2 DEF Sent
    <3>5. \A x, y \in Nat : (x + y) - x = y
      OBVIOUS
    <3>6. (Before(ls, n + 1) + j) - Before(ls, n + 1) = j
      BY <1>3, <2>7, <3>5
    <3>7. u[j].of = p /\ u[j].at = j
      BY <3>3
    <3> QED
      BY <3>2, <3>4, <3>6, <3>7
  <2>11. data' = data /\ call' = call /\ stage' = stage /\ of' = of /\ pc' = pc /\ size' = size
    BY <1>1 DEF host
  <2>12. ASSUME NEW v, NEW i, Placed(v, i, a, n + 1, longer)
         PROVE  Placed(v, i, a, n + 1, longer)'
    BY <2>11, <2>12 DEF Placed, Sent
  <2>13. Flow(a, n + 1, longer)'
    <3>1. Len(plan') = Len(a) - (n + 1) /\ \A i \in 1..Len(plan') : plan'[i] = a[n + 1 + i]
      <4>1. Len(plan') = Len(a) - (n + 1)
        BY <1>4, <2>2, <2>4
      <4>2. ASSUME NEW i \in 1..Len(plan') PROVE plan'[i] = a[n + 1 + i]
        <5>1. i + 1 \in 1..Len(plan) /\ n + (i + 1) = n + 1 + i
          BY <1>4, <2>3, <2>4
        <5> QED
          BY <1>4, <2>2, <5>1
      <4> QED
        BY <4>1, <4>2
    <3>2. Len(data) + Len(pipe') = Before(longer, n + 1 + 1)
      <4>1. n + 1 + 1 = n + 2
        BY <2>4
      <4> QED
        BY <1>3, <1>8, <2>7, <2>8, <4>1
    <3>3. ASSUME NEW i \in 1..Len(data) PROVE Placed(data[i], i, a, n + 1, longer)
      <4>1. i \in Nat /\ i <= Before(ls, n + 1)
        BY <1>3, <2>7, <2>8
      <4>2. Placed(data[i], i, a, n, ls)
        BY <2>1 DEF Flow
      <4> QED
        BY <2>9, <4>1, <4>2
    <3>4. ASSUME NEW i \in 1..Len(pipe')
          PROVE  Placed(pipe'[i], Len(data) + i, a, n + 1, longer)
      <4>1. CASE i <= Len(pipe)
        <5>1. i \in 1..Len(pipe) /\ pipe'[i] = pipe[i]
          BY <1>3, <1>8, <4>1
        <5>2. Len(data) + i \in Nat /\ Len(data) + i <= Before(ls, n + 1)
          <6>1. \A x, y, z \in Nat : z \in 1..y => x + z \in Nat /\ x + z <= x + y
            OBVIOUS
          <6>2. /\ Len(data) \in Nat /\ Len(pipe) \in Nat /\ i \in Nat
                /\ i \in 1..Len(pipe)
            BY <1>3, <5>1
          <6> QED
            BY <2>8, <6>1, <6>2
        <5>3. Placed(pipe[i], Len(data) + i, a, n, ls)
          BY <2>1, <5>1 DEF Flow
        <5> QED
          BY <2>9, <5>1, <5>2, <5>3
      <4>2. CASE ~(i <= Len(pipe))
        <5> DEFINE j == i - Len(pipe)
        <5>1. j \in 1..c /\ Len(data) + i = Before(ls, n + 1) + j
          <6>1. \A x, y, z, w \in Nat : z \in 1..y + w /\ ~(z <= y) =>
                  z - y \in 1..w /\ x + z = (x + y) + (z - y)
            OBVIOUS
          <6>2. /\ Len(data) \in Nat /\ Len(pipe) \in Nat /\ i \in Nat
                /\ c \in Nat /\ i \in 1..Len(pipe) + c
            BY <1>3, <1>8
          <6> QED
            BY <2>8, <4>2, <6>1, <6>2
        <5>2. pipe'[i] = u[j]
          BY <1>8, <4>2
        <5> HIDE DEF j
        <5> QED
          BY <2>10, <5>1, <5>2
      <4> QED
        BY <4>1, <4>2
    <3> QED
      BY <2>4, <2>11, <2>12, <3>1, <3>2, <3>3, <3>4 DEF Flow
  <2>14. Reading(a, n + 1, longer)'
    <3>1. pc \in {"length", "body"} => /\ of = Before(longer, stage)
                                       /\ stage > 1 => a[1] = "start"
                                       /\ stage > 2 => a[2] = "end"
                                       /\ \A k \in 1..3 : k < stage => Honest(longer[k])
      <4>1. ASSUME pc \in {"length", "body"} PROVE stage \in 1..n + 1
        BY <1>3, <2>1, <2>4, <4>1 DEF Reading
      <4>2. ASSUME pc \in {"length", "body"}, NEW k \in 1..3, k < stage
            PROVE  Honest(longer[k])
        <5>1. k \in 1..n
          BY <1>3, <2>4, <4>1, <4>2
        <5>2. Honest(ls[k])
          BY <2>1, <4>2 DEF Reading
        <5> QED
          BY <2>6, <5>1, <5>2
      <4> QED
        BY <2>1, <2>6, <4>1, <4>2 DEF Reading
    <3>2. pc = "length" => stage <= n + 1 + 1 /\ Len(data) = of
      BY <1>3, <2>1, <2>4 DEF Reading
    <3>3. pc = "body" => stage \in 1..n /\ stage <= n + 1
      BY <1>3, <2>1, <2>4 DEF Reading
    <3>4. pc = "body" => longer[stage] = ls[stage]
      BY <2>6, <3>3
    <3>5. pc = "body" => /\ stage <= n + 1 /\ Honest(longer[stage])
                         /\ of + LenField <= Len(data) /\ Len(data) < of + longer[stage]
                         /\ of + LenField + longer[stage] <= size
      BY <2>1, <3>3, <3>4 DEF Reading
    <3>6. Reading(a, n + 1, longer)
      BY <1>10, <3>1, <3>2, <3>5 DEF Reading
    <3> QED
      BY <2>11, <3>6 DEF Reading
  <2> QED
    BY <2>4, <2>6, <2>13, <2>14 DEF InStep
<1>13. InStep'
  <2>1. pc' = pc /\ call' = call
    BY <1>1 DEF host
  <2> QED
    BY <1>12, <2>1 DEF InStep
<1> QED
  BY <1>9, <1>11, <1>13 DEF Steady, Always

-----------------------------------------------------------------------------
(* What holds whatever the packets claim.                                  *)

\* The stream and the counts after a step of the exchange.
Stream == /\ data \in Seq(Unit) /\ pipe \in Seq(Unit) /\ wait \in Nat /\ size \in Nat
          /\ fails \in 0..MaxFails /\ claims \in {"sound", "odd"}

LEMMA EndedAlways ==
  ASSUME Always, NEW v \in {"ignored", "ioerr", "nomem", "overrun"}, EndReceive(v),
         v = "ignored" /\ data' = <<>> => fails' = wanted,
         Stream', Len(data) <= Len(data'), UNCHANGED <<call, wanted, plan, peer>>
  PROVE  Always'
<1>1. /\ verdict' = v /\ pc' = "dead" /\ stage' = stage /\ of' = of
  BY DEF EndReceive
<1>2. of' \in 0..Len(data')
  <2>1. of \in 0..Len(data) /\ Len(data) \in Nat /\ Len(data') \in Nat
    BY DEF Always, TypeOK, Stream
  <2> QED
    BY <1>1, <2>1
<1>3. TypeOK'
  BY <1>1, <1>2 DEF Always, TypeOK, Stream
<1>4. Verdicts' /\ Waits'
  BY <1>1 DEF Verdicts, Waits
<1> QED
  BY <1>3, <1>4 DEF Always

LEMMA MovedAlways ==
  ASSUME Always, pc \in {"length", "body"}, pc' = "body", UNCHANGED <<stage, of, verdict>>,
         Stream', Len(data) <= Len(data'), UNCHANGED <<call, wanted, fails, plan, peer>>
  PROVE  Always'
<1>1. of' \in 0..Len(data')
  <2>1. of \in 0..Len(data) /\ Len(data) \in Nat /\ Len(data') \in Nat
    BY DEF Always, TypeOK, Stream
  <2> QED
    BY <2>1
<1>2. TypeOK'
  BY <1>1 DEF Always, TypeOK, Stream
<1>3. Verdicts' /\ Waits'
  BY DEF Always, Verdicts, Waits
<1> QED
  BY <1>2, <1>3 DEF Always

LEMMA PacketReadAlways ==
  ASSUME Always, pc \in {"length", "body"}, NEW ty, PacketRead(ty),
         Stream', Len(data) < Len(data'), UNCHANGED <<call, wanted, fails, plan, peer>>
  PROVE  Always'
<1>1. Len(data) \in Nat /\ Len(data') \in Nat /\ stage \in 1..3
      /\ verdict = "more" /\ call > 0
  BY DEF Always, TypeOK, Stream, Verdicts
<1>2. data' # <<>> /\ Len(data) <= Len(data')
  BY <1>1
<1>3. CASE (stage = 1 /\ ty = "start") \/ (stage = 2 /\ ty = "end")
  <2>1. stage' = stage + 1 /\ of' = Len(data') /\ pc' = "length" /\ verdict' = verdict
    BY <1>3 DEF PacketRead
  <2>2. stage' \in 1..3 /\ of' \in 0..Len(data')
    BY <1>1, <1>3, <2>1
  <2>3. TypeOK'
    BY <2>1, <2>2 DEF Always, TypeOK, Stream
  <2>4. Verdicts' /\ Waits'
    BY <1>1, <1>2, <2>1 DEF Always, Verdicts, Waits
  <2> QED
    BY <2>3, <2>4 DEF Always
<1>4. CASE ~((stage = 1 /\ ty = "start") \/ (stage = 2 /\ ty = "end"))
  <2>1. CASE stage # 2 /\ ty = "rsp"
    <3>1. verdict' = "ok" /\ pc' = "idle" /\ stage' = stage /\ of' = of
      BY <1>4, <2>1 DEF PacketRead, EndReceive
    <3>2. of' \in 0..Len(data')
      <4>1. of \in 0..Len(data)
        BY DEF Always, TypeOK
      <4> QED
        BY <1>1, <1>2, <3>1, <4>1
    <3>3. TypeOK'
      BY <3>1, <3>2 DEF Always, TypeOK, Stream
    <3>4. Verdicts' /\ Waits'
      BY <3>1 DEF Always, Verdicts, Waits
    <3> QED
      BY <3>3, <3>4 DEF Always
  <2>2. CASE ~(stage # 2 /\ ty = "rsp")
    <3>1. EndReceive("ioerr")
      BY <1>4, <2>2 DEF PacketRead
    <3>2. fails' = fails
      OBVIOUS
    <3> QED
      BY <1>2, <3>1, EndedAlways
  <2> QED
    BY <2>1, <2>2
<1> QED
  BY <1>3, <1>4

LEMMA ReadLengthAlways == ASSUME Always, ReadLength PROVE Always'
<1> DEFINE m == IF Len(pipe) < LenField THEN Len(pipe) ELSE LenField
           len == Here(data').len
<1>1. /\ pc = "length" /\ wait > 0 /\ pipe # <<>> /\ wait' = WaitDefault /\ Take(m)
      /\ UNCHANGED <<call, wanted, fails, plan, peer>>
  BY DEF ReadLength
<1>2. \/ EndReceive("overrun") /\ UNCHANGED <<size, claims>>
      \/ EndReceive("ioerr") /\ UNCHANGED <<size, claims>>
      \/ TakeLength(len) /\ claims' = IF Sound(len) THEN claims ELSE "odd"
  BY DEF ReadLength
<1>3. /\ TypeOK /\ data \in Seq(Unit) /\ pipe \in Seq(Unit) /\ Len(data) \in Nat
      /\ of \in Nat /\ of <= Len(data) /\ size \in Nat /\ LenField \in Nat \ {0}
      /\ Extra \in Nat /\ WaitDefault \in Nat /\ fails \in 0..MaxFails
      /\ claims \in {"sound", "odd"}
  <2>1. TypeOK
    BY DEF Always
  <2>2. fails \in 0..MaxFails /\ claims \in {"sound", "odd"}
    BY <2>1 DEF TypeOK
  <2> QED
    BY <2>1, <2>2, Typed
<1>4. m \in 1..Len(pipe)
  <2>1. Len(pipe) \in Nat \ {0}
    BY <1>1, <1>3
  <2> QED
    BY <1>3, <2>1
<1>5. /\ data' \in Seq(Unit) /\ Len(data') = Len(data) + m /\ pipe' \in Seq(Unit)
  BY <1>1, <1>3, <1>4, TakeMoves
<1> HIDE DEF m
<1>6. Len(data) < Len(data') /\ Len(data) <= Len(data') /\ of + 1 \in 1..Len(data')
  BY <1>3, <1>4, <1>5
<1>7. len \in Nat
  <2>1. data'[of + 1] \in Unit
    BY <1>5, <1>6
  <2>2. data'[of + 1].of \in Packet
    BY <2>1 DEF Unit
  <2> QED
    BY <2>2 DEF Here, Packet
<1> HIDE DEF len
<1>8. claims' \in {"sound", "odd"}
  BY <1>2, <1>3
<1>9. wait' \in Nat /\ fails' \in 0..MaxFails /\ UNCHANGED <<call, wanted, plan, peer>>
  BY <1>1, <1>3
<1>10. CASE (EndReceive("overrun") \/ EndReceive("ioerr")) /\ UNCHANGED <<size, claims>>
  <2>1. Stream'
    BY <1>3, <1>5, <1>8, <1>9, <1>10 DEF Stream
  <2> QED
    BY <1>6, <1>9, <1>10, <2>1, EndedAlways
<1>11. CASE TakeLength(len)
  <2> DEFINE need == Wrapped(of + LenField + len)
  <2>1. need \in Nat
    <3>1. Modulus \in Nat
      BY IpLensAssumption
    <3> QED
      BY <1>3, <1>7, <3>1 DEF Wrapped
  <2>2. \/ (\E ty \in Types : PacketRead(ty)) /\ UNCHANGED size
        \/ pc' = "body" /\ size' = Room(need) /\ UNCHANGED <<stage, of, verdict>>
        \/ EndReceive("nomem") /\ UNCHANGED size
    BY <1>11 DEF TakeLength
  <2> HIDE DEF need
  <2>3. size' \in Nat
    <3>1. Room(need) \in Nat
      BY <1>3, <2>1 DEF Room
    <3> QED
      BY <1>3, <2>2, <3>1
  <2>4. Stream'
    BY <1>5, <1>8, <1>9, <2>3 DEF Stream
  <2>5. CASE (\E ty \in Types : PacketRead(ty)) /\ UNCHANGED size
    <3>1. PICK ty \in Types : PacketRead(ty)
      BY <2>5
    <3> QED
      BY <1>1, <1>6, <2>4, <3>1, PacketReadAlways
  <2>6. CASE pc' = "body" /\ size' = Room(need) /\ UNCHANGED <<stage, of, verdict>>
    BY <1>1, <1>6, <2>4, <2>6, MovedAlways
  <2>7. CASE EndReceive("nomem") /\ UNCHANGED size
    BY <1>6, <1>9, <2>4, <2>7, EndedAlways
  <2> QED
    BY <2>2, <2>5, <2>6, <2>7
<1> QED
  BY <1>2, <1>10, <1>11

LEMMA ReadBodyAlways == ASSUME Always, ReadBody PROVE Always'
<1>1. /\ pc = "body" /\ pipe # <<>>
      /\ UNCHANGED <<call, wanted, wait, fails, size, claims, plan, peer>>
  BY DEF ReadBody
<1>2. PICK m \in 1..Missing :
        /\ m <= Len(pipe)
        /\ Take(m)
        /\ IF Len(data) + m > size THEN EndReceive("overrun")
           ELSE IF m = Missing THEN PacketRead(Here(data').type)
                               ELSE UNCHANGED <<pc, stage, of, verdict>>
  BY DEF ReadBody
<1>3. /\ TypeOK /\ data \in Seq(Unit) /\ pipe \in Seq(Unit) /\ Len(data) \in Nat
      /\ Len(pipe) \in Nat
      /\ size \in Nat /\ wait \in Nat /\ fails \in 0..MaxFails /\ claims \in {"sound", "odd"}
  <2>1. TypeOK
    BY DEF Always
  <2>2. fails \in 0..MaxFails /\ claims \in {"sound", "odd"}
    BY <2>1 DEF TypeOK
  <2> QED
    BY <2>1, <2>2, Typed
<1>4. m \in 1..Len(pipe)
  BY <1>2, <1>3
<1>5. /\ data' \in Seq(Unit) /\ Len(data') = Len(data) + m /\ pipe' \in Seq(Unit)
  BY <1>2, <1>3, <1>4, TakeMoves
<1>6. Len(data) < Len(data') /\ Len(data) <= Len(data')
  BY <1>3, <1>4, <1>5
<1>7. Stream'
  BY <1>1, <1>3, <1>5 DEF Stream
<1>8. \/ EndReceive("overrun")
      \/ PacketRead(Here(data').type)
      \/ UNCHANGED <<pc, stage, of, verdict>>
  BY <1>2
<1>9. CASE EndReceive("overrun")
  BY <1>1, <1>6, <1>7, <1>9, EndedAlways
<1>10. CASE PacketRead(Here(data').type)
  BY <1>1, <1>6, <1>7, <1>10, PacketReadAlways
<1>11. CASE UNCHANGED <<pc, stage, of, verdict>>
  BY <1>1, <1>6, <1>7, <1>11, MovedAlways
<1> QED
  BY <1>8, <1>9, <1>10, <1>11

LEMMA ReceiveAlways == ASSUME Always, Receive PROVE Always'
<1>1. /\ call < MaxCalls /\ call' = call + 1 /\ stage' = 1
      /\ fails' = 0 /\ data' = <<>> /\ of' = 0 /\ verdict' = "more" /\ pc' = "length"
      /\ plan' \in Answers
      /\ UNCHANGED <<size, claims, pipe, peer>>
  BY DEF Receive
<1>2. TypeOK /\ call \in Nat /\ MaxCalls \in Nat /\ MaxFails \in Nat
  <2>1. TypeOK
    BY DEF Always
  <2> QED
    BY <2>1, Typed
<1>3. wanted' \in Nat /\ wait' = wanted'
  BY <1>2, Typed, IpWaitAssumption DEF Receive
<1>4. call' \in 0..MaxCalls /\ call' > 0 /\ fails' \in 0..MaxFails /\ of' \in 0..Len(data')
  BY <1>1, <1>2
<1>5. data' \in Seq(Unit) /\ plan' \in Seq(Types)
  BY <1>1, AnswersAre
<1>6. TypeOK'
  BY <1>1, <1>2, <1>3, <1>4, <1>5 DEF TypeOK
<1>7. fails' + wait' = wanted'
  <2>1. \A w \in Nat : 0 + w = w
    OBVIOUS
  <2> QED
    BY <1>1, <1>3, <2>1
<1>8. Verdicts' /\ Waits'
  BY <1>1, <1>4, <1>7 DEF Verdicts, Waits
<1> QED
  BY <1>6, <1>8 DEF Always

\* A read of the length field without bytes.
LEMMA NoLengthAlways ==
  ASSUME Always, pc = "length", wait > 0, NEW v \in {"ignored", "ioerr"}, NoLength(v),
         UNCHANGED <<call, wanted, data, size, claims, plan, pipe, peer>>,
         fails' \in 0..MaxFails,
         \/ peer # "gone" /\ fails' = fails + 1
         \/ peer = "gone" /\ v = "ioerr"
  PROVE  Always'
<1>1. /\ TypeOK /\ wait \in Nat /\ fails \in Nat /\ wanted \in Nat /\ WaitDefault \in Nat
      /\ data \in Seq(Unit) /\ pipe \in Seq(Unit) /\ Len(data) \in Nat
      /\ size \in Nat /\ claims \in {"sound", "odd"}
  <2>1. TypeOK
    BY DEF Always
  <2> QED
    BY <2>1, Typed DEF TypeOK
<1>2. verdict = "more"
  BY DEF Always, Verdicts
<1>3. CASE wait > 1
  <2>1. wait' = wait - 1 /\ UNCHANGED <<pc, stage, of, verdict>>
    BY <1>3 DEF NoLength
  <2>2. wait' \in Nat
    BY <1>1, <1>3, <2>1
  <2>3. TypeOK'
    BY <1>1, <2>1, <2>2 DEF TypeOK
  <2>4. fails' = fails + 1 => fails' + wait' = fails + wait
    BY <1>1, <1>3, <2>1
  <2>5. Verdicts' /\ Waits'
    BY <1>2, <2>1, <2>4 DEF Always, Verdicts, Waits
  <2> QED
    BY <2>3, <2>5 DEF Always
<1>4. CASE ~(wait > 1)
  <2>1. wait' = WaitDefault /\ EndReceive(v)
    BY <1>4 DEF NoLength
  <2>2. v = "ignored" /\ data' = <<>> => fails' = wanted
    <3>1. SUFFICES ASSUME v = "ignored", data = <<>> PROVE fails' = wanted
      OBVIOUS
    <3>2. fails' = fails + 1 /\ wait = 1
      BY <1>1, <1>4, <3>1
    <3>3. CASE peer # "gone"
      BY <3>1, <3>2, <3>3 DEF Always, Waits
    <3>4. CASE peer = "gone"
      BY <3>1, <3>4
    <3> QED
      BY <3>3, <3>4
  <2>3. Stream' /\ Len(data) <= Len(data')
    BY <1>1, <2>1 DEF Stream
  <2> QED
    BY <2>1, <2>2, <2>3, EndedAlways
<1> QED
  BY <1>3, <1>4

LEMMA EndsAlways ==
  ASSUME Always, EndReceive("ioerr"), wait' \in Nat, fails' \in 0..MaxFails,
         UNCHANGED <<call, wanted, data, size, claims, plan, pipe, peer>>
  PROVE  Always'
<1>1. Stream'
  BY DEF Always, TypeOK, Stream
<1>2. Len(data) <= Len(data')
  <2>1. Len(data) \in Nat
    BY Typed DEF Always
  <2> QED
    BY <2>1
<1> QED
  BY <1>1, <1>2, EndedAlways

\* The camera and the wire.
LEMMA CameraAlways ==
  ASSUME Always, UNCHANGED host, pipe' \in Seq(Unit), plan' \in Seq(Types),
         peer' \in {"there", "silent", "gone"}, peer # "gone" \/ peer' = "gone"
  PROVE  Always'
<1> USE DEF host
<1>1. TypeOK'
  BY DEF Always, TypeOK
<1>2. Verdicts' /\ Waits'
  BY DEF Always, Verdicts, Waits
<1> QED
  BY <1>1, <1>2 DEF Always

LEMMA SendPacketAlways == ASSUME Always, SendPacket PROVE Always'
<1>1. plan # <<>> /\ plan' = Tail(plan) /\ UNCHANGED <<host, peer>>
  BY DEF SendPacket
<1>2. PICK l \in Lens :
        pipe' = pipe \o Units([type |-> Head(plan), len |-> l, call |-> call])
  BY DEF SendPacket
<1>3. /\ pipe \in Seq(Unit) /\ call \in Nat /\ plan \in Seq(Types) /\ l \in Nat
      /\ peer \in {"there", "silent", "gone"}
  <2>1. TypeOK
    BY DEF Always
  <2> QED
    BY <2>1, Typed, LensAreNat DEF TypeOK
<1>4. Head(plan) \in Types /\ plan' \in Seq(Types)
  BY <1>1, <1>3
<1>5. [type |-> Head(plan), len |-> l, call |-> call] \in Packet
  BY <1>3, <1>4 DEF Packet
<1>6. Units([type |-> Head(plan), len |-> l, call |-> call]) \in Seq(Unit)
  BY <1>5, UnitsAre
<1>7. pipe' \in Seq(Unit)
  BY <1>2, <1>3, <1>6, ConcatProperties
<1> QED
  BY <1>1, <1>3, <1>4, <1>7, CameraAlways

LEMMA HangUpAlways == ASSUME Always, HangUp PROVE Always'
<1>1. peer' = "gone" /\ UNCHANGED <<host, plan>>
  BY DEF HangUp
<1>2. PICK c \in 0..Len(pipe) : pipe' = SubSeq(pipe, 1, c)
  BY DEF HangUp
<1>3. pipe \in Seq(Unit) /\ Len(pipe) \in Nat /\ plan \in Seq(Types)
  BY DEF Always, TypeOK
<1>4. pipe' \in Seq(Unit)
  BY <1>2, <1>3, SubSeqProperties
<1> QED
  BY <1>1, <1>3, <1>4, CameraAlways

LEMMA NextAlways == ASSUME Always, [Next]_vars PROVE Always'
<1>t. /\ TypeOK /\ wait \in Nat /\ fails \in Nat /\ MaxFails \in Nat /\ WaitDefault \in Nat
      /\ fails \in 0..MaxFails /\ pipe \in Seq(Unit) /\ plan \in Seq(Types)
  <2>1. TypeOK
    BY DEF Always
  <2> QED
    BY <2>1, Typed DEF TypeOK
<1>1. CASE Receive
  BY <1>1, ReceiveAlways
<1>2. CASE ReadLength
  BY <1>2, ReadLengthAlways
<1>3. CASE LengthFails
  <2>1. fails' \in 0..MaxFails /\ fails' = fails + 1 /\ peer # "gone"
    BY <1>t, <1>3 DEF LengthFails, MayFail
  <2> QED
    BY <1>3, <2>1, NoLengthAlways DEF LengthFails
<1>4. CASE LengthGone
  BY <1>t, <1>4, NoLengthAlways DEF LengthGone, Gone
<1>5. CASE LengthUnread
  BY <1>t, <1>5, EndsAlways DEF LengthUnread
<1>6. CASE ReadBody
  BY <1>6, ReadBodyAlways
<1>7. CASE BodyFails
  <2>1. fails' \in 0..MaxFails
    BY <1>t, <1>7 DEF BodyFails
  <2> QED
    BY <1>t, <1>7, <2>1, EndsAlways DEF BodyFails
<1>8. CASE BodyRefused
  BY <1>t, <1>8, EndsAlways DEF BodyRefused
<1>9. CASE SendPacket
  BY <1>9, SendPacketAlways
<1>10. CASE HangUp
  BY <1>10, HangUpAlways
<1>11. CASE Stop
  BY <1>t, <1>11, CameraAlways DEF Stop
<1>12. CASE BodyGone \/ Idle \/ UNCHANGED vars
  <2>1. UNCHANGED vars
    BY <1>12 DEF BodyGone, Idle
  <2>2. UNCHANGED host /\ pipe' = pipe /\ plan' = plan /\ peer' = peer
    BY <2>1 DEF vars, host
  <2>3. peer \in {"there", "silent", "gone"}
    BY <1>t DEF TypeOK
  <2> QED
    BY <1>t, <2>2, <2>3, CameraAlways
<1> QED
  BY <1>1, <1>2, <1>3, <1>4, <1>5, <1>6, <1>7, <1>8, <1>9, <1>10, <1>11, <1>12
     DEF Next, Reader

\* A length that is not sound is not forgotten.
LEMMA SoundSoFar == ASSUME Always, [Next]_vars, claims' = "sound" PROVE claims = "sound"
<1>1. CASE ReadLength
  BY <1>1 DEF ReadLength
<1>2. CASE ~ReadLength
  <2>1. UNCHANGED claims
    BY <1>2 DEF Next, Reader, Receive, LengthFails, LengthGone, LengthUnread, ReadBody,
                BodyFails, BodyRefused, BodyGone, SendPacket, HangUp, Stop, Idle, host, vars
  <2> QED
    BY <2>1
<1> QED
  BY <1>1, <1>2

LEMMA NextIInv == IInv /\ [Next]_vars => IInv'
<1> SUFFICES ASSUME IInv, [Next]_vars PROVE IInv'
  OBVIOUS
<1>a. Always'
  BY NextAlways DEF IInv
<1>b. ASSUME claims' = "sound" PROVE Steady'
  <2>0. Steady /\ claims = "sound"
    BY <1>b, SoundSoFar DEF IInv
  <2>1. CASE Receive
    BY <2>0, <2>1, ReceiveKeeps
  <2>2. CASE ReadLength
    BY <1>b, <2>0, <2>2, ReadLengthKeeps
  <2>3. CASE LengthFails
    BY <2>0, <2>3, LengthFailsKeeps
  <2>4. CASE LengthGone
    BY <2>0, <2>4, LengthGoneKeeps
  <2>5. CASE LengthUnread
    BY <2>0, <2>5, LengthUnreadKeeps
  <2>6. CASE ReadBody
    BY <2>0, <2>6, ReadBodyKeeps
  <2>7. CASE BodyFails
    BY <2>0, <2>7, BodyFailsKeeps
  <2>8. CASE BodyRefused
    BY <2>0, <2>8, BodyRefusedKeeps
  <2>9. CASE SendPacket
    BY <2>0, <2>9, SendPacketKeeps
  <2>10. CASE HangUp
    BY <2>0, <2>10, HangUpKeeps
  <2>11. CASE Stop
    BY <2>0, <2>11, StopKeeps
  <2>12. CASE BodyGone \/ Idle \/ UNCHANGED vars
    BY <2>0, <2>12, StandsStill DEF BodyGone, Idle
  <2> QED
    BY <2>1, <2>2, <2>3, <2>4, <2>5, <2>6, <2>7, <2>8, <2>9, <2>10, <2>11, <2>12
       DEF Next, Reader
<1> QED
  BY <1>a, <1>b DEF IInv

LEMMA IInvAlways == Spec => []IInv
  BY InitIInv, NextIInv, PTL DEF Spec

-----------------------------------------------------------------------------
(* The theorems.                                                           *)

\* What is received keeps to its types.
THEOREM IpTypeCorrect == Spec => []TypeOK
<1>1. IInv => TypeOK
  BY DEF IInv, Always
<1> QED
  BY <1>1, IInvAlways, PTL

\* A caller that asks to wait gets that many reads before its command counts as
\* ignored (ptpip_read_packet).
THEOREM WaitIsHonoured == Spec => []WaitHonoured
<1>1. IInv => WaitHonoured
  BY DEF IInv, Always, Waits, WaitHonoured
<1> QED
  BY <1>1, IInvAlways, PTL

\* What is known of a whole answer in the buffer.
LEMMA WhatIsAccepted ==
  ASSUME Steady, verdict = "ok", call > 0
  PROVE  ExactAnswer
<1>1. /\ data \in Seq(Unit) /\ Len(data) \in Nat /\ LenField \in Nat \ {0}
  BY Typed DEF Steady, Always
<1>2. pc = "idle"
  BY DEF Steady, Always, Verdicts
<1>3. PICK a \in Answers, n \in 0..3, ls \in [1..3 -> Lens] :
        Flow(a, n, ls) /\ Reading(a, n, ls)
  BY <1>2 DEF Steady, InStep
<1>4. a \in {<<"rsp">>, <<"start", "end", "rsp">>} /\ n = Len(a) /\ Len(data) = Before(ls, n + 1)
      /\ \A k \in 1..n : Honest(ls[k])
  BY <1>2, <1>3 DEF Reading
<1>5. \A i \in 1..Len(data) : Placed(data[i], i, a, n, ls)
  BY <1>3 DEF Flow
<1>6. /\ Before(ls, 1) = 0 /\ Before(ls, 2) = CountOf(ls[1])
      /\ Before(ls, 3) = CountOf(ls[1]) + CountOf(ls[2])
      /\ Before(ls, 4) = CountOf(ls[1]) + CountOf(ls[2]) + CountOf(ls[3])
  BY DEF Before
<1>7. \A k \in 1..n : /\ k \in 1..3 /\ ls[k] \in Nat /\ ls[k] > 0 /\ CountOf(ls[k]) = ls[k]
                      /\ Before(ls, k) \in Nat /\ Before(ls, k + 1) = Before(ls, k) + ls[k]
  <2> TAKE k \in 1..n
  <2>1. k \in 1..3 /\ k \in 1..4
    OBVIOUS
  <2>2. /\ ls[k] \in Nat /\ CountOf(ls[k]) = ls[k] /\ ls[k] > LenField
        /\ Before(ls, k) \in Nat /\ Before(ls, k + 1) = Before(ls, k) + CountOf(ls[k])
    BY <1>4, <2>1, BeforeIs
  <2> QED
    BY <1>1, <2>1, <2>2
<1>8. \A i \in 1..Len(data), k \in 1..n :
        Before(ls, k) < i /\ i <= Before(ls, k + 1) =>
          data[i].of = Sent(a, ls, k) /\ data[i].at = i - Before(ls, k)
  BY <1>5 DEF Placed
<1>9. \A i \in 1..Len(data) : data[i].of.call = call
  <2> TAKE i \in 1..Len(data)
  <2>1. CASE n = 1
    <3>1. 1 \in 1..n /\ Before(ls, 1) < i /\ i <= Before(ls, 1 + 1)
      BY <1>1, <1>4, <1>6, <1>7, <2>1
    <3>2. data[i].of = Sent(a, ls, 1)
      BY <1>8, <3>1
    <3> QED
      BY <3>2 DEF Sent
  <2>2. CASE n = 3
    <3>1. PICK k \in 1..3 : Before(ls, k) < i /\ i <= Before(ls, k + 1)
      <4>1. i <= Before(ls, 4) /\ i \in Nat \ {0}
        BY <1>1, <1>4, <2>2
      <4>2. 2 \in 1..4 /\ 3 \in 1..4
        OBVIOUS
      <4>3. Before(ls, 2) \in Nat /\ Before(ls, 3) \in Nat
        BY <4>2, BeforeIs
      <4>4. CASE i <= Before(ls, 2)
        BY <1>6, <4>1, <4>4
      <4>5. CASE i > Before(ls, 2) /\ i <= Before(ls, 3)
        BY <4>5
      <4>6. CASE i > Before(ls, 3)
        BY <4>1, <4>6
      <4> QED
        BY <4>1, <4>3, <4>4, <4>5, <4>6
    <3> QED
      BY <1>8, <2>2, <3>1 DEF Sent
  <2> QED
    BY <1>4, <2>1, <2>2
<1>10. /\ n \in {1, 3} /\ a[n] = "rsp" /\ a[1] = (IF n = 1 THEN "rsp" ELSE "start")
       /\ n = 3 => a[2] = "end"
  <2>1. a \in {<<"rsp">>, <<"start", "end", "rsp">>} /\ n = Len(a)
    BY <1>4
  <2> QED
    BY <2>1
<1>11. \A k \in 1..n : /\ Before(ls, k) < Len(data)
                       /\ data[Before(ls, k) + 1].of = Sent(a, ls, k)
                       /\ data[Before(ls, k) + 1].at = 1
  <2> TAKE k \in 1..n
  <2>1. /\ Before(ls, k) \in Nat /\ Before(ls, k + 1) = Before(ls, k) + ls[k]
        /\ ls[k] \in Nat \ {0}
    BY <1>6, <1>7, <1>10
  <2>2. Before(ls, k) < Len(data)
    <3>1. k \in 1..4 /\ n + 1 \in 1..4 /\ k < n + 1
      BY <1>10
    <3> QED
      BY <1>4, <3>1, BeforeIs
  <2>3. Before(ls, k) + 1 \in 1..Len(data)
    BY <1>1, <2>1, <2>2
  <2> QED
    BY <1>8, <2>1, <2>2, <2>3
<1>12. data # <<>> /\ Last(data).at = Last(data).of.len /\ Last(data).of = Sent(a, ls, n)
  <2>1. /\ Before(ls, n) \in Nat /\ Len(data) = Before(ls, n) + ls[n]
        /\ ls[n] \in Nat \ {0}
    BY <1>4, <1>6, <1>7, <1>10
  <2>2. Len(data) \in 1..Len(data) /\ n \in 1..n
    BY <1>10, <2>1
  <2>3. data[Len(data)].of = Sent(a, ls, n) /\ data[Len(data)].at = ls[n]
    <3>1. Before(ls, n) < Len(data) /\ Len(data) <= Before(ls, n + 1)
      BY <1>1, <1>4, <2>1
    <3>2. /\ data[Len(data)].of = Sent(a, ls, n)
          /\ data[Len(data)].at = Len(data) - Before(ls, n)
      BY <1>8, <2>2, <3>1
    <3>3. \A x \in Nat, y \in Nat : (x + y) - x = y
      OBVIOUS
    <3> QED
      BY <2>1, <3>2, <3>3
  <2>4. Last(data) = data[Len(data)]
    BY DEF Last
  <2>5. data # <<>>
    BY <1>1, <2>2
  <2> QED
    BY <2>3, <2>4, <2>5 DEF Sent
<1>13. Last(data).of.type = "rsp"
  BY <1>10, <1>12 DEF Sent
<1>14. IpResponse(data) = Last(data).of
  <2>1. \A k \in 1..n : Header(data, Before(ls, k)) = Sent(a, ls, k)
    BY <1>11 DEF Header
  <2>2. CASE n = 1
    <3>1. Header(data, 0) = Sent(a, ls, 1)
      BY <1>6, <2>1, <2>2
    <3> QED
      BY <1>10, <1>12, <2>2, <3>1 DEF IpResponse, Sent
  <2>3. CASE n = 3
    <3>0. Before(ls, 2) = ls[1] /\ Before(ls, 3) = ls[1] + ls[2]
      <4>1. CountOf(ls[1]) = ls[1] /\ CountOf(ls[2]) = ls[2]
        BY <1>7, <2>3
      <4> QED
        BY <1>6, <4>1
    <3>1. /\ Header(data, 0) = Sent(a, ls, 1) /\ Header(data, ls[1]) = Sent(a, ls, 2)
          /\ Header(data, ls[1] + ls[2]) = Sent(a, ls, 3)
      BY <1>6, <2>1, <2>3, <3>0
    <3>2. /\ Sent(a, ls, 1).len = ls[1] /\ Sent(a, ls, 2).len = ls[2]
          /\ Sent(a, ls, 1).type = "start" /\ Sent(a, ls, 2).type = "end"
          /\ Sent(a, ls, 3).type = "rsp"
      BY <1>10, <2>3 DEF Sent
    <3> QED
      BY <1>12, <2>3, <3>1, <3>2 DEF IpResponse
  <2> QED
    BY <1>10, <2>2, <2>3
<1> QED
  BY <1>2, <1>9, <1>12, <1>13, <1>14 DEF Steady, Quiet, ExactAnswer

\* As long as every packet claims a sound length, an answer that is accepted is
\* one whole answer to this exchange, its response is where
\* ptpip_get_response_packet looks, and nothing of it is left on the stream.
THEOREM AnswersExact == Spec => []ExactAnswer
<1>1. IInv => ExactAnswer
  <2> SUFFICES ASSUME IInv, claims = "sound" PROVE ExactAnswer
    BY DEF ExactAnswer
  <2>1. Steady
    BY DEF IInv
  <2>2. CASE verdict = "ok" /\ call > 0
    BY <2>1, <2>2, WhatIsAccepted
  <2>3. CASE ~(verdict = "ok" /\ call > 0)
    BY <2>1, <2>3 DEF Steady, Quiet, ExactAnswer
  <2> QED
    BY <2>2, <2>3
<1> QED
  BY <1>1, IInvAlways, PTL

\* Reads of ptpip_read_packet stay inside r->data, and what they will read has room
\* there, until a packet has claimed a length that is not sound: one of the length
\* field or less, or one that takes the buffer beyond what an int can hold.
THEOREM BufferIsLarge == Spec => []BufferHolds
<1>1. ASSUME Steady, pc = "body" PROVE of + Here(data).len <= size
  <2>1. call > 0
    BY <1>1 DEF Steady, Always, Verdicts
  <2>2. PICK a \in Answers, n \in 0..3, ls \in [1..3 -> Lens] :
          Flow(a, n, ls) /\ Reading(a, n, ls)
    BY <1>1, <2>1 DEF Steady, InStep
  <2>3. ls[stage] \in Nat /\ Here(data) = Sent(a, ls, stage)
    BY <1>1, <2>2, AtPacket
  <2>4. of + LenField + ls[stage] <= size
    BY <1>1, <2>2 DEF Reading
  <2>5. of + ls[stage] <= size
    <3>1. of \in Nat /\ LenField \in Nat /\ size \in Nat
      <4>1. TypeOK
        BY <1>1 DEF Steady, Always
      <4> QED
        BY <4>1, Typed
    <3> QED
      BY <2>3, <2>4, <3>1
  <2> QED
    BY <2>3, <2>5 DEF Sent
<1>2. IInv => BufferHolds
  <2> SUFFICES ASSUME IInv, claims # "odd" PROVE BufferHolds
    BY DEF BufferHolds
  <2>1. TypeOK
    BY DEF IInv, Always
  <2>2. claims = "sound"
    BY <2>1 DEF TypeOK
  <2>3. Steady
    BY <2>2 DEF IInv
  <2> QED
    BY <1>1, <2>3 DEF Steady, Roomy, BufferHolds
<1> QED
  BY <1>2, IInvAlways, PTL
=============================================================================

--------------------------- MODULE DownloadProofs ---------------------------
(* Downloads do not mix: proofs about DownloadObject.                      *)
EXTENDS DownloadObject, SequenceTheorems, TLAPS

\* The first n units of d's object, and m of them from n on.
Prefix(d, n) == [i \in 1..n |-> Unit(d, i)]
Part(d, n, m) == [i \in 1..m |-> Unit(d, n + i)]

Holds(d) == pc[d] \in {"send", "write", "unlock"}
Running(d) == pc[d] \in {"fopen", "lock", "send", "write", "unlock"}

\* What a thread that is about to advance has already passed to fwrite.
Passed(d) == IF pc[d] = "unlock" THEN read[d] + partial[d] ELSE read[d]

\* A file has units of the first n of d's object, in order, and all of them as
\* long as the disk took everything.
Kept(d, f, n, flts) ==
  /\ \A i \in 1..Len(f) : f[i].of = d /\ f[i].at \in 1..n
  /\ \A i, j \in 1..Len(f) : i < j => f[i].at < f[j].at
  /\ "disk" \notin flts => f = Prefix(d, n)

DownloadAt(d) ==
  /\ Holds(d) <=> owner = d
  /\ Running(d) <=> result[d] = "none"
  /\ Running(d) => closes[d] = 0
  /\ pc[d] = "fclose" => closes[d] <= 1
  /\ Passed(d) <= Size[d]
  /\ Kept(d, file[d], Passed(d), faults[d])
  /\ pc[d] = "write" => /\ payload.of = d /\ payload.from = read[d]
                        /\ payload.len <= Chunk(d)
                        /\ payload.len < Chunk(d) => "chunk" \in faults[d]
  /\ pc[d] = "unlock" => /\ partial[d] # 0 /\ partial[d] <= Chunk(d)
                         /\ partial[d] < Chunk(d) => "chunk" \in faults[d]
  /\ result[d] = "ok" => Passed(d) = Size[d] \/ "chunk" \in faults[d]

DInv == TypeOK /\ \A d \in Downloads : DownloadAt(d)

LEMMA PrefixIsSeq ==
  ASSUME NEW d \in Downloads, NEW n \in Nat
  PROVE  /\ Prefix(d, n) \in Seq([of : Downloads \cup {Other}, at : Nat])
         /\ Len(Prefix(d, n)) = n
BY DEF Prefix, Unit

\* A chunk read at offset n extends the first n units to the first n + m.
LEMMA PrefixExtends ==
  ASSUME NEW d \in Downloads, NEW n \in Nat, NEW m \in Nat
  PROVE  Prefix(d, n) \o [i \in 1..m |-> Unit(d, n + i)] = Prefix(d, n + m)
<1> DEFINE U == [of : Downloads \cup {Other}, at : Nat]
           c == [i \in 1..m |-> Unit(d, n + i)]
<1>1. c \in Seq(U) /\ Len(c) = m
  <2>1. \A i \in 1..m : Unit(d, n + i) \in U
    BY DEF Unit
  <2> HIDE DEF U
  <2> QED
    BY <2>1
<1>2. /\ Prefix(d, n) \in Seq(U) /\ Len(Prefix(d, n)) = n
      /\ Prefix(d, n + m) \in Seq(U) /\ Len(Prefix(d, n + m)) = n + m
  <2>1. n + m \in Nat
    OBVIOUS
  <2> QED
    BY <2>1, PrefixIsSeq
<1>3. /\ Prefix(d, n) \o c \in Seq(U)
      /\ Len(Prefix(d, n) \o c) = n + m
      /\ \A i \in 1..(n + m) : (Prefix(d, n) \o c)[i] =
            IF i <= n THEN Prefix(d, n)[i] ELSE c[i - n]
  <2> HIDE DEF c, U
  <2> DEFINE p == Prefix(d, n)
  <2>1. p \in Seq(U) /\ Len(p) = n /\ c \in Seq(U) /\ Len(c) = m
    BY <1>1, <1>2
  <2> HIDE DEF p
  <2>2. /\ p \o c \in Seq(U)
        /\ Len(p \o c) = Len(p) + Len(c)
        /\ \A i \in 1..(Len(p) + Len(c)) : (p \o c)[i] =
              IF i <= Len(p) THEN p[i] ELSE c[i - Len(p)]
    BY <2>1, ConcatProperties
  <2>3. /\ p \o c \in Seq(U)
        /\ Len(p \o c) = n + m
        /\ \A i \in 1..(n + m) : (p \o c)[i] =
              IF i <= n THEN p[i] ELSE c[i - n]
    BY <2>1, <2>2
  <2> QED
    BY <2>3 DEF p
<1>4. \A i \in 1..(n + m) : (Prefix(d, n) \o c)[i] = Prefix(d, n + m)[i]
  <2> SUFFICES ASSUME NEW i \in 1..(n + m)
               PROVE  (Prefix(d, n) \o c)[i] = Prefix(d, n + m)[i]
    OBVIOUS
  <2>1. CASE i <= n
    BY <1>3, <2>1 DEF Prefix
  <2>2. CASE ~(i <= n)
    <3>1. i - n \in 1..m /\ n + (i - n) = i
      BY <2>2
    <3>2. c[i - n] = Unit(d, i)
      BY <3>1
    <3> QED
      BY <1>3, <2>2, <3>2 DEF Prefix
  <2> QED
    BY <2>1, <2>2
<1> HIDE DEF c, U
<1>5. Prefix(d, n) \o c = Prefix(d, n + m)
  BY <1>2, <1>3, <1>4, SeqEqual
<1> QED
  BY <1>5 DEF c

\* What the disk takes of a chunk keeps the file in order, and without gaps if it
\* is the whole chunk.
LEMMA PartKept ==
  ASSUME NEW d \in Downloads, NEW n \in Nat, NEW len \in Nat, NEW m \in 0..len,
         NEW f \in Seq([of : Downloads \cup {Other}, at : Nat]), NEW flts, NEW flts2,
         Kept(d, f, n, flts), flts \subseteq flts2, m < len => "disk" \in flts2
  PROVE  Kept(d, f \o Part(d, n, m), n + len, flts2)
<1> DEFINE U == [of : Downloads \cup {Other}, at : Nat]
           c == Part(d, n, m)
           g == f \o c
<1>1. c \in Seq(U) /\ Len(c) = m /\ \A i \in 1..m : c[i] = Unit(d, n + i)
  <2>1. \A i \in 1..m : Unit(d, n + i) \in U
    BY DEF Unit
  <2>2. m \in Nat
    OBVIOUS
  <2> HIDE DEF U
  <2> QED
    BY <2>1, <2>2 DEF Part
<1>2. f \in Seq(U) /\ Len(f) \in Nat
  OBVIOUS
<1> HIDE DEF U, c
<1>3. /\ g \in Seq(U) /\ Len(g) = Len(f) + m
      /\ \A i \in 1..Len(f) + m : g[i] = IF i <= Len(f) THEN f[i] ELSE c[i - Len(f)]
  <2>1. /\ f \o c \in Seq(U)
        /\ Len(f \o c) = Len(f) + Len(c)
        /\ \A i \in 1..(Len(f) + Len(c)) : (f \o c)[i] =
              IF i <= Len(f) THEN f[i] ELSE c[i - Len(f)]
    BY <1>1, <1>2, ConcatProperties
  <2> QED
    BY <1>1, <2>1
<1> HIDE DEF g
<1>4. \A i \in 1..Len(f) : f[i].of = d /\ f[i].at \in 1..n
  BY DEF Kept
<1>5. \A i, j \in 1..Len(f) : i < j => f[i].at < f[j].at
  BY DEF Kept
<1>6. \A i \in 1..Len(f) : g[i] = f[i] /\ i \in 1..Len(g)
  BY <1>2, <1>3
<1>7. ASSUME NEW i \in 1..Len(g), i > Len(f)
      PROVE  i - Len(f) \in 1..m /\ g[i].of = d /\ g[i].at = n + (i - Len(f))
  <2>1. i - Len(f) \in 1..m /\ ~(i <= Len(f)) /\ i \in 1..Len(f) + m
    BY <1>2, <1>3, <1>7
  <2>2. g[i] = Unit(d, n + (i - Len(f)))
    BY <1>1, <1>3, <2>1
  <2> QED
    BY <2>1, <2>2 DEF Unit
<1>8. \A i \in 1..Len(g) : i \in 1..Len(f) \/ i > Len(f)
  BY <1>2, <1>3
<1>9. ASSUME NEW i \in 1..Len(g) PROVE g[i].of = d /\ g[i].at \in 1..n + len
  <2>1. CASE i \in 1..Len(f)
    BY <1>4, <1>6, <2>1
  <2>2. CASE i > Len(f)
    BY <1>2, <1>7, <2>2
  <2> QED
    BY <1>8, <2>1, <2>2
<1>10. ASSUME NEW i \in 1..Len(g), NEW j \in 1..Len(g), i < j PROVE g[i].at < g[j].at
  <2>1. CASE j \in 1..Len(f)
    <3>1. i \in 1..Len(f)
      BY <1>10, <2>1
    <3> QED
      BY <1>5, <1>6, <1>10, <2>1, <3>1
  <2>2. CASE j > Len(f) /\ i \in 1..Len(f)
    <3>1. g[i].at \in 1..n
      BY <1>4, <1>6, <2>2
    <3>2. j - Len(f) \in 1..m /\ g[j].at = n + (j - Len(f))
      BY <1>7, <2>2
    <3> QED
      BY <3>1, <3>2
  <2>3. CASE j > Len(f) /\ i > Len(f)
    <3>1. /\ i - Len(f) \in 1..m /\ g[i].at = n + (i - Len(f))
          /\ j - Len(f) \in 1..m /\ g[j].at = n + (j - Len(f))
      BY <1>7, <2>3
    <3> QED
      BY <1>2, <1>10, <3>1
  <2> QED
    BY <1>8, <2>1, <2>2, <2>3
<1>11. "disk" \notin flts2 => g = Prefix(d, n + len)
  <2> SUFFICES ASSUME "disk" \notin flts2 PROVE g = Prefix(d, n + len)
    OBVIOUS
  <2>1. "disk" \notin flts /\ m = len
    OBVIOUS
  <2>2. f = Prefix(d, n)
    BY <2>1 DEF Kept
  <2>3. Prefix(d, n) \o [i \in 1..m |-> Unit(d, n + i)] = Prefix(d, n + m)
    <3>1. m \in Nat
      OBVIOUS
    <3> QED
      BY <3>1, PrefixExtends
  <2> QED
    BY <2>1, <2>2, <2>3 DEF g, c, Part
<1> QED
  BY <1>9, <1>10, <1>11 DEF Kept, g, c

\* More faults and the same file.
LEMMA KeptStill ==
  ASSUME NEW d \in Downloads, NEW n, NEW f, NEW flts, NEW flts2,
         Kept(d, f, n, flts), flts \subseteq flts2
  PROVE  Kept(d, f, n, flts2)
BY DEF Kept

LEMMA PartOfObject ==
  ASSUME NEW d \in Downloads, NEW n \in Nat, NEW m \in Nat, n + m <= Size[d]
  PROVE  SubSeq(Units[d], n + 1, n + m) = Part(d, n, m)
<1>1. Size[d] \in Nat
  BY LengthsAssumption
<1>2. Units[d] = Prefix(d, Size[d])
  BY DEF Units, Prefix
<1>3. SubSeq(Prefix(d, Size[d]), n + 1, n + m)
        = [i \in 1..m |-> Prefix(d, Size[d])[n + i]]
  <2>1. \A s : SubSeq(s, n + 1, n + m) = [i \in 1..(n + m) - (n + 1) + 1 |-> s[i + (n + 1) - 1]]
    OBVIOUS
  <2>2. (n + m) - (n + 1) + 1 = m /\ \A i \in 1..m : i + (n + 1) - 1 = n + i
    OBVIOUS
  <2> QED
    BY <2>1, <2>2
<1>4. \A i \in 1..m : Prefix(d, Size[d])[n + i] = Unit(d, n + i)
  BY <1>1 DEF Prefix
<1> QED
  BY <1>2, <1>3, <1>4 DEF Part

LEMMA ChunkFits ==
  ASSUME TypeOK, NEW d \in Downloads, read[d] <= Size[d]
  PROVE  Chunk(d) \in 0..Max /\ read[d] + Chunk(d) <= Size[d]
         /\ (Chunk(d) # Max => read[d] + Chunk(d) = Size[d])
<1>1. read[d] \in Nat
  BY DEF TypeOK
<1>2. Size[d] \in Nat /\ Max \in Nat
  BY LengthsAssumption
<1> QED
  BY <1>1, <1>2 DEF Chunk

LEMMA InitDInv == Init => DInv
<1> SUFFICES ASSUME Init PROVE DInv
  OBVIOUS
<1>1. TypeOK
  BY DownloadsAssumption, LengthsAssumption DEF Init, TypeOK, Results
<1>2. ASSUME NEW d \in Downloads PROVE DownloadAt(d)
  <2>1. Prefix(d, 0) = <<>>
    BY DEF Prefix
  <2>2. Kept(d, <<>>, 0, {})
    BY <2>1 DEF Kept
  <2> QED
    BY <2>2, DownloadsAssumption, LengthsAssumption
       DEF Init, DownloadAt, Holds, Running, Passed
<1> QED
  BY <1>1, <1>2 DEF DInv

\* A step of d leaves the other downloads as they are.
LEMMA OthersUndisturbed ==
  ASSUME DInv, NEW d \in Downloads, NEW e \in Downloads \ {d}, Step(d)
  PROVE  DownloadAt(e)'
<1>1. /\ pc'[e] = pc[e] /\ read'[e] = read[e] /\ partial'[e] = partial[e]
      /\ file'[e] = file[e] /\ closes'[e] = closes[e] /\ result'[e] = result[e]
      /\ faults'[e] = faults[e]
  BY DEF DInv, TypeOK, Step, Fopen, Lock, Send, SendFails, Empty, Write, Unlock,
         Advance, Fclose, Crash, Go, At
<1>2. owner' = e <=> owner = e
  BY DownloadsAssumption
     DEF DInv, DownloadAt, Holds, Step, Fopen, Lock, Send, SendFails, Empty,
         Write, Unlock, Fclose, Crash, At
<1>3. payload' = payload \/ pc[e] # "write"
  BY DEF DInv, DownloadAt, Holds, Step, Fopen, Lock, Send, SendFails, Empty,
         Write, Unlock, Fclose, Crash, At
<1>4. DownloadAt(e)
  BY DEF DInv
<1>5. Passed(e)' = Passed(e) /\ Chunk(e)' = Chunk(e) /\ Holds(e)' = Holds(e)
      /\ Running(e)' = Running(e)
  BY <1>1 DEF Passed, Chunk, Holds, Running
<1>6. Kept(e, file[e], Passed(e), faults[e])'
  BY <1>1, <1>4, <1>5 DEF DownloadAt, Kept, Prefix
<1> QED
  BY <1>1, <1>2, <1>3, <1>4, <1>5, <1>6 DEF DownloadAt

LEMMA StepType == ASSUME DInv, NEW d \in Downloads, Step(d) PROVE TypeOK'
<1> USE DEF At, Go
<1>0. /\ DownloadAt(d) /\ TypeOK
      /\ read[d] \in Nat /\ partial[d] \in 0..Max /\ Size[d] \in Nat
      /\ file[d] \in Seq([of : Downloads \cup {Other}, at : Nat])
      /\ closes[d] \in 0..2 /\ faults[d] \in SUBSET {"chunk", "disk"}
  BY LengthsAssumption DEF DInv, TypeOK
<1>1. CASE Fopen(d)
  BY <1>0, <1>1 DEF TypeOK, Fopen
<1>7. CASE Lock(d)
  BY <1>0, <1>7 DEF TypeOK, Lock
<1>8. CASE SendFails(d)
  BY <1>0, <1>8 DEF TypeOK, SendFails, Results
<1>9. CASE Crash(d)
  BY <1>0, <1>9 DEF TypeOK, Crash
<1>2. CASE Send(d)
  <2>1. Chunk(d) \in 0..Max
    BY <1>0, <1>2, ChunkFits DEF DownloadAt, Passed, Send
  <2>2. payload' \in [of : Downloads \cup {Other}, from : Nat, len : 0..Max]
    BY <1>0, <1>2, <2>1, LengthsAssumption DEF Send
  <2>3. faults' \in [Downloads -> SUBSET {"chunk", "disk"}]
    BY <1>0, <1>2 DEF Send, TypeOK
  <2> QED
    BY <1>0, <1>2, <2>2, <2>3 DEF TypeOK, Send
<1>3. CASE Empty(d)
  <2>1. closes[d] + 1 \in 0..2
    BY <1>0, <1>3 DEF DownloadAt, Running, Empty
  <2> QED
    BY <1>0, <1>3, <2>1 DEF TypeOK, Empty, Results
<1>4. CASE Write(d)
  <2>1. payload.len \in 0..Max /\ payload.from \in Nat
        /\ payload.of \in Downloads \cup {Other}
    BY <1>0 DEF TypeOK
  <2> DEFINE U == [of : Downloads \cup {Other}, at : Nat]
  <2>2. ASSUME NEW n \in 0..payload.len PROVE file[d] \o Bytes(n) \in Seq(U)
    <3>1. \A i \in 1..n : Unit(payload.of, payload.from + i) \in U
      BY <2>1, LengthsAssumption DEF Unit
    <3>2. n \in Nat
      BY <2>1, LengthsAssumption
    <3> HIDE DEF U
    <3>3. Bytes(n) \in Seq(U)
      BY <3>1, <3>2 DEF Bytes
    <3>4. file[d] \in Seq(U)
      BY <1>0 DEF U
    <3> QED
      BY <3>3, <3>4, ConcatProperties
  <2>3. PICK n \in 0..payload.len :
          /\ file' = [file EXCEPT ![d] = @ \o Bytes(n)]
          /\ faults' = [faults EXCEPT ![d] = IF n < payload.len THEN @ \cup {"disk"} ELSE @]
    BY <1>4 DEF Write
  <2>4. file' \in [Downloads -> Seq(U)]
    <3> DEFINE g == file[d] \o Bytes(n)
    <3>1. g \in Seq(U) /\ file \in [Downloads -> Seq(U)] /\ file' = [file EXCEPT ![d] = g]
      BY <1>0, <2>2, <2>3 DEF TypeOK
    <3> HIDE DEF g, U
    <3> QED
      BY <3>1
  <2>5. faults' \in [Downloads -> SUBSET {"chunk", "disk"}]
    BY <1>0, <2>3 DEF TypeOK
  <2> QED
    BY <1>0, <1>4, <2>1, <2>4, <2>5 DEF TypeOK, Write
<1>5. CASE Unlock(d)
  <2>1. read[d] + partial[d] \in Nat
    BY <1>0
  <2> QED
    BY <1>0, <1>5, <2>1 DEF TypeOK, Unlock, Advance, Results
<1>6. CASE Fclose(d)
  <2>1. closes[d] + 1 \in 0..2
    BY <1>0, <1>6 DEF DownloadAt, Fclose
  <2> QED
    BY <1>0, <1>6, <2>1 DEF TypeOK, Fclose
<1> QED
  BY <1>1, <1>2, <1>3, <1>4, <1>5, <1>6, <1>7, <1>8, <1>9 DEF Step

\* The chunk that d writes, and what it leaves in d's file.
LEMMA WriteIs ==
  ASSUME DInv, NEW d \in Downloads, Write(d)
  PROVE  /\ payload.len \in 1..Chunk(d) /\ read[d] \in Nat
         /\ pc'[d] = "unlock" /\ partial'[d] = payload.len
         /\ UNCHANGED <<owner, payload, read, open, closes, result, others, crashed>>
         /\ \E n \in 0..payload.len :
              /\ file' = [file EXCEPT ![d] = @ \o Part(d, read[d], n)]
              /\ faults' = [faults EXCEPT ![d] = IF n < payload.len THEN @ \cup {"disk"} ELSE @]
<1>1. /\ TypeOK /\ DownloadAt(d) /\ pc[d] = "write" /\ payload.len # 0
  BY DEF DInv, Write, At
<1>2. /\ payload.of = d /\ payload.from = read[d] /\ payload.len <= Chunk(d)
      /\ payload.len \in Nat /\ read[d] \in Nat /\ Chunk(d) \in Nat
  <2>1. payload.len \in 0..Max /\ read[d] \in Nat /\ Max \in Nat
    BY <1>1, LengthsAssumption DEF TypeOK
  <2>2. read[d] <= Size[d]
    BY <1>1 DEF DownloadAt, Passed
  <2>3. Chunk(d) \in 0..Max
    BY <1>1, <2>2, ChunkFits
  <2> QED
    BY <1>1, <2>1, <2>3 DEF DownloadAt
<1>3. payload.len \in 1..Chunk(d)
  BY <1>1, <1>2
<1>4. \A n \in 0..payload.len : Bytes(n) = Part(d, read[d], n)
  BY <1>2 DEF Bytes, Part
<1>5. pc'[d] = "unlock" /\ partial'[d] = payload.len
  BY <1>1 DEF Write, TypeOK, Go
<1>6. /\ UNCHANGED <<owner, payload, read, open, closes, result, others, crashed>>
      /\ \E n \in 0..payload.len :
           /\ file' = [file EXCEPT ![d] = @ \o Part(d, read[d], n)]
           /\ faults' = [faults EXCEPT ![d] = IF n < payload.len THEN @ \cup {"disk"} ELSE @]
  BY <1>4 DEF Write
<1> QED
  BY <1>2, <1>3, <1>5, <1>6

LEMMA StepOwn == ASSUME DInv, NEW d \in Downloads, Step(d) PROVE DownloadAt(d)'
<1> USE DEF At, Go
<1>0. /\ DownloadAt(d) /\ TypeOK
      /\ read[d] \in Nat /\ partial[d] \in 0..Max /\ Size[d] \in Nat
      /\ closes[d] \in 0..2 /\ d # NoOne
  BY DownloadsAssumption, LengthsAssumption DEF DInv, TypeOK
<1>t. /\ pc \in [Downloads -> {"fopen", "lock", "send", "write", "unlock",
                               "fclose", "done"}]
      /\ DOMAIN read = Downloads /\ DOMAIN partial = Downloads
      /\ DOMAIN file = Downloads /\ DOMAIN closes = Downloads
      /\ DOMAIN result = Downloads /\ DOMAIN faults = Downloads
  BY <1>0 DEF TypeOK
<1>1. CASE Fopen(d) \/ Lock(d) \/ Crash(d)
  <2>1. /\ UNCHANGED <<payload, read, partial, file, faults, closes, result>>
        /\ \/ pc'[d] = pc[d] /\ owner' = owner
           \/ pc'[d] = "lock" /\ pc[d] = "fopen" /\ owner' = owner
           \/ pc'[d] = "send" /\ pc[d] = "lock" /\ owner' = d
    <3>1. CASE Fopen(d)
      BY <1>t, <3>1 DEF Fopen
    <3>2. CASE Lock(d)
      BY <1>t, <3>2 DEF Lock
    <3>3. CASE Crash(d)
      BY <3>3 DEF Crash
    <3> QED
      BY <1>1, <3>1, <3>2, <3>3
  <2>2. Passed(d)' = Passed(d) /\ Chunk(d)' = Chunk(d)
    BY <2>1 DEF Passed, Chunk
  <2>3. Kept(d, file[d], Passed(d), faults[d])'
    BY <1>0, <2>1, <2>2 DEF DownloadAt, Kept, Prefix
  <2>4. (Holds(d) <=> owner = d)' /\ (Running(d) <=> result[d] = "none")'
        /\ (Running(d) => closes[d] = 0)' /\ (pc[d] = "fclose" => closes[d] <= 1)'
    BY <1>0, <2>1 DEF DownloadAt, Holds, Running
  <2> QED
    BY <1>0, <2>1, <2>2, <2>3, <2>4 DEF DownloadAt
<1>a. CASE Send(d)
  <2>1. PICK l \in 0..Chunk(d) :
          /\ payload' = [of |-> d, from |-> read[d], len |-> l]
          /\ faults' = [faults EXCEPT ![d] = IF l < Chunk(d) THEN @ \cup {"chunk"} ELSE @]
    BY <1>a DEF Send
  <2>2. /\ pc[d] = "send" /\ pc'[d] = "write"
        /\ UNCHANGED <<owner, read, partial, file, closes, result>>
    BY <1>t, <1>a DEF Send
  <2>3. /\ payload'.of = d /\ payload'.from = read[d] /\ payload'.len = l
        /\ faults[d] \subseteq faults'[d] /\ (l < Chunk(d) => "chunk" \in faults'[d])
    BY <1>t, <2>1
  <2>4. Passed(d)' = Passed(d) /\ Chunk(d)' = Chunk(d)
    BY <2>2 DEF Passed, Chunk
  <2>5. Kept(d, file[d], Passed(d), faults[d])'
    <3>1. Kept(d, file[d], Passed(d), faults[d])
      BY <1>0 DEF DownloadAt
    <3>2. Kept(d, file[d], Passed(d), faults'[d])
      BY <2>3, <3>1, KeptStill
    <3> QED
      BY <2>2, <2>4, <3>2 DEF Kept, Prefix
  <2>6. Chunk(d) \in 0..Max
    BY <1>0, <2>2, ChunkFits DEF DownloadAt, Passed
  <2>7. (Holds(d) <=> owner = d)' /\ (Running(d) <=> result[d] = "none")'
        /\ (Running(d) => closes[d] = 0)'
    BY <1>0, <2>2 DEF DownloadAt, Holds, Running
  <2>8. result'[d] = "none" /\ l <= Chunk(d)
    BY <1>0, <2>2, <2>6 DEF DownloadAt, Running
  <2> QED
    BY <1>0, <2>2, <2>3, <2>4, <2>5, <2>7, <2>8 DEF DownloadAt
<1>2. CASE SendFails(d) \/ Empty(d)
  <2>1. /\ UNCHANGED <<payload, read, partial, file, faults>> /\ owner' = NoOne
        /\ pc'[d] = "fclose" /\ pc[d] \in {"send", "write"}
        /\ result'[d] \in {"ok", "failed"} /\ closes'[d] \in {closes[d], closes[d] + 1}
        /\ result'[d] = "ok" => pc[d] = "write" /\ payload.len = 0
    BY <1>t, <1>2 DEF SendFails, Empty
  <2>2. Passed(d)' = Passed(d) /\ Passed(d) = read[d]
    BY <2>1 DEF Passed
  <2>3. Kept(d, file[d], Passed(d), faults[d])'
    BY <1>0, <2>1, <2>2 DEF DownloadAt, Kept, Prefix
  <2>4. closes'[d] <= 1
    BY <1>0, <2>1 DEF DownloadAt, Running
  <2>5. result'[d] = "ok" => Passed(d) = Size[d] \/ "chunk" \in faults[d]
    <3>1. Chunk(d) \in 0..Max /\ (Chunk(d) # Max => read[d] + Chunk(d) = Size[d])
      BY <1>0, <2>2, ChunkFits DEF DownloadAt
    <3>2. CASE Chunk(d) = 0
      BY <1>0, <2>2, <3>1, <3>2, LengthsAssumption
    <3>3. CASE Chunk(d) # 0
      BY <1>0, <2>1, <3>1, <3>3, LengthsAssumption DEF DownloadAt
    <3> QED
      BY <3>2, <3>3
  <2> QED
    BY <1>0, <2>1, <2>2, <2>3, <2>4, <2>5 DEF DownloadAt, Holds, Running
<1>3. CASE Write(d)
  <2>1. /\ payload.len \in 1..Chunk(d) /\ pc'[d] = "unlock" /\ partial'[d] = payload.len
        /\ UNCHANGED <<owner, payload, read, closes, result>>
    BY <1>3, WriteIs
  <2>2. PICK n \in 0..payload.len :
           /\ file' = [file EXCEPT ![d] = @ \o Part(d, read[d], n)]
           /\ faults' = [faults EXCEPT ![d] = IF n < payload.len THEN @ \cup {"disk"} ELSE @]
    BY <1>3, WriteIs
  <2>3. pc[d] = "write" /\ Passed(d) = read[d] /\ Passed(d)' = read[d] + payload.len
    BY <1>3, <2>1 DEF Write, Passed
  <2>4. read[d] + Chunk(d) <= Size[d] /\ Chunk(d) \in 0..Max
    BY <1>0, <2>3, ChunkFits DEF DownloadAt
  <2>5. /\ file'[d] = file[d] \o Part(d, read[d], n)
        /\ faults[d] \subseteq faults'[d] /\ (n < payload.len => "disk" \in faults'[d])
    BY <1>t, <2>2
  <2>6. Kept(d, file'[d], read[d] + payload.len, faults'[d])
    <3>1. Kept(d, file[d], read[d], faults[d])
      BY <1>0, <2>3 DEF DownloadAt
    <3>2. payload.len \in Nat /\ file[d] \in Seq([of : Downloads \cup {Other}, at : Nat])
      <4>1. payload.len \in Nat
        BY <2>1, <2>4, LengthsAssumption
      <4>2. file[d] \in Seq([of : Downloads \cup {Other}, at : Nat])
        BY <1>0 DEF TypeOK
      <4> QED
        BY <4>1, <4>2
    <3>3. Kept(d, file[d] \o Part(d, read[d], n), read[d] + payload.len, faults'[d])
      BY <1>0, <2>5, <3>1, <3>2, PartKept
    <3> QED
      BY <2>5, <3>3
  <2>7. Kept(d, file[d], Passed(d), faults[d])'
    BY <2>3, <2>6 DEF Kept, Prefix
  <2>8. Passed(d)' <= Size[d]
    <3>1. payload.len <= Chunk(d) /\ payload.len \in Nat /\ Chunk(d) \in Nat
      BY <2>1, <2>4
    <3> QED
      BY <1>0, <2>3, <2>4, <3>1
  <2>9. /\ partial'[d] # 0 /\ partial'[d] <= Chunk(d)
        /\ partial'[d] < Chunk(d) => "chunk" \in faults'[d]
    <3>1. payload.len < Chunk(d) => "chunk" \in faults[d]
      BY <1>0, <2>3 DEF DownloadAt
    <3> QED
      BY <2>1, <2>4, <2>5, <3>1
  <2>10. Chunk(d)' = Chunk(d) /\ result[d] = "none" /\ closes[d] = 0 /\ owner = d
    BY <1>0, <2>1, <2>3 DEF Chunk, DownloadAt, Running, Holds
  <2> QED
    BY <2>1, <2>7, <2>8, <2>9, <2>10 DEF DownloadAt, Holds, Running
<1>4. CASE Unlock(d)
  <2>1. /\ read'[d] = read[d] + partial[d] /\ owner' = NoOne /\ pc[d] = "unlock"
        /\ pc'[d] \in {"lock", "fclose"}
        /\ pc'[d] = "lock" => result'[d] = "none"
        /\ pc'[d] = "fclose" => result'[d] = "ok" /\ partial[d] # Max
        /\ UNCHANGED <<file, faults, closes>>
    BY <1>0, <1>t, <1>4 DEF Unlock, Advance, DownloadAt, Running
  <2>2. Passed(d)' = Passed(d) /\ Passed(d) = read[d] + partial[d]
    BY <2>1 DEF Passed
  <2>3. Kept(d, file[d], Passed(d), faults[d])'
    BY <1>0, <2>1, <2>2 DEF DownloadAt, Kept, Prefix
  <2>4. result'[d] = "ok" => Passed(d) = Size[d] \/ "chunk" \in faults[d]
    <3>1. partial[d] <= Chunk(d) /\ (partial[d] < Chunk(d) => "chunk" \in faults[d])
      BY <1>0, <2>1 DEF DownloadAt
    <3>2. read[d] <= Size[d]
      BY <1>0, <2>2 DEF DownloadAt
    <3>3. Chunk(d) \in 0..Max /\ (Chunk(d) # Max => read[d] + Chunk(d) = Size[d])
      BY <1>0, <3>2, ChunkFits
    <3>4. CASE partial[d] = Chunk(d)
      BY <2>1, <2>2, <3>3, <3>4
    <3>5. CASE partial[d] # Chunk(d)
      BY <1>0, <3>1, <3>3, <3>5
    <3> QED
      BY <3>4, <3>5
  <2> QED
    BY <1>0, <2>1, <2>2, <2>3, <2>4 DEF DownloadAt, Holds, Running
<1>5. CASE Fclose(d)
  <2>1. /\ pc[d] = "fclose" /\ pc'[d] = "done"
        /\ UNCHANGED <<owner, payload, read, partial, file, faults, result>>
    BY <1>t, <1>5 DEF Fclose
  <2>2. Passed(d)' = Passed(d)
    BY <2>1 DEF Passed
  <2>3. Kept(d, file[d], Passed(d), faults[d])'
    BY <1>0, <2>1, <2>2 DEF DownloadAt, Kept, Prefix
  <2> QED
    BY <1>0, <2>1, <2>2, <2>3 DEF DownloadAt, Holds, Running
<1> QED
  BY <1>1, <1>a, <1>2, <1>3, <1>4, <1>5 DEF Step

LEMMA NextDInv == ASSUME DInv, [Next]_vars PROVE DInv'
<1>1. ASSUME NEW d \in Downloads, Step(d) PROVE DInv'
  BY <1>1, StepType, StepOwn, OthersUndisturbed DEF DInv
<1>2. CASE OtherCommand
  <2>1. TypeOK'
    <3>1. payload' \in [of : Downloads \cup {Other}, from : Nat, len : 0..Max]
      BY <1>2, LengthsAssumption DEF OtherCommand
    <3>2. others' \in 0..MaxOthers
      BY <1>2, LengthsAssumption DEF DInv, TypeOK, OtherCommand
    <3> QED
      BY <1>2, <3>1, <3>2 DEF DInv, TypeOK, OtherCommand
  <2>2. ASSUME NEW d \in Downloads PROVE DownloadAt(d)'
    <3>1. /\ UNCHANGED <<pc, owner, read, partial, file, faults, closes, result>>
          /\ owner = NoOne
      BY <1>2 DEF OtherCommand
    <3>2. DownloadAt(d) /\ pc[d] # "write"
      BY <3>1, DownloadsAssumption DEF DInv, DownloadAt, Holds
    <3>3. Kept(d, file[d], Passed(d), faults[d])'
      BY <3>1, <3>2 DEF DownloadAt, Kept, Prefix, Passed
    <3> QED
      BY <3>1, <3>2, <3>3 DEF DownloadAt, Holds, Running, Passed, Chunk
  <2> QED
    BY <2>1, <2>2 DEF DInv
<1>3. CASE UNCHANGED vars
  <2>1. TypeOK'
    BY <1>3 DEF vars, DInv, TypeOK
  <2>2. ASSUME NEW d \in Downloads PROVE DownloadAt(d)'
    <3>1. DownloadAt(d)
      BY DEF DInv
    <3>2. Kept(d, file[d], Passed(d), faults[d])'
      BY <1>3, <3>1 DEF vars, DownloadAt, Kept, Prefix, Passed
    <3> QED
      BY <1>3, <3>1, <3>2 DEF vars, DownloadAt, Holds, Running, Passed, Chunk
  <2> QED
    BY <2>1, <2>2 DEF DInv
<1> QED
  BY <1>1, <1>2, <1>3 DEF Next, Done

\* The invariant holds in every reachable state.
THEOREM SpecDInv == Spec => []DInv
BY InitDInv, NextDInv, PTL DEF Spec

\* Every variable keeps its type; in particular no chunk is longer than asked
\* for and no file is closed more than twice.
THEOREM DownloadTypeCorrect == Spec => []TypeOK
<1>1. DInv => TypeOK
  BY DEF DInv
<1> QED
  BY <1>1, SpecDInv, PTL

\* Whatever other threads do with the buffer between two chunks, each file has
\* units of its own object only, each once and in order, without gaps as long as
\* the disk takes what is written; and success without a fault is the whole object.
THEOREM FilesArePrefixes == Spec => []FileIsPrefix
<1>1. DInv => FileIsPrefix
  <2> SUFFICES ASSUME DInv, NEW d \in Downloads
               PROVE  /\ \A i \in 1..Len(file[d]) : file[d][i].of = d
                      /\ \A i, j \in 1..Len(file[d]) : i < j => file[d][i].at < file[d][j].at
                      /\ "disk" \notin faults[d] =>
                           \A i \in 1..Len(file[d]) : file[d][i] = Unit(d, i)
                      /\ result[d] = "ok" /\ faults[d] = {} => Len(file[d]) = Size[d]
    BY DEF FileIsPrefix
  <2>1. /\ Kept(d, file[d], Passed(d), faults[d]) /\ Passed(d) \in Nat
        /\ result[d] = "ok" => Passed(d) = Size[d] \/ "chunk" \in faults[d]
    BY DEF DInv, DownloadAt, Passed, TypeOK
  <2>2. "disk" \notin faults[d] => /\ Len(file[d]) = Passed(d)
                                   /\ file[d] = Prefix(d, Passed(d))
    BY <2>1, PrefixIsSeq DEF Kept
  <2>3. "disk" \notin faults[d] => \A i \in 1..Len(file[d]) : file[d][i] = Unit(d, i)
    BY <2>2 DEF Prefix
  <2> QED
    BY <2>1, <2>2, <2>3 DEF Kept
<1> QED
  BY <1>1, SpecDInv, PTL

-----------------------------------------------------------------------------
LEMMA InitCopies == Init => Copy!CopyInit
BY DEF Init, Copy!CopyInit, Fetched

LEMMA FetchedIs ==
  /\ Fetched = [d \in Downloads |-> Passed(d)]
  /\ \A d \in Downloads : Fetched[d] = Passed(d)
BY DEF Fetched, Passed

\* A step of d that leaves what d has passed leaves what all have fetched.
LEMMA FetchedStill ==
  ASSUME NEW d \in Downloads, Passed(d)' = Passed(d),
         \A e \in Downloads \ {d} : Passed(e)' = Passed(e)
  PROVE  Fetched' = Fetched
<1>1. \A e \in Downloads : Passed(e)' = Passed(e)
  OBVIOUS
<1>2. Fetched' = [e \in Downloads |-> Passed(e)']
  BY DEF Fetched, Passed
<1> QED
  BY <1>1, <1>2, FetchedIs

LEMMA StepCopies ==
  ASSUME DInv, NEW d \in Downloads, Step(d)
  PROVE  Copy!Extend(d) \/ Copy!Short(d) \/ Copy!Complete(d) \/ Copy!Abandon(d)
         \/ UNCHANGED <<file, Fetched, faults, result>>
<1> USE DEF At, Go
<1>0. /\ DownloadAt(d) /\ TypeOK
      /\ read[d] \in Nat /\ partial[d] \in 0..Max /\ Size[d] \in Nat
  BY LengthsAssumption DEF DInv, TypeOK
<1>t. /\ pc \in [Downloads -> {"fopen", "lock", "send", "write", "unlock",
                               "fclose", "done"}]
      /\ DOMAIN read = Downloads /\ DOMAIN partial = Downloads
      /\ DOMAIN result = Downloads /\ DOMAIN faults = Downloads
  BY <1>0 DEF TypeOK
<1>u. Len(Units[d]) = Size[d]
  BY <1>0 DEF Units
<1>o. \A e \in Downloads \ {d} : Passed(e)' = Passed(e)
  <2> TAKE e \in Downloads \ {d}
  <2>1. pc'[e] = pc[e] /\ read'[e] = read[e] /\ partial'[e] = partial[e]
    BY <1>0 DEF TypeOK, Step, Fopen, Lock, Send, SendFails, Empty, Write, Unlock,
         Advance, Fclose, Crash
  <2> QED
    BY <2>1 DEF Passed
<1>k. ASSUME pc[d] # "unlock", pc'[d] # "unlock", UNCHANGED read
      PROVE  Fetched' = Fetched
  <2>1. Passed(d)' = Passed(d)
    BY <1>k DEF Passed
  <2> QED
    BY <1>o, <2>1, FetchedStill
<1>1. CASE Fopen(d) \/ Lock(d) \/ Fclose(d) \/ Crash(d)
  <2>1. pc[d] # "unlock" /\ pc'[d] # "unlock" /\ UNCHANGED <<read, file, faults, result>>
    BY <1>t, <1>1 DEF Fopen, Lock, Fclose, Crash
  <2> QED
    BY <1>k, <2>1
<1>2. CASE Send(d)
  <2>1. PICK l \in 0..Chunk(d) :
          faults' = [faults EXCEPT ![d] = IF l < Chunk(d) THEN @ \cup {"chunk"} ELSE @]
    BY <1>2 DEF Send
  <2>2. pc[d] = "send" /\ pc'[d] = "write" /\ UNCHANGED <<read, file, result>>
    BY <1>t, <1>2 DEF Send
  <2>3. Fetched' = Fetched
    BY <1>k, <2>2
  <2>4. CASE l < Chunk(d)
    <3>1. Fetched[d] < Len(Units[d])
      <4>1. Fetched[d] = read[d] /\ read[d] <= Size[d]
        BY <1>0, <2>2, FetchedIs DEF DownloadAt, Passed
      <4>2. Chunk(d) \in 0..Max /\ read[d] + Chunk(d) <= Size[d]
        BY <1>0, <4>1, ChunkFits
      <4>3. Chunk(d) > 0
        BY <2>4, <4>2, LengthsAssumption
      <4> QED
        BY <1>0, <1>u, <4>1, <4>2, <4>3, LengthsAssumption
    <3>2. result[d] = "none"
      BY <1>0, <2>2 DEF DownloadAt, Running
    <3> QED
      BY <2>1, <2>2, <2>3, <2>4, <3>1, <3>2 DEF Copy!Short
  <2>5. CASE ~(l < Chunk(d))
    <3>1. faults' = [faults EXCEPT ![d] = faults[d]]
      BY <2>1, <2>5
    <3>2. faults' = faults
      BY <1>0, <3>1 DEF TypeOK
    <3> QED
      BY <2>2, <2>3, <3>2
  <2> QED
    BY <2>4, <2>5
<1>3. CASE SendFails(d)
  <2>1. pc[d] = "send" /\ pc'[d] = "fclose" /\ UNCHANGED <<read, file, faults>>
    BY <1>t, <1>3 DEF SendFails
  <2>2. Fetched' = Fetched
    BY <1>k, <2>1
  <2>3. result[d] = "none"
    BY <1>0, <2>1 DEF DownloadAt, Running
  <2> QED
    BY <1>3, <2>1, <2>2, <2>3 DEF SendFails, Copy!Abandon
<1>4. CASE Empty(d)
  <2>1. /\ pc[d] = "write" /\ pc'[d] = "fclose" /\ UNCHANGED <<read, file, faults>>
        /\ payload.len = 0 /\ result' = [result EXCEPT ![d] = "ok"]
    BY <1>t, <1>4 DEF Empty
  <2>2. Fetched' = Fetched
    BY <1>k, <2>1
  <2>3. result[d] = "none" /\ Fetched[d] = read[d] /\ read[d] <= Size[d]
    BY <1>0, <2>1, FetchedIs DEF DownloadAt, Running, Passed
  <2>4. read[d] = Size[d] \/ "chunk" \in faults[d]
    <3>1. Chunk(d) \in 0..Max /\ (Chunk(d) # Max => read[d] + Chunk(d) = Size[d])
      BY <1>0, <2>3, ChunkFits
    <3>2. CASE Chunk(d) = 0
      BY <1>0, <3>1, <3>2, LengthsAssumption
    <3>3. CASE Chunk(d) # 0
      BY <1>0, <2>1, <3>1, <3>3, LengthsAssumption DEF DownloadAt
    <3> QED
      BY <3>2, <3>3
  <2> QED
    BY <1>u, <2>1, <2>2, <2>3, <2>4 DEF Copy!Complete
<1>5. CASE Write(d)
  <2>1. /\ payload.len \in 1..Chunk(d) /\ pc'[d] = "unlock" /\ partial'[d] = payload.len
        /\ UNCHANGED <<owner, payload, read, closes, result>>
    BY <1>5, WriteIs
  <2>2. PICK k \in 0..payload.len :
           /\ file' = [file EXCEPT ![d] = @ \o Part(d, read[d], k)]
           /\ faults' = [faults EXCEPT ![d] = IF k < payload.len THEN @ \cup {"disk"} ELSE @]
    BY <1>5, WriteIs
  <2> DEFINE n == read[d] + payload.len
             m == read[d] + k
  <2>3. /\ Fetched[d] = read[d] /\ read[d] <= Size[d] /\ result[d] = "none"
    BY <1>0, <1>5, FetchedIs DEF Write, DownloadAt, Running, Passed
  <2>4. Chunk(d) \in 0..Max /\ read[d] + Chunk(d) <= Size[d]
    BY <1>0, <2>3, ChunkFits
  <2>5. /\ payload.len \in Nat /\ k \in Nat /\ payload.len > 0 /\ k <= payload.len
        /\ n \in Nat /\ m \in Nat /\ m <= n /\ n <= Size[d] /\ n >= read[d] + 1
        /\ m >= read[d] /\ (k < payload.len <=> m < n)
    BY <1>0, <2>1, <2>4, LengthsAssumption
  <2>6. n \in (Fetched[d] + 1)..Len(Units[d]) /\ m \in Fetched[d]..Len(Units[d])
    BY <1>0, <1>u, <2>3, <2>5
  <2>7. SubSeq(Units[d], Fetched[d] + 1, m) = Part(d, read[d], k)
    <3>1. read[d] + k <= Size[d] /\ k \in Nat
      BY <1>0, <2>5
    <3>2. SubSeq(Units[d], read[d] + 1, read[d] + k) = Part(d, read[d], k)
      BY <1>0, <3>1, PartOfObject
    <3> QED
      BY <2>3, <3>2
  <2>8. Fetched' = [Fetched EXCEPT ![d] = n]
    <3>1. Fetched' = [e \in Downloads |-> Passed(e)']
      BY DEF Fetched, Passed
    <3>2. Passed(d)' = n
      BY <2>1 DEF Passed
    <3> HIDE DEF n
    <3> QED
      BY <1>o, <3>1, <3>2, FetchedIs
  <2> HIDE DEF n, m
  <2>9. /\ file' = [file EXCEPT ![d] = @ \o SubSeq(Units[d], Fetched[d] + 1, m)]
        /\ faults' = [faults EXCEPT ![d] = IF m < n THEN @ \cup {"disk"} ELSE @]
    BY <2>2, <2>5, <2>7
  <2> QED
    BY <2>1, <2>3, <2>5, <2>6, <2>8, <2>9 DEF Copy!Extend
<1>6. CASE Unlock(d)
  <2>1. /\ pc[d] = "unlock" /\ pc'[d] # "unlock" /\ read'[d] = read[d] + partial[d]
        /\ UNCHANGED <<file, faults>>
    BY <1>t, <1>6 DEF Unlock, Advance
  <2>2. Passed(d)' = Passed(d) /\ Passed(d) = read[d] + partial[d]
    BY <2>1 DEF Passed
  <2>3. Fetched' = Fetched /\ Fetched[d] = Passed(d)
    BY <1>o, <2>2, FetchedStill, FetchedIs
  <2>4. CASE partial[d] = Max
    BY <1>6, <2>1, <2>3, <2>4 DEF Unlock, Advance
  <2>5. CASE partial[d] # Max
    <3>1. result' = [result EXCEPT ![d] = "ok"] /\ result'[d] = "ok"
      BY <1>t, <1>6, <2>5 DEF Unlock, Advance
    <3>2. Passed(d) = Size[d] \/ "chunk" \in faults[d]
      <4>1. DownloadAt(d)'
        BY StepOwn
      <4> QED
        BY <2>1, <2>2, <3>1, <4>1 DEF DownloadAt
    <3>3. result[d] = "none"
      BY <1>0, <2>1 DEF DownloadAt, Running
    <3> QED
      BY <1>u, <2>1, <2>3, <3>1, <3>2, <3>3 DEF Copy!Complete
  <2> QED
    BY <2>4, <2>5
<1> QED
  BY <1>1, <1>2, <1>3, <1>4, <1>5, <1>6 DEF Step

\* The downloads together implement ObjectCopy: every chunk goes to the disk
\* where the last one ended, and success comes at the end of the object or after
\* a chunk that was short.
THEOREM DownloadsCopy == Spec => CopiesObject
<1>1. ASSUME DInv, [Next]_vars
      PROVE  [Copy!CopyNext]_<<file, Fetched, faults, result>>
  <2>1. ASSUME NEW d \in Downloads, Step(d)
        PROVE  [Copy!CopyNext]_<<file, Fetched, faults, result>>
    BY <1>1, <2>1, StepCopies DEF Copy!CopyNext
  <2>2. CASE OtherCommand \/ Done \/ UNCHANGED vars
    <3>1. UNCHANGED <<pc, read, partial, file, faults, result>>
      BY <2>2 DEF OtherCommand, Done, vars
    <3> QED
      BY <3>1 DEF Fetched
  <2> QED
    BY <1>1, <2>1, <2>2 DEF Next
<1> QED
  BY <1>1, InitCopies, SpecDInv, PTL DEF Spec, CopiesObject, Copy!CopySpec
=============================================================================

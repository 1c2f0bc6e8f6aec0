----------------------------- MODULE CodecProofs -----------------------------
(* The conversions of the library: proofs about Codec and the modules it    *)
(* stands on, for data of any length.  What the jobs of a caller look like  *)
(* is a hypothesis of each theorem; MCJobsAreJobs has TLC evaluate it.      *)
EXTENDS Codec, WellFoundedInduction, SequenceTheorems, TLAPS

-----------------------------------------------------------------------------
(* Induction over the naturals, from the least-number principle of the     *)
(* library: the induction theorems take an operator, which no backend can  *)
(* instantiate; a set of naturals they can.                                *)

\* Every set of naturals that is not empty has a least member.
LEMMA LeastNatural ==
  ASSUME NEW S \in SUBSET Nat, S # {}
  PROVE  \E m \in S : \A k \in S : m <= k
<1>1. \E m \in S : \A k \in S : ~(<<k, m>> \in OpToRel(<, Nat))
  BY WFMin, NatLessThanWellFounded
<1>2. ASSUME NEW m \in S, NEW k \in S, ~(<<k, m>> \in OpToRel(<, Nat))
      PROVE  m <= k
  <2>1. ~(k < m)
    BY <1>2 DEF OpToRel
  <2> QED
    BY <2>1
<1> QED
  BY <1>1, <1>2

\* Induction up to n: what holds of 0 and of each successor.
LEMMA UpTo ==
  ASSUME NEW n \in Nat, NEW S, 0 \in S,
         \A k \in 0..n - 1 : k \in S => k + 1 \in S
  PROVE  \A k \in 0..n : k \in S
<1> DEFINE R == {k \in 0..n : k \notin S}
<1>1. SUFFICES ASSUME R # {} PROVE FALSE
  OBVIOUS
<1>2. R \in SUBSET Nat
  OBVIOUS
<1>3. \E m \in R : \A k \in R : m <= k
  <2> HIDE DEF R
  <2> QED
    BY <1>1, <1>2, LeastNatural
<1>4. PICK m \in R : \A k \in R : m <= k
  BY <1>3
<1>5. m # 0 /\ m - 1 \in 0..n - 1 /\ m - 1 \in 0..n
  BY <1>4
<1>6. m - 1 \in S
  BY <1>4, <1>5
<1> QED
  BY <1>4, <1>5, <1>6

\* f begins with b, and a step leads from each of its values to the next.
Runs(f, n, b, step) == f[0] = b /\ \A k \in 1..n : f[k] = step[k][f[k - 1]]

\* A first value and the steps give a function on 0..n.
LEMMA Recursion ==
  ASSUME NEW n \in Nat, NEW T, NEW b \in T, NEW step \in [1..n -> [T -> T]]
  PROVE  \E f \in [0..n -> T] : Runs(f, n, b, step)
<1> USE DEF Runs
<1> DEFINE S == {m \in 0..n : \E f \in [0..m -> T] : Runs(f, m, b, step)}
<1>1. 0 \in S
  <2> DEFINE g == [k \in 0..0 |-> b]
  <2>1. g \in [0..0 -> T] /\ Runs(g, 0, b, step)
    OBVIOUS
  <2> HIDE DEF g
  <2>2. \E f \in [0..0 -> T] : Runs(f, 0, b, step)
    BY <2>1
  <2> QED
    BY <2>2
<1>2. ASSUME NEW m \in 0..n - 1, m \in S PROVE m + 1 \in S
  <2>1. PICK f \in [0..m -> T] : Runs(f, m, b, step)
    BY <1>2
  <2> DEFINE g == [k \in 0..m + 1 |-> IF k = m + 1 THEN step[m + 1][f[m]] ELSE f[k]]
  <2>2. m + 1 \in 1..n /\ m \in 0..m
    OBVIOUS
  <2>3. step[m + 1][f[m]] \in T
    BY <2>2
  <2>4. g \in [0..m + 1 -> T] /\ g[0] = b
    BY <2>1, <2>3
  <2>5. ASSUME NEW k \in 1..m + 1 PROVE g[k] = step[k][g[k - 1]]
    <3>1. k \in 0..m + 1 /\ k - 1 \in 0..m + 1 /\ k - 1 # m + 1
      OBVIOUS
    <3>2. g[k - 1] = f[k - 1]
      BY <3>1
    <3>3. CASE k = m + 1
      <4>1. g[k] = step[k][f[m]] /\ k - 1 = m
        BY <3>1, <3>3
      <4> QED
        BY <3>2, <4>1
    <3>4. CASE k # m + 1
      <4>1. k \in 1..m /\ g[k] = f[k]
        BY <3>1, <3>4
      <4> QED
        BY <2>1, <3>2, <4>1
    <3> QED
      BY <3>3, <3>4
  <2> HIDE DEF g
  <2>6. Runs(g, m + 1, b, step)
    BY <2>4, <2>5
  <2>7. m + 1 \in 0..n
    OBVIOUS
  <2> QED
    BY <2>4, <2>6, <2>7
<1> HIDE DEF S
<1>3. \A k \in 0..n : k \in S
  BY <1>1, <1>2, UpTo
<1> QED
  BY <1>3 DEF S

\* The sequences of FlattenSeq up to each of its arguments.
LEMMA FlattenSeqIs ==
  ASSUME NEW T, NEW s \in Seq(Seq(T)), s # <<>>
  PROVE  \E fl \in [1..Len(s) -> Seq(T)] :
           /\ fl[1] = s[1]
           /\ \A i \in 2..Len(s) : fl[i] = fl[i - 1] \o s[i]
           /\ FlattenSeq(s) = fl[Len(s)]
<1> DEFINE n == Len(s) - 1
           b == s[1]
           U == Seq(T)
           step == [k \in 1..n |-> [t \in U |-> t \o s[k + 1]]]
           D(g) == g = [i \in 1..Len(s) |-> IF i = 1 THEN s[i] ELSE g[i - 1] \o s[i]]
           c == CHOOSE g : D(g)
<1>1. n \in Nat /\ Len(s) \in Nat /\ Len(s) = n + 1 /\ b \in U /\ \A i \in 1..n + 1 : s[i] \in U
  OBVIOUS
<1>2. step \in [1..n -> [U -> U]]
  BY <1>1
<1>3. ASSUME NEW k \in 1..n, NEW t \in U PROVE step[k][t] = t \o s[k + 1]
  OBVIOUS
<1> HIDE DEF n, b, U, step
<1>4. PICK f \in [0..n -> U] : Runs(f, n, b, step)
  BY <1>1, <1>2, Recursion
<1>5. ASSUME NEW i \in 1..Len(s)
      PROVE  f[i - 1] = IF i = 1 THEN s[i] ELSE f[(i - 1) - 1] \o s[i]
  <2>1. CASE i = 1
    BY <1>4, <2>1 DEF Runs, b
  <2>2. CASE i # 1
    <3>1. i - 1 \in 1..n /\ (i - 1) - 1 \in 0..n /\ (i - 1) + 1 = i
      BY <1>1, <2>2
    <3>2. f[i - 1] = step[i - 1][f[(i - 1) - 1]]
      BY <1>4, <3>1 DEF Runs
    <3> QED
      BY <1>3, <2>2, <3>1, <3>2
  <2> QED
    BY <2>1, <2>2
<1> DEFINE g == [i \in 1..Len(s) |-> f[i - 1]]
<1>6. D(g)
  <2>1. ASSUME NEW i \in 1..Len(s) PROVE g[i] = IF i = 1 THEN s[i] ELSE g[i - 1] \o s[i]
    <3>1. i # 1 => i - 1 \in 1..Len(s)
      BY <1>1
    <3> QED
      BY <1>5, <3>1
  <2> QED
    BY <2>1
<1> HIDE DEF g
<1>7. D(c)
  BY <1>6
<1>8. FlattenSeq(s) = c[Len(s)]
  BY <1>1 DEF FlattenSeq
<1> HIDE DEF c
<1> DEFINE R == {k \in 0..n : c[k + 1] \in U}
<1>9. 0 \in R
  BY <1>1, <1>7 DEF b
<1>10. ASSUME NEW k \in 0..n - 1, k \in R PROVE k + 1 \in R
  <2>1. k + 1 \in 1..Len(s) /\ k + 2 \in 1..Len(s) /\ (k + 2) - 1 = k + 1 /\ k + 2 # 1
    BY <1>1
  <2>2. c[k + 2] = c[k + 1] \o s[k + 2]
    BY <1>7, <2>1
  <2>3. c[k + 2] \in U
    BY <1>1, <1>10, <2>1, <2>2 DEF U
  <2> QED
    BY <1>1, <2>3
<1> HIDE DEF R
<1>11. \A k \in 0..n : k \in R
  BY <1>1, <1>9, <1>10, UpTo
<1>12. ASSUME NEW i \in 1..Len(s) PROVE c[i] \in Seq(T)
  <2>1. i - 1 \in 0..n /\ (i - 1) + 1 = i
    BY <1>1
  <2> QED
    BY <1>11, <2>1 DEF R, U
<1>13. c \in [1..Len(s) -> Seq(T)]
  BY <1>7, <1>12
<1>14. c[1] = s[1]
  BY <1>1, <1>7
<1>15. ASSUME NEW i \in 2..Len(s) PROVE c[i] = c[i - 1] \o s[i]
  <2>1. i \in 1..Len(s) /\ i # 1
    BY <1>1
  <2> QED
    BY <1>7, <2>1
<1> QED
  BY <1>8, <1>13, <1>14, <1>15

-----------------------------------------------------------------------------
(* Bytes and strings.                                                      *)

\* The bytes w stand in d behind the first "of" bytes.
Stands(w, d, of) == of + Len(w) <= Len(d) /\ \A i \in 1..Len(w) : d[of + i] = w[i]

LEMMA StandsAt ==
  ASSUME NEW d \in Seq(Int), NEW w \in Seq(Int), NEW of \in Nat, Stands(w, d, of),
         NEW i \in 1..Len(w)
  PROVE  At(d, of + (i - 1)) = w[i]
<1>1. of + (i - 1) < Len(d) /\ of + (i - 1) + 1 = of + i /\ Len(w) \in Nat /\ Len(d) \in Nat
  BY DEF Stands
<1> QED
  BY <1>1 DEF Stands, At

\* A sequence stands where its two parts stand, one behind the other.
LEMMA StandsParts ==
  ASSUME NEW T, NEW d \in Seq(T), NEW w1 \in Seq(T), NEW w2 \in Seq(T), NEW of \in Nat,
         Stands(w1 \o w2, d, of)
  PROVE  Stands(w1, d, of) /\ Stands(w2, d, of + Len(w1))
<1>1. Len(w1) \in Nat /\ Len(w2) \in Nat /\ Len(w1 \o w2) = Len(w1) + Len(w2) /\ Len(d) \in Nat
  OBVIOUS
<1>2. Stands(w1, d, of)
  <2>1. ASSUME NEW i \in 1..Len(w1) PROVE d[of + i] = w1[i]
    <3>1. i \in 1..Len(w1 \o w2) /\ (w1 \o w2)[i] = w1[i]
      BY <1>1
    <3> QED
      BY <3>1 DEF Stands
  <2> QED
    BY <1>1, <2>1 DEF Stands
<1>3. Stands(w2, d, of + Len(w1))
  <2>1. ASSUME NEW i \in 1..Len(w2) PROVE d[of + Len(w1) + i] = w2[i]
    <3>1. Len(w1) + i \in 1..Len(w1 \o w2) /\ (w1 \o w2)[Len(w1) + i] = w2[i]
      BY <1>1
    <3>2. d[of + (Len(w1) + i)] = w2[i]
      BY <3>1 DEF Stands
    <3> QED
      BY <1>1, <3>2
  <2> QED
    BY <1>1, <2>1 DEF Stands
<1> QED
  BY <1>2, <1>3

LEMMA StandsFirst ==
  ASSUME NEW T, NEW w1 \in Seq(T), NEW w2 \in Seq(T)
  PROVE  Stands(w1, w1 \o w2, 0)
BY DEF Stands

LEMMA StandsWhole == ASSUME NEW T, NEW w \in Seq(T) PROVE Stands(w, w, 0)
BY DEF Stands

\* The bytes of a number, lowest first.
ByteOf(v, i) == CASE i = 1 -> v % 256 [] i = 2 -> (v \div 256) % 256
                  [] i = 3 -> (v \div 65536) % 256 [] i = 4 -> (v \div 16777216) % 256

\* The bytes of a number written with n bytes.
LEMMA LeBytes ==
  ASSUME NEW n \in 1..8, NEW v \in Int
  PROVE  /\ Le(n, v) \in Seq(Int)
         /\ Len(Le(n, v)) = n
         /\ \A i \in 1..n : i <= 4 => Le(n, v)[i] = ByteOf(v, i)
<1>1. Place[1] = 1 /\ Place[2] = 256 /\ Place[3] = 65536 /\ Place[4] = 16777216
  BY SMT DEF Place
<1>2. ASSUME NEW i \in 1..n, i <= 4 PROVE Le(n, v)[i] = ByteOf(v, i) /\ Le(n, v)[i] \in Int
  <2>1. Le(n, v)[i] = (v \div Place[i]) % 256
    BY <1>2, SMT DEF Le
  <2>2. CASE i = 1
    BY <1>1, <2>1, <2>2, SMT DEF ByteOf
  <2>3. CASE i = 2
    BY <1>1, <2>1, <2>3, SMT DEF ByteOf
  <2>4. CASE i = 3
    BY <1>1, <2>1, <2>4, SMT DEF ByteOf
  <2>5. CASE i = 4
    BY <1>1, <2>1, <2>5, SMT DEF ByteOf
  <2> QED
    BY <1>2, <2>2, <2>3, <2>4, <2>5
<1>3. ASSUME NEW i \in 1..n, i > 4 PROVE Le(n, v)[i] \in Int
  BY <1>3 DEF Le
<1>4. Le(n, v) = [i \in 1..n |-> Le(n, v)[i]]
  BY DEF Le
<1>5. Le(n, v) \in Seq(Int) /\ Len(Le(n, v)) = n
  <2> DEFINE w == Le(n, v)
  <2>1. \A i \in 1..n : w[i] \in Int
    BY <1>2, <1>3
  <2>2. w = [i \in 1..n |-> w[i]]
    BY <1>4
  <2> HIDE DEF w
  <2>3. w \in Seq(Int) /\ Len(w) = n
    BY <2>1, <2>2
  <2> QED
    BY <2>3 DEF w
<1> QED
  BY <1>2, <1>5

\* A number of at most three bytes is the sum of its bytes.
LEMMA BytesOfNumber ==
  ASSUME NEW v \in Nat
  PROVE  /\ v < 256 => ByteOf(v, 1) = v
         /\ v < 65536 => ByteOf(v, 1) + 256 * ByteOf(v, 2) = v
         /\ v < 16777216 => ByteOf(v, 1) + 256 * ByteOf(v, 2) + 65536 * ByteOf(v, 3) = v
<1>1. ByteOf(v, 1) = v % 256 /\ ByteOf(v, 2) = (v \div 256) % 256 /\ ByteOf(v, 3) = (v \div 65536) % 256
  BY SMT DEF ByteOf
<1>2. v < 256 => v % 256 = v
  BY SMT
<1>3. v < 65536 => (v % 256) + 256 * ((v \div 256) % 256) = v
  BY SMT
<1>4. v < 16777216 => (v % 256) + 256 * ((v \div 256) % 256) + 65536 * ((v \div 65536) % 256) = v
  BY SMT
<1> QED
  BY <1>1, <1>2, <1>3, <1>4, SMT

\* A number is read back from where it stands, in every width there is.
LEMMA ReadsNumber ==
  ASSUME NEW n \in {1, 2, 3, 4, 8}, NEW v, Fits(n, v),
         NEW d \in Seq(Int), NEW of \in Nat, Stands(Le(n, v), d, of)
  PROVE  Unsigned(d, of, n) = v
<1>1. v \in Nat /\ v \in Int /\ n \in 1..8
  BY SMT DEF Fits
<1>2. /\ Le(n, v) \in Seq(Int)
      /\ Len(Le(n, v)) = n
      /\ \A i \in 1..n : i <= 4 => Le(n, v)[i] = ByteOf(v, i)
  BY <1>1, LeBytes
<1>3. ASSUME NEW i \in 1..n, i <= 4 PROVE At(d, of + (i - 1)) = ByteOf(v, i)
  BY <1>2, <1>3, StandsAt
<1>4. At(d, of) = ByteOf(v, 1)
  <2>1. 1 \in 1..n /\ 1 <= 4 /\ of + (1 - 1) = of
    BY <1>1
  <2> QED
    BY <1>3, <2>1
<1>5. n > 1 => At(d, of + 1) = ByteOf(v, 2)
  <2>1. n > 1 => 2 \in 1..n /\ 2 - 1 = 1 /\ 2 <= 4
    BY <1>1
  <2> QED
    BY <1>3, <2>1
<1>6. n > 2 => At(d, of + 2) = ByteOf(v, 3)
  <2>1. n > 2 => 3 \in 1..n /\ 3 - 1 = 2 /\ 3 <= 4
    BY <1>1
  <2> QED
    BY <1>3, <2>1
<1>8. /\ v < 256 => ByteOf(v, 1) = v
      /\ v < 65536 => ByteOf(v, 1) + 256 * ByteOf(v, 2) = v
      /\ v < 16777216 => ByteOf(v, 1) + 256 * ByteOf(v, 2) + 65536 * ByteOf(v, 3) = v
  BY <1>1, BytesOfNumber, SMT
<1>9. CASE n = 1
  BY <1>1, <1>4, <1>8, <1>9, SMT DEF Unsigned, Fits
<1>10. CASE n = 2
  BY <1>1, <1>4, <1>5, <1>8, <1>10, SMT DEF Unsigned, Fits
<1>11. CASE n \in {3, 4, 8}
  BY <1>1, <1>4, <1>5, <1>6, <1>8, <1>11, SMT DEF Unsigned, Fits
<1> QED
  BY <1>9, <1>10, <1>11

\* The length byte of a string does not wrap.
LEMMA LongestByte == Longest \in Nat /\ \A n \in Nat : n <= Longest => (n + 1) % 256 = n + 1
BY SMT DEF Longest

\* A function written as a sequence is one.
LEMMA IsSeq ==
  ASSUME NEW T, NEW n \in Nat, NEW c, c = [i \in 1..n |-> c[i]], \A i \in 1..n : c[i] \in T
  PROVE  c \in Seq(T) /\ Len(c) = n
OBVIOUS

\* BeforeNul stops at the first 0.
LEMMA BeforeNulIs ==
  ASSUME NEW s \in Seq(Int), NEW n \in 1..Len(s), s[n] = 0, \A i \in 1..n - 1 : s[i] # 0
  PROVE  BeforeNul(s) = SubSeq(s, 1, n - 1)
<1> DEFINE I == {i \in 1..Len(s) : s[i] = 0}
           m == CHOOSE x \in I : \A y \in I : x =< y
<1>1. n \in I /\ \A y \in I : n <= y
  <2>1. ASSUME NEW y \in I, y < n PROVE FALSE
    BY <2>1
  <2> QED
    BY <2>1
<1>2. m \in I /\ \A y \in I : m <= y
  BY <1>1
<1>3. m = n
  BY <1>1, <1>2
<1>4. SelectInSeq(s, LAMBDA c : c = 0) = m
  BY <1>1 DEF SelectInSeq, Min
<1> HIDE DEF I, m
<1>5. n # 0
  OBVIOUS
<1> QED
  BY <1>3, <1>4, <1>5 DEF BeforeNul

\* A text without a 0 ends where it ends.
LEMMA BeforeNulAll ==
  ASSUME NEW s \in Seq(Int), \A i \in 1..Len(s) : s[i] # 0
  PROVE  BeforeNul(s) = s
<1>1. {i \in 1..Len(s) : s[i] = 0} = {}
  OBVIOUS
<1>2. SelectInSeq(s, LAMBDA c : c = 0) = 0
  BY <1>1 DEF SelectInSeq
<1> QED
  BY <1>2 DEF BeforeNul

\* Every character in two bytes.
LEMMA WideIs ==
  ASSUME NEW s \in Seq(Int)
  PROVE  /\ Wide(s) \in Seq(Int)
         /\ Len(Wide(s)) = 2 * Len(s)
         /\ \A i \in 1..Len(s) : Wide(s)[2 * i - 1] = s[i] /\ Wide(s)[2 * i] = 0
<1>1. Len(s) \in Nat
  OBVIOUS
<1>2. ASSUME NEW i \in 1..2 * Len(s)
      PROVE  /\ Wide(s)[i] = IF i % 2 = 1 THEN s[(i + 1) \div 2] ELSE 0
             /\ Wide(s)[i] \in Int
  <2>1. i % 2 = 1 => (i + 1) \div 2 \in 1..Len(s)
    BY <1>1
  <2>2. Wide(s)[i] = IF i % 2 = 1 THEN s[(i + 1) \div 2] ELSE 0
    BY DEF Wide
  <2> QED
    BY <2>1, <2>2
<1>3. Wide(s) = [i \in 1..2 * Len(s) |-> Wide(s)[i]]
  BY DEF Wide
<1>4. Wide(s) \in Seq(Int) /\ Len(Wide(s)) = 2 * Len(s)
  <2> DEFINE w == Wide(s)
  <2>1. (\A i \in 1..2 * Len(s) : w[i] \in Int) /\ 2 * Len(s) \in Nat
    BY <1>1, <1>2
  <2>2. w = [i \in 1..2 * Len(s) |-> w[i]]
    BY <1>3
  <2> HIDE DEF w
  <2>3. w \in Seq(Int) /\ Len(w) = 2 * Len(s)
    BY <2>1, <2>2
  <2> QED
    BY <2>3 DEF w
<1>5. ASSUME NEW i \in 1..Len(s) PROVE Wide(s)[2 * i - 1] = s[i] /\ Wide(s)[2 * i] = 0
  <2>1. /\ 2 * i - 1 \in 1..2 * Len(s)
        /\ (2 * i - 1) % 2 = 1
        /\ ((2 * i - 1) + 1) \div 2 = i
    BY <1>1
  <2>2. 2 * i \in 1..2 * Len(s) /\ (2 * i) % 2 # 1
    BY <1>1
  <2>3. Wide(s)[2 * i - 1] = s[i]
    BY <1>2, <2>1
  <2> QED
    BY <1>2, <2>2, <2>3
<1> QED
  BY <1>4, <1>5

LEMMA PrintableText ==
  ASSUME NEW s \in Seq(Printable)
  PROVE  s \in Seq(Int) /\ Len(s) \in Nat /\ \A i \in 1..Len(s) : s[i] \in Printable /\ s[i] \in Int /\ s[i] # 0
<1>1. \A c \in Printable : c \in Int /\ c # 0
  BY DEF Printable
<1>2. Len(s) \in Nat /\ \A i \in 1..Len(s) : s[i] \in Printable
  OBVIOUS
<1>3. s \in Seq(Int)
  BY <1>1, SeqMonotonic
<1> QED
  BY <1>1, <1>2, <1>3

\* The items of two sequences one behind the other.
LEMMA Concat ==
  ASSUME NEW a \in Seq(Int), NEW b \in Seq(Int)
  PROVE  /\ a \o b \in Seq(Int)
         /\ Len(a \o b) = Len(a) + Len(b) /\ Len(a) \in Nat /\ Len(b) \in Nat
         /\ \A i \in 1..Len(a) : (a \o b)[i] = a[i]
         /\ \A i \in 1..Len(b) : (a \o b)[Len(a) + i] = b[i]
OBVIOUS

LEMMA CharKept == ASSUME NEW c \in Printable PROVE Char(c) = c /\ c # 0
BY DEF Char, Printable

\* The bytes of a string of the protocol.
LEMMA WriteStringIs ==
  ASSUME NEW s \in Seq(Printable), Len(s) \in 1..Longest
  PROVE  /\ WriteString(s) \in Seq(Int)
         /\ Len(WriteString(s)) = 2 * Len(s) + 3
         /\ WriteString(s)[1] = Len(s) + 1
         /\ \A i \in 1..Len(s) : WriteString(s)[2 * i] = s[i] /\ WriteString(s)[2 * i + 1] = 0
         /\ WriteString(s)[2 * Len(s) + 2] = 0 /\ WriteString(s)[2 * Len(s) + 3] = 0
<1>1. s \in Seq(Int) /\ s # <<>> /\ Len(s) \in 1..Longest
  <2>1. s \in Seq(Int)
    BY PrintableText
  <2>2. Len(<<>>) = 0
    OBVIOUS
  <2>3. s # <<>>
    BY <2>2, LongestByte
  <2> QED
    BY <2>1, <2>3
<1>2. /\ Wide(s) \in Seq(Int)
      /\ Len(Wide(s)) = 2 * Len(s)
      /\ \A i \in 1..Len(s) : Wide(s)[2 * i - 1] = s[i] /\ Wide(s)[2 * i] = 0
  BY <1>1, WideIs
<1>3. (Len(s) + 1) % 256 = Len(s) + 1
  BY <1>1, LongestByte
<1> DEFINE w == Wide(s)
           h == <<Len(s) + 1>>
           z == <<0, 0>>
<1>4. WriteString(s) = h \o w \o z
  BY <1>1, <1>3 DEF WriteString
<1>5. h \in Seq(Int) /\ Len(h) = 1 /\ h[1] = Len(s) + 1 /\ z \in Seq(Int) /\ Len(z) = 2 /\ z[1] = 0 /\ z[2] = 0
  OBVIOUS
<1> HIDE DEF w, h, z
<1>6. w \in Seq(Int) /\ Len(w) = 2 * Len(s)
  BY <1>2 DEF w
<1> DEFINE n == Len(s)
<1>9. n \in Nat /\ Len(s) = n
  BY <1>1, LongestByte
<1> HIDE DEF n
<1>7. /\ h \o w \in Seq(Int) /\ Len(h \o w) = 2 * n + 1
      /\ (h \o w)[1] = n + 1
      /\ \A i \in 1..2 * n : (h \o w)[1 + i] = w[i]
  <2>1. /\ h \o w \in Seq(Int)
        /\ Len(h \o w) = Len(h) + Len(w)
        /\ \A i \in 1..Len(h) : (h \o w)[i] = h[i]
        /\ \A i \in 1..Len(w) : (h \o w)[Len(h) + i] = w[i]
    BY <1>5, <1>6, Concat
  <2>2. (h \o w)[1] = h[1]
    BY <1>5, <2>1
  <2>3. Len(h) = 1 /\ Len(w) = 2 * n
    BY <1>5, <1>6, <1>9
  <2> QED
    BY <1>5, <1>9, <2>1, <2>2, <2>3
<1> DEFINE q == h \o w
<1> HIDE DEF q
<1>10. q \in Seq(Int) /\ Len(q) = 2 * n + 1
  BY <1>7 DEF q
<1>11. /\ q \o z \in Seq(Int) /\ Len(q \o z) = 2 * n + 3
       /\ \A i \in 1..2 * n + 1 : (q \o z)[i] = q[i]
       /\ \A i \in 1..2 : (q \o z)[2 * n + 1 + i] = z[i]
  <2>1. /\ q \o z \in Seq(Int)
        /\ Len(q \o z) = Len(q) + Len(z)
        /\ \A i \in 1..Len(q) : (q \o z)[i] = q[i]
        /\ \A i \in 1..Len(z) : (q \o z)[Len(q) + i] = z[i]
    BY <1>5, <1>10, Concat
  <2>2. Len(q) = 2 * n + 1 /\ Len(z) = 2 /\ 2 * n + 1 + 2 = 2 * n + 3
    BY <1>5, <1>9, <1>10
  <2> QED
    BY <2>1, <2>2
<1>12. (q \o z)[1] = n + 1
  <2>1. 1 \in 1..2 * n + 1
    BY <1>9
  <2> QED
    BY <1>7, <1>11, <2>1 DEF q
<1>13. (q \o z)[2 * n + 2] = 0 /\ (q \o z)[2 * n + 3] = 0
  <2>1. 1 \in 1..2 /\ 2 \in 1..2 /\ 2 * n + 1 + 1 = 2 * n + 2 /\ 2 * n + 1 + 2 = 2 * n + 3
    BY <1>9
  <2> QED
    BY <1>5, <1>11, <2>1
<1>8. ASSUME NEW i \in 1..n PROVE (q \o z)[2 * i] = s[i] /\ (q \o z)[2 * i + 1] = 0
  <2>1. /\ 2 * i \in 1..2 * n + 1 /\ 2 * i + 1 \in 1..2 * n + 1
        /\ 2 * i - 1 \in 1..2 * n /\ 2 * i \in 1..2 * n /\ 1 + (2 * i - 1) = 2 * i /\ 1 + 2 * i = 2 * i + 1
    BY <1>9
  <2>2. q[2 * i] = w[2 * i - 1] /\ q[2 * i + 1] = w[2 * i]
    BY <1>7, <2>1 DEF q
  <2>3. w[2 * i - 1] = s[i] /\ w[2 * i] = 0
    BY <1>2, <1>9 DEF w
  <2> QED
    BY <1>11, <2>1, <2>2, <2>3
<1>14. WriteString(s) = q \o z
  BY <1>4 DEF q
<1> QED
  BY <1>8, <1>9, <1>11, <1>12, <1>13, <1>14

LEMMA EmptyStringIs == WriteString(<<>>) = <<0>>
BY DEF WriteString

\* What ptp_read_string makes of the bytes of a string.
LEMMA ReadStringIs ==
  ASSUME NEW s \in Seq(Printable), Len(s) <= Longest, NEW max \in Nat,
         NEW d \in Seq(Int), NEW of \in Nat, Stands(WriteString(s), d, of)
  PROVE  LET r == ReadString(d, of, max)
             k == LargerOf(1, max - 1)
         IN  /\ s = <<>> \/ Len(s) + 1 <= max - 1 =>
                  /\ r.str = s /\ r.of = of + Len(WriteString(s)) /\ ~r.open /\ r.top = Len(s) + (IF s = <<>> THEN 1 ELSE 2)
             /\ s # <<>> /\ Len(s) + 1 > max - 1 => r.str = SubSeq(s, 1, k) /\ k <= Len(s) /\ r.top = k
<1> DEFINE r == ReadString(d, of, max)
           K == LargerOf(1, max - 1)
           k == SmallerOf(Len(s) + 1, K)
           cells == [i \in 1..k |-> Char(Unsigned(d, of + 2 * i - 1, 2))]
           w == WriteString(s)
<1>1. CASE s = <<>>
  <2>1. w = <<0>>
    BY <1>1, EmptyStringIs
  <2>2. At(d, of) = 0
    <3>1. Len(<<0>>) = 1 /\ <<0>> \in Seq(Int) /\ 1 \in 1..Len(<<0>>) /\ <<0>>[1] = 0 /\ of + (1 - 1) = of
      OBVIOUS
    <3>2. At(d, of + (1 - 1)) = <<0>>[1]
      BY <2>1, <3>1, StandsAt
    <3> QED
      BY <3>1, <3>2
  <2>3. r = [str |-> <<>>, open |-> FALSE, top |-> 1, of |-> of + 1]
    BY <2>2 DEF ReadString
  <2>4. Len(w) = 1 /\ Len(s) = 0
    BY <1>1, <2>1
  <2> HIDE DEF w, r
  <2>5. /\ r.str = s /\ r.of = of + Len(w) /\ ~r.open /\ r.top = Len(s) + (IF s = <<>> THEN 1 ELSE 2)
    BY <1>1, <2>3, <2>4
  <2> HIDE DEF k, K
  <2>6. \/ s = <<>> \/ Len(s) + 1 <= max - 1 => r.str = s
    BY <2>5
  <2> QED
    BY <1>1, <2>5 DEF w, r
<1>2. CASE s # <<>>
  <2>1. Len(s) \in 1..Longest /\ Len(s) \in Nat
    <3>1. Len(s) \in Nat /\ Len(s) # 0
      BY <1>2, EmptySeq
    <3> QED
      BY <3>1, LongestByte
  <2>2. /\ w \in Seq(Int)
        /\ Len(w) = 2 * Len(s) + 3
        /\ w[1] = Len(s) + 1
        /\ \A i \in 1..Len(s) : w[2 * i] = s[i] /\ w[2 * i + 1] = 0
        /\ w[2 * Len(s) + 2] = 0 /\ w[2 * Len(s) + 3] = 0
    BY <2>1, WriteStringIs
  <2>0. Stands(w, d, of)
    OBVIOUS
  <2> HIDE DEF w
  <2>3. ASSUME NEW i \in 1..2 * Len(s) + 3 PROVE At(d, of + (i - 1)) = w[i]
    <3>1. w \in Seq(Int) /\ i \in 1..Len(w)
      BY <2>2
    <3> QED
      BY <2>0, <3>1, StandsAt
  <2>4. At(d, of) = Len(s) + 1
    <3>1. 1 \in 1..2 * Len(s) + 3 /\ of + (1 - 1) = of
      BY <2>1
    <3> QED
      BY <2>2, <2>3, <3>1
  <2>5. ASSUME NEW i \in 1..Len(s) + 1
        PROVE  Char(Unsigned(d, of + 2 * i - 1, 2)) = IF i <= Len(s) THEN s[i] ELSE 0
    <3>1. /\ 2 * i \in 1..2 * Len(s) + 3 /\ 2 * i + 1 \in 1..2 * Len(s) + 3
          /\ of + (2 * i - 1) = of + 2 * i - 1 /\ of + ((2 * i + 1) - 1) = of + 2 * i - 1 + 1
      BY <2>1
    <3>2. At(d, of + 2 * i - 1) = w[2 * i] /\ At(d, of + 2 * i - 1 + 1) = w[2 * i + 1]
      BY <2>3, <3>1
    <3>3. Unsigned(d, of + 2 * i - 1, 2) = w[2 * i] + 256 * w[2 * i + 1] + 0
      BY <3>2, SMT DEF Unsigned
    <3>4. CASE i <= Len(s)
      <4>1. i \in 1..Len(s) /\ s[i] \in Printable
        BY <3>4, <2>1
      <4>2. w[2 * i] = s[i] /\ w[2 * i + 1] = 0 /\ s[i] \in Int
        BY <2>2, <4>1 DEF Printable
      <4>3. Unsigned(d, of + 2 * i - 1, 2) = s[i]
        BY <3>3, <4>2, SMT
      <4> QED
        BY <3>4, <4>1, <4>3, CharKept
    <3>5. CASE i = Len(s) + 1
      <4>1. w[2 * i] = 0 /\ w[2 * i + 1] = 0
        BY <2>2, <3>5
      <4>2. Unsigned(d, of + 2 * i - 1, 2) = 0
        BY <3>3, <4>1, SMT
      <4> QED
        BY <3>5, <4>2 DEF Char
    <3> QED
      BY <3>4, <3>5
  <2>6. K \in Nat /\ K >= 1 /\ (max - 1 >= 1 => K = max - 1) /\ (max - 1 < 1 => K = 1)
    BY DEF LargerOf
  <2>7. k \in 1..Len(s) + 1 /\ k <= K /\ (Len(s) + 1 <= K => k = Len(s) + 1) /\ (Len(s) + 1 > K => k = K)
    BY <2>1, <2>6 DEF SmallerOf
  <2>8. r = [str |-> BeforeNul(cells), open |-> cells[k] # 0,
             top |-> IF cells[k] = 0 THEN k + 1 ELSE k, of |-> of + 1 + 2 * k]
    BY <2>1, <2>4 DEF ReadString
  <2> HIDE DEF r, k, K
  <2>9. /\ cells \in Seq(Int) /\ Len(cells) = k
        /\ \A i \in 1..k : cells[i] = IF i <= Len(s) THEN s[i] ELSE 0
    <3>1. ASSUME NEW i \in 1..k PROVE cells[i] = (IF i <= Len(s) THEN s[i] ELSE 0) /\ cells[i] \in Int
      <4>1. i \in 1..Len(s) + 1
        BY <2>7
      <4>2. cells[i] = IF i <= Len(s) THEN s[i] ELSE 0
        BY <2>5, <4>1
      <4>3. i <= Len(s) => s[i] \in Int
        BY <4>1, <2>1, PrintableText
      <4> QED
        BY <4>2, <4>3
    <3>2. cells = [i \in 1..k |-> cells[i]]
      OBVIOUS
    <3> HIDE DEF cells
    <3>3. k \in Nat
      BY <2>7
    <3>4. cells \in Seq(Int) /\ Len(cells) = k
      BY <3>1, <3>2, <3>3, IsSeq
    <3> QED
      BY <3>1, <3>4
  <2> HIDE DEF cells
  <2>10. s \in Seq(Int) /\ \A i \in 1..Len(s) : s[i] # 0 /\ s[i] \in Int
    BY PrintableText
  <2>11. CASE Len(s) + 1 <= K
    <3>1. k = Len(s) + 1 /\ cells[k] = 0 /\ k \in 1..Len(cells)
      <4>1. k = Len(s) + 1 /\ Len(cells) = k /\ k \in 1..k
        BY <2>1, <2>7, <2>9, <2>11
      <4>2. ~(k <= Len(s))
        BY <2>1, <4>1
      <4>3. cells[k] = 0
        BY <2>9, <4>1, <4>2
      <4> QED
        BY <4>1, <4>3
    <3>2. \A i \in 1..k - 1 : cells[i] # 0
      <4>1. ASSUME NEW i \in 1..k - 1 PROVE cells[i] # 0
        <5>1. i \in 1..k /\ i <= Len(s) /\ i \in 1..Len(s)
          BY <2>1, <3>1
        <5> QED
          BY <2>9, <2>10, <5>1
      <4> QED
        BY <4>1
    <3>3. BeforeNul(cells) = SubSeq(cells, 1, k - 1)
      BY <2>9, <3>1, <3>2, BeforeNulIs
    <3>4. SubSeq(cells, 1, k - 1) = s
      <4>1. \A i \in 1..Len(s) : cells[i] = s[i]
        BY <2>1, <2>9, <3>1
      <4> DEFINE u == SubSeq(cells, 1, k - 1)
      <4>2. u \in Seq(Int) /\ Len(u) = Len(s) /\ \A i \in 1..Len(s) : u[i] = cells[i]
        BY <2>1, <2>9, <3>1
      <4> HIDE DEF u
      <4>3. u = s
        BY <2>10, <4>1, <4>2, SeqEqual
      <4> QED
        BY <4>3 DEF u
    <3>5. r.str = s /\ r.of = of + (2 * Len(s) + 3) /\ ~r.open /\ r.top = Len(s) + 2
      <4>1. r.str = s /\ r.of = of + 1 + 2 * k /\ r.open = FALSE /\ r.top = k + 1
        BY <2>8, <3>1, <3>3, <3>4
      <4>2. of + 1 + 2 * k = of + (2 * Len(s) + 3) /\ k + 1 = Len(s) + 2
        BY <2>1, <3>1
      <4> QED
        BY <4>1, <4>2
    <3>6. Len(s) + 1 <= max - 1
      BY <2>1, <2>6, <2>11
    <3> QED
      BY <1>2, <2>2, <3>5, <3>6 DEF w, r
  <2>12. CASE Len(s) + 1 > K
    <3>1. k = K /\ k <= Len(s) /\ \A i \in 1..Len(cells) : cells[i] = s[i] /\ cells[i] # 0
      BY <2>1, <2>6, <2>7, <2>9, <2>10, <2>12
    <3>2. BeforeNul(cells) = cells
      BY <2>9, <3>1, BeforeNulAll
    <3>3. cells = SubSeq(s, 1, k)
      BY <2>1, <2>7, <2>9, <3>1
    <3>4. cells[k] # 0
      BY <2>7, <2>9, <3>1
    <3>5. r.str = SubSeq(s, 1, K) /\ K <= Len(s) /\ r.top = K
      BY <2>8, <3>1, <3>2, <3>3, <3>4
    <3>6. ~(Len(s) + 1 <= max - 1)
      BY <2>1, <2>6, <2>12
    <3> QED
      BY <1>2, <3>5, <3>6 DEF r, K
  <2> QED
    BY <2>1, <2>6, <2>11, <2>12
<1> QED
  BY <1>1, <1>2

\* A text with a terminator, read from where it stands.
LEMMA TextAt ==
  ASSUME NEW s \in Seq(Printable), NEW d \in Seq(Int), NEW of \in Nat,
         Stands(WriteUtf8String(s), d, of)
  PROVE  BeforeNul(SubSeq(d, of + 1, Len(d))) = s
<1> DEFINE w == Append(s, 0)
           u == SubSeq(d, of + 1, Len(d))
           n == Len(s) + 1
<1>1. s \in Seq(Int) /\ Len(s) \in Nat /\ \A i \in 1..Len(s) : s[i] # 0 /\ s[i] \in Int
  BY PrintableText
<1>2. w \in Seq(Int) /\ Len(w) = n /\ w[n] = 0 /\ \A i \in 1..Len(s) : w[i] = s[i]
  BY <1>1
<1>3. Stands(w, d, of)
  BY DEF WriteUtf8String
<1> HIDE DEF w
<1>4. of + n <= Len(d) /\ \A i \in 1..n : d[of + i] = w[i]
  BY <1>2, <1>3 DEF Stands
<1>5. u \in Seq(Int) /\ Len(u) = Len(d) - of /\ \A i \in 1..Len(u) : u[i] = d[of + i]
  <2>1. of + 1 <= Len(d) /\ Len(d) \in Nat /\ of + 1 \in Nat
    BY <1>1, <1>4
  <2>2. \A i \in of + 1..Len(d) : d[i] \in Int
    BY <2>1
  <2>3. /\ u \in Seq(Int)
        /\ Len(u) = IF of + 1 <= Len(d) THEN Len(d) - (of + 1) + 1 ELSE 0
        /\ \A i \in 1..Len(d) - (of + 1) + 1 : u[i] = d[of + 1 + i - 1]
    BY <2>1, <2>2, SubSeqProperties
  <2>4. Len(u) = Len(d) - of /\ Len(d) - (of + 1) + 1 = Len(d) - of
    BY <2>1, <2>3
  <2>5. \A i \in 1..Len(u) : of + 1 + i - 1 = of + i
    BY <2>1, <2>4
  <2> QED
    BY <2>3, <2>4, <2>5
<1> HIDE DEF u
<1>6. n \in 1..Len(u) /\ \A i \in 1..n : u[i] = w[i]
  <2>1. n \in Nat /\ n >= 1 /\ n <= Len(u) /\ Len(u) \in Nat
    BY <1>1, <1>4, <1>5
  <2> QED
    BY <1>4, <1>5, <2>1
<1>7. u[n] = 0 /\ \A i \in 1..n - 1 : u[i] # 0
  <2>1. n \in 1..n /\ \A i \in 1..n - 1 : i \in 1..n /\ i \in 1..Len(s)
    BY <1>1
  <2> QED
    BY <1>1, <1>2, <1>6, <2>1
<1>8. BeforeNul(u) = SubSeq(u, 1, n - 1)
  BY <1>5, <1>6, <1>7, BeforeNulIs
<1> DEFINE v == SubSeq(u, 1, n - 1)
<1>9. v \in Seq(Int) /\ Len(v) = Len(s) /\ \A i \in 1..Len(s) : v[i] = u[i]
  BY <1>1, <1>5, <1>6
<1> HIDE DEF v
<1>10. \A i \in 1..Len(s) : u[i] = s[i]
  BY <1>1, <1>2, <1>6
<1>11. v = s
  BY <1>1, <1>9, <1>10, SeqEqual
<1> QED
  BY <1>8, <1>11 DEF u, v

\* What ptp_read_utf8_string makes of a text with its terminator.
LEMMA ReadUtf8Is ==
  ASSUME NEW s \in Seq(Printable), NEW d \in Seq(Int), NEW of \in Nat, NEW max \in Nat,
         Stands(WriteUtf8String(s), d, of)
  PROVE  LET r == ReadUtf8String(d, of, max)
             k == LargerOf(max, 1)
         IN  /\ Len(s) <= k => r.str = s /\ r.of = of + Len(WriteUtf8String(s)) /\ ~r.open
             /\ Len(s) > k => r.str = SubSeq(s, 1, k)
<1> DEFINE r == ReadUtf8String(d, of, max)
           K == LargerOf(max, 1)
           k == SmallerOf(Len(s), K)
<1>1. BeforeNul(SubSeq(d, of + 1, Len(d))) = s
  BY TextAt
<1>2. s \in Seq(Int) /\ Len(s) \in Nat /\ Len(WriteUtf8String(s)) = Len(s) + 1
  BY PrintableText DEF WriteUtf8String
<1>3. K \in Nat
  BY DEF LargerOf
<1>4. r = [str |-> SubSeq(s, 1, k), open |-> FALSE, top |-> k + 1, of |-> of + k + 1]
  BY <1>1 DEF ReadUtf8String
<1>5. (Len(s) <= K => k = Len(s)) /\ (Len(s) > K => k = K) /\ k \in Nat
  BY <1>2, <1>3 DEF SmallerOf
<1> HIDE DEF k, K, r
<1>6. ASSUME Len(s) <= K PROVE r.str = s /\ r.of = of + Len(WriteUtf8String(s)) /\ ~r.open
  <2>1. k = Len(s) /\ SubSeq(s, 1, Len(s)) = s
    BY <1>2, <1>5, <1>6, SubSeqFull
  <2>2. of + Len(s) + 1 = of + Len(WriteUtf8String(s))
    BY <1>2
  <2> QED
    BY <1>4, <2>1, <2>2
<1>7. ASSUME Len(s) > K PROVE r.str = SubSeq(s, 1, K)
  BY <1>4, <1>5, <1>7
<1> QED
  BY <1>6, <1>7 DEF r, K

\* What ptp_read_unicode_string makes of a UTF-16 text.
LEMMA ReadUnicodeIs ==
  ASSUME NEW s \in Seq(Printable), NEW rest \in Seq(Int), NEW max \in Nat
  PROVE  LET r == ReadUnicodeString(WriteUnicodeString(s, 0) \o rest, max)
             stop == LargerOf(1, (max + 1) \div 2)
         IN  /\ Len(s) < stop => r = [str |-> s, top |-> Len(s) + 1, returned |-> Len(s)]
             /\ ~(Len(s) < stop) => r.str = SubSeq(s, 1, stop) /\ r.top = stop + 1
<1> DEFINE w == Wide(s)
           z == <<0, 0>>
           u == WriteUnicodeString(s, 0)
           d == u \o rest
           m == Len(d) \div 2
           low == [i \in 1..m |-> d[2 * i - 1]]
           n == Len(s) + 1
<1>1. s \in Seq(Int) /\ Len(s) \in Nat /\ \A i \in 1..Len(s) : s[i] # 0 /\ s[i] \in Int
  BY PrintableText
<1>2. w \in Seq(Int) /\ Len(w) = 2 * Len(s) /\ \A i \in 1..Len(s) : w[2 * i - 1] = s[i]
  BY <1>1, WideIs
<1>3. z \in Seq(Int) /\ Len(z) = 2 /\ z[1] = 0 /\ u = w \o z
  BY DEF WriteUnicodeString
<1> HIDE DEF w, z, u
<1>4. /\ u \in Seq(Int) /\ Len(u) = 2 * Len(s) + 2
      /\ \A i \in 1..2 * Len(s) : u[i] = w[i]
      /\ u[2 * Len(s) + 1] = 0
  <2>1. /\ w \o z \in Seq(Int) /\ Len(w \o z) = Len(w) + Len(z)
        /\ \A i \in 1..Len(w) : (w \o z)[i] = w[i]
        /\ \A i \in 1..Len(z) : (w \o z)[Len(w) + i] = z[i]
    BY <1>2, <1>3, Concat
  <2>2. 1 \in 1..Len(z)
    BY <1>3
  <2> QED
    BY <1>2, <1>3, <2>1, <2>2
<1>5. d \in Seq(Int) /\ Len(d) >= 2 * Len(s) + 2 /\ \A i \in 1..2 * Len(s) + 2 : d[i] = u[i]
  <2>1. /\ d \in Seq(Int) /\ Len(d) = Len(u) + Len(rest) /\ Len(rest) \in Nat
        /\ \A i \in 1..Len(u) : d[i] = u[i]
    BY <1>4, Concat
  <2> QED
    BY <1>1, <1>4, <2>1
<1> HIDE DEF d
<1>6. m \in Nat /\ m >= n /\ n \in Nat /\ n >= 1
  BY <1>1, <1>5
<1>7. ASSUME NEW i \in 1..m PROVE d[2 * i - 1] \in Int
  <2>1. 2 * i - 1 \in 1..Len(d)
    BY <1>5
  <2> QED
    BY <1>5, <2>1
<1> HIDE DEF m
<1>8. low \in Seq(Int) /\ Len(low) = m
  <2>1. low = [i \in 1..m |-> low[i]] /\ \A i \in 1..m : low[i] \in Int
    BY <1>7
  <2> HIDE DEF low
  <2> QED
    BY <1>6, <2>1, IsSeq
<1>9. low[n] = 0
  <2>1. n \in 1..m /\ 2 * n - 1 = 2 * Len(s) + 1 /\ 2 * Len(s) + 1 \in 1..2 * Len(s) + 2
    BY <1>1, <1>6
  <2>2. low[n] = d[2 * Len(s) + 1]
    BY <2>1
  <2> QED
    BY <1>4, <1>5, <2>1, <2>2
<1>10. ASSUME NEW i \in 1..Len(s) PROVE low[i] = s[i]
  <2>1. i \in 1..m /\ 2 * i - 1 \in 1..2 * Len(s) /\ 2 * i - 1 \in 1..2 * Len(s) + 2
    BY <1>1, <1>6
  <2>2. low[i] = d[2 * i - 1]
    BY <2>1
  <2> QED
    BY <1>2, <1>4, <1>5, <2>1, <2>2
<1> HIDE DEF low
<1>11. BeforeNul(low) = SubSeq(low, 1, n - 1)
  <2>2. n - 1 = Len(s) /\ n \in 1..m
    BY <1>1, <1>6
  <2>1. n \in 1..Len(low) /\ \A i \in 1..n - 1 : low[i] # 0
    BY <1>1, <1>8, <1>10, <2>2
  <2> QED
    BY <1>8, <1>9, <2>1, BeforeNulIs
<1> DEFINE v == SubSeq(low, 1, n - 1)
<1>12. v \in Seq(Int) /\ Len(v) = Len(s) /\ \A i \in 1..Len(s) : v[i] = low[i]
  BY <1>1, <1>6, <1>8
<1> HIDE DEF v
<1>13. v = s
  BY <1>1, <1>10, <1>12, SeqEqual
<1>14. BeforeNul(low) = s
  BY <1>11, <1>13 DEF v
<1> DEFINE stop == LargerOf(1, (max + 1) \div 2)
<1>15. ReadUnicodeString(d, max) =
         IF Len(s) < stop THEN [str |-> s, top |-> Len(s) + 1, returned |-> Len(s)]
         ELSE [str |-> SubSeq(s, 1, stop), top |-> stop + 1, returned |-> 2 * (stop - 1)]
  BY <1>14 DEF ReadUnicodeString, low, m
<1> HIDE DEF stop
<1>16. /\ Len(s) < stop => ReadUnicodeString(d, max) = [str |-> s, top |-> Len(s) + 1, returned |-> Len(s)]
       /\ ~(Len(s) < stop) => /\ ReadUnicodeString(d, max).str = SubSeq(s, 1, stop)
                              /\ ReadUnicodeString(d, max).top = stop + 1
  <2> DEFINE q == ReadUnicodeString(d, max)
  <2>1. q = IF Len(s) < stop THEN [str |-> s, top |-> Len(s) + 1, returned |-> Len(s)]
            ELSE [str |-> SubSeq(s, 1, stop), top |-> stop + 1, returned |-> 2 * (stop - 1)]
    BY <1>15
  <2> HIDE DEF q
  <2>2. CASE Len(s) < stop
    <3>1. q = [str |-> s, top |-> Len(s) + 1, returned |-> Len(s)]
      BY <2>1, <2>2
    <3> QED
      BY <2>2, <3>1 DEF q
  <2>3. CASE ~(Len(s) < stop)
    <3>1. q = [str |-> SubSeq(s, 1, stop), top |-> stop + 1, returned |-> 2 * (stop - 1)]
      BY <2>1, <2>3
    <3>2. q.str = SubSeq(s, 1, stop) /\ q.top = stop + 1
      BY <3>1
    <3> QED
      BY <2>3, <3>2 DEF q
  <2> QED
    BY <2>2, <2>3
<1> QED
  BY <1>16 DEF d, u, stop

\* What a step does for each kind of job.
LEMMA Steps ==
  ASSUME [Next]_vars
  PROVE  /\ job' = job
         /\ \/ result' = result
            \/ /\ result'.done
               /\ job.kind = "string" =>
                    result'.value = Reread(job.coding, Wire(job.coding, job.s) \o <<1, 0>>, job.max)
               /\ job.kind = "object" => result'.value = ParseObjectInfo(PackObjectInfo(job.info))
               /\ job.kind = "storage" => result'.value = ParseStorageInfo(CameraStorage(job.info))
               /\ job.kind = "device" => result'.value = ParseDeviceInfo(CameraDevice(job.info))
               /\ job.kind = "handles" => result'.value = DupArray(CameraArray(4, job.items))
               /\ job.kind = "desc" => result'.value = Described(ParsePropDesc(CameraDesc, job.types))
               /\ job.kind = "value" => result'.value = ParsePropValue(CameraValue(job.type, job.current))
               /\ job.kind = "pcap" => result'.value = DecodePcap(job.mode, Packets)
               /\ job.kind = "dump" => result'.value = DecodeDump(Traffic, job.fatal)
               /\ job.kind = "bitmap" => result'.value = Frame(job.bmp, job.palette)
               /\ job.kind = "request" => result'.value = RunRequest(job.name, job.env)
               /\ job.kind = "print" => result'.value = InfoJson(job.name, job.env)
               /\ job.kind = "evproc" =>
                    LET packed == PackLine(Lex(PrintLine(job.tokens)))
                    IN  result'.value = [lex |-> Lex(PrintLine(job.tokens)), packed |-> packed,
                                         decoded |-> IF packed \in {Null, Crash, Overrun} THEN Null ELSE DecodeEvproc(packed)]
<1> USE DEF Perform, Returns
<1>1. CASE UNCHANGED vars
  BY <1>1 DEF vars
<1>2. CASE String_
  BY <1>2 DEF String_
<1>3. CASE ObjectInfo
  BY <1>3 DEF ObjectInfo
<1>4. CASE StorageInfo
  BY <1>4 DEF StorageInfo
<1>5. CASE DeviceInfo
  BY <1>5 DEF DeviceInfo
<1>6. CASE Handles
  BY <1>6 DEF Handles
<1>7. CASE PropDesc
  BY <1>7 DEF PropDesc
<1>8. CASE PropValue
  BY <1>8 DEF PropValue
<1>9. CASE EventProc
  BY <1>9 DEF EventProc
<1>10. CASE Capture
  BY <1>10 DEF Capture
<1>11. CASE RawDump
  BY <1>11 DEF RawDump
<1>12. CASE Bitmap
  BY <1>12 DEF Bitmap
<1>13. CASE Firmware
  BY <1>13 DEF Firmware
<1>14. CASE Request
  BY <1>14 DEF Request
<1>15. CASE PrintInfo
  BY <1>15 DEF PrintInfo
<1>16. CASE Execute
  BY <1>16 DEF Execute
<1> QED
  BY <1>1, <1>2, <1>3, <1>4, <1>5, <1>6, <1>7, <1>8, <1>9, <1>10, <1>11, <1>12, <1>13, <1>14, <1>15,
     <1>16 DEF Next

\* Every coding reads what it has written.
LEMMA StringComesBack ==
  ASSUME NEW coding \in {"ptp", "utf8", "unicode"}, NEW s \in Seq(Printable), Len(s) <= Longest,
         NEW max \in Nat, max > 1
  PROVE  LET r == Reread(coding, Wire(coding, s) \o <<1, 0>>, max)
             room == CASE coding = "ptp"     -> max - 2
                       [] coding = "utf8"    -> max - 1
                       [] coding = "unicode" -> (max + 1) \div 2 - 1
         IN  /\ Len(s) <= room =>
                  /\ r.str = s
                  /\ coding \in {"ptp", "utf8"} => r.of = Len(Wire(coding, s)) /\ ~r.open
                  /\ coding = "unicode" => r.returned = Len(s)
             /\ IsPrefix(r.str, s)
             /\ coding # "utf8" => r.top <= max
<1> DEFINE rest == <<1, 0>>
           d == Wire(coding, s) \o rest
           r == Reread(coding, d, max)
<1>1. s \in Seq(Int) /\ Len(s) \in Nat
  BY PrintableText
<1>2. rest \in Seq(Int)
  OBVIOUS
<1>3. IsPrefix(s, s)
  BY <1>1 DEF IsPrefix
<1>4. ASSUME NEW k \in Nat, k <= Len(s) PROVE IsPrefix(SubSeq(s, 1, k), s)
  <2> DEFINE u == SubSeq(s, 1, k)
  <2>1. u \in Seq(Int) /\ Len(u) = k
    BY <1>1, <1>4
  <2> HIDE DEF u
  <2>2. SubSeq(u, 1, Len(u)) = u
    BY <2>1, SubSeqFull
  <2>3. Len(u) <= Len(s) /\ SubSeq(u, 1, Len(u)) = SubSeq(s, 1, Len(u))
    BY <1>4, <2>1, <2>2 DEF u
  <2> QED
    BY <2>3 DEF IsPrefix, u
<1> HIDE DEF rest
<1>5. CASE coding = "ptp"
  <2> DEFINE w == WriteString(s)
  <2>1. Wire(coding, s) = w /\ r = ReadString(d, 0, max)
    BY <1>5 DEF Wire, Reread
  <2>2. w \in Seq(Int)
    <3>1. CASE s = <<>>
      <4>1. w = <<0>>
        BY <3>1, EmptyStringIs
      <4> HIDE DEF w
      <4> QED
        BY <4>1
    <3>2. CASE s # <<>>
      <4>1. Len(s) \in 1..Longest
        BY <1>1, <3>2, EmptySeq, LongestByte
      <4> QED
        BY <4>1, WriteStringIs
    <3> QED
      BY <3>1, <3>2
  <2> HIDE DEF w
  <2>3. d \in Seq(Int) /\ Stands(w, d, 0)
    BY <1>2, <2>1, <2>2, StandsFirst
  <2> HIDE DEF d
  <2>4. LET q == ReadString(d, 0, max)
            k == LargerOf(1, max - 1)
        IN  /\ s = <<>> \/ Len(s) + 1 <= max - 1 =>
                 /\ q.str = s /\ q.of = 0 + Len(w) /\ ~q.open /\ q.top = Len(s) + (IF s = <<>> THEN 1 ELSE 2)
            /\ s # <<>> /\ Len(s) + 1 > max - 1 => q.str = SubSeq(s, 1, k) /\ k <= Len(s) /\ q.top = k
    BY <2>3, ReadStringIs DEF w
  <2>5. LargerOf(1, max - 1) = max - 1
    BY DEF LargerOf
  <2> HIDE DEF r
  <2>6. /\ s = <<>> \/ Len(s) + 1 <= max - 1 =>
             /\ r.str = s /\ r.of = 0 + Len(w) /\ ~r.open /\ r.top = Len(s) + (IF s = <<>> THEN 1 ELSE 2)
        /\ s # <<>> /\ Len(s) + 1 > max - 1 =>
             r.str = SubSeq(s, 1, max - 1) /\ max - 1 <= Len(s) /\ r.top = max - 1
    BY <2>1, <2>4, <2>5
  <2>7. s = <<>> => Len(s) = 0
    BY EmptySeq
  <2>8. ASSUME s = <<>> \/ Len(s) + 1 <= max - 1
        PROVE  r.str = s /\ r.of = Len(Wire(coding, s)) /\ ~r.open /\ r.top <= max
    <3>1. Len(w) \in Nat
      BY <2>2
    <3> QED
      BY <1>1, <2>1, <2>6, <2>7, <2>8, <3>1
  <2>9. ASSUME ~(s = <<>> \/ Len(s) + 1 <= max - 1)
        PROVE  ~(Len(s) <= max - 2) /\ IsPrefix(r.str, s) /\ r.top <= max
    <3>1. Len(s) + 1 > max - 1 /\ max - 1 \in Nat /\ ~(Len(s) <= max - 2) /\ max - 1 <= max
      BY <1>1, <2>9
    <3>2. r.str = SubSeq(s, 1, max - 1) /\ max - 1 <= Len(s) /\ r.top = max - 1
      BY <2>6, <2>9, <3>1
    <3>3. IsPrefix(SubSeq(s, 1, max - 1), s)
      BY <1>4, <3>1, <3>2
    <3> QED
      BY <3>1, <3>2, <3>3
  <2> QED
    BY <1>3, <1>5, <2>8, <2>9 DEF r, d, rest
<1>6. CASE coding = "utf8"
  <2> DEFINE w == WriteUtf8String(s)
  <2>1. Wire(coding, s) = w /\ r = ReadUtf8String(d, 0, max)
    BY <1>6 DEF Wire, Reread
  <2>2. w \in Seq(Int)
    BY <1>1 DEF WriteUtf8String
  <2> HIDE DEF w
  <2>3. d \in Seq(Int) /\ Stands(w, d, 0)
    BY <1>2, <2>1, <2>2, StandsFirst
  <2>4. LargerOf(max, 1) = max
    BY DEF LargerOf
  <2> HIDE DEF d
  <2>5. LET q == ReadUtf8String(d, 0, max)
            k == LargerOf(max, 1)
        IN  /\ Len(s) <= k => q.str = s /\ q.of = 0 + Len(w) /\ ~q.open
            /\ Len(s) > k => q.str = SubSeq(s, 1, k)
    BY <2>3, ReadUtf8Is DEF w
  <2> HIDE DEF r
  <2>6. /\ Len(s) <= max => r.str = s /\ r.of = 0 + Len(w) /\ ~r.open
        /\ Len(s) > max => r.str = SubSeq(s, 1, max)
    BY <2>1, <2>4, <2>5
  <2>7. Len(w) \in Nat
    BY <2>2
  <2>8. Len(s) <= max => r.str = s /\ r.of = Len(Wire(coding, s)) /\ ~r.open
    BY <2>1, <2>6, <2>7
  <2>9. IsPrefix(r.str, s) /\ (Len(s) <= max - 1 => Len(s) <= max)
    <3>1. CASE Len(s) <= max
      BY <1>3, <2>6, <3>1
    <3>2. CASE ~(Len(s) <= max)
      <4>1. Len(s) > max /\ max <= Len(s) /\ ~(Len(s) <= max - 1)
        BY <1>1, <3>2
      <4>2. IsPrefix(SubSeq(s, 1, max), s)
        BY <1>4, <4>1
      <4>3. r.str = SubSeq(s, 1, max)
        BY <2>6, <4>1
      <4> QED
        BY <4>1, <4>2, <4>3
    <3> QED
      BY <3>1, <3>2
  <2> QED
    BY <1>6, <2>8, <2>9 DEF r, d, rest
<1>7. CASE coding = "unicode"
  <2> DEFINE u == WriteUnicodeString(s, 0) \o rest
             stop == LargerOf(1, (max + 1) \div 2)
  <2>1. r = ReadUnicodeString(u, max)
    BY <1>7 DEF Wire, Reread
  <2>2. /\ Len(s) < stop => ReadUnicodeString(u, max) = [str |-> s, top |-> Len(s) + 1, returned |-> Len(s)]
        /\ ~(Len(s) < stop) => /\ ReadUnicodeString(u, max).str = SubSeq(s, 1, stop)
                               /\ ReadUnicodeString(u, max).top = stop + 1
    BY <1>2, ReadUnicodeIs
  <2>3. stop = (max + 1) \div 2 /\ stop \in Nat /\ stop + 1 <= max + 1 /\ (max > 2 => stop + 1 <= max) /\ (max = 2 => stop = 1)
    BY DEF LargerOf
  <2> HIDE DEF r, u, stop
  <2>4. ASSUME Len(s) < stop PROVE r.str = s /\ r.returned = Len(s) /\ r.top <= max
    <3>1. r.str = s /\ r.returned = Len(s) /\ r.top = Len(s) + 1
      BY <2>1, <2>2, <2>4
    <3> QED
      BY <1>1, <2>3, <2>4, <3>1
  <2>5. ASSUME ~(Len(s) < stop) PROVE IsPrefix(r.str, s) /\ r.top <= max /\ ~(Len(s) <= stop - 1)
    <3>1. r.str = SubSeq(s, 1, stop) /\ r.top = stop + 1 /\ stop <= Len(s)
      BY <1>1, <2>1, <2>2, <2>3, <2>5
    <3> QED
      BY <1>1, <1>4, <2>3, <3>1
  <2>6. Len(s) <= stop - 1 => Len(s) < stop
    BY <1>1, <2>3
  <2> QED
    BY <1>3, <1>7, <2>3, <2>4, <2>5, <2>6 DEF r, d, rest
<1> QED
  BY <1>5, <1>6, <1>7

\* For callers with printable texts of any length a length byte can count and
\* buffers of any size from 2: a string that fits is read as it was written,
\* the reader goes on behind it, a longer one is cut inside the buffer (the
\* readers and writers of strings, data.c:34-62, 98-173).
THEOREM StringsComeBack ==
  ASSUME \A j \in AllJobs : j.kind = "string" => StringJob(j)
  PROVE  Spec => []StringsReturn
<1> DEFINE Job == job \in AllJobs
<1>1. Init => Job /\ StringsReturn
  BY DEF Init, AllJobs, StringsReturn, Finished, Nothing
<1>2. Job /\ StringsReturn /\ [Next]_vars => (Job /\ StringsReturn)'
  <2> SUFFICES ASSUME Job, StringsReturn, [Next]_vars PROVE (Job /\ StringsReturn)'
    OBVIOUS
  <2>1. job' = job
    BY Steps
  <2>2. CASE job.kind # "string"
    BY <2>1, <2>2 DEF StringsReturn, Finished
  <2>3. CASE result' = result
    BY <2>1, <2>3 DEF StringsReturn, Finished, Room
  <2>4. CASE job.kind = "string" /\ result' # result
    <3>1. result'.value = Reread(job.coding, Wire(job.coding, job.s) \o <<1, 0>>, job.max)
      BY <2>4, Steps
    <3>2. StringJob(job)
      BY <2>4
    <3> QED
      BY <2>1, <3>1, <3>2, StringComesBack DEF StringsReturn, Room, StringJob
  <2> QED
    BY <2>2, <2>3, <2>4
<1> QED
  BY <1>1, <1>2, PTL DEF Spec

-----------------------------------------------------------------------------
(* Datasets: a list of fields is read along the parts it was written from. *)

LEMMA NoParts == FlattenSeq(<<>>) = <<>>
BY DEF FlattenSeq

LEMMA StandsBegin ==
  ASSUME NEW T, NEW a \in Seq(T), NEW b \in Seq(T), NEW d \in Seq(T), Stands(a \o b, d, 0)
  PROVE  Stands(a, d, 0) /\ Stands(b, d, Len(a))
<1>1. 0 \in Nat /\ Len(a) \in Nat /\ 0 + Len(a) = Len(a)
  OBVIOUS
<1> QED
  BY <1>1, StandsParts

\* Where the parts of a flattened sequence stand.
Places(off, parts) ==
  /\ off \in [0..Len(parts) -> Nat]
  /\ off[0] = 0
  /\ \A i \in 1..Len(parts) :
       off[i] = off[i - 1] + Len(parts[i]) /\ Stands(parts[i], FlattenSeq(parts), off[i - 1])
  /\ off[Len(parts)] = Len(FlattenSeq(parts))

\* A flattened sequence holds its parts one behind the other up to its end.
LEMMA PartsStand ==
  ASSUME NEW T, NEW parts \in Seq(Seq(T))
  PROVE  FlattenSeq(parts) \in Seq(T) /\ \E off : Places(off, parts)
<1> DEFINE d == FlattenSeq(parts)
           n == Len(parts)
<1>1. CASE parts = <<>>
  <2>1. d = <<>> /\ n = 0
    BY <1>1, NoParts
  <2> DEFINE off == [k \in 0..0 |-> 0]
  <2>2. Len(d) = 0 /\ d \in Seq(T)
    BY <2>1
  <2>3. off \in [0..n -> Nat] /\ off[0] = 0 /\ 1..n = {}
    BY <2>1
  <2> HIDE DEF off
  <2>4. Places(off, parts)
    BY <2>1, <2>2, <2>3 DEF Places
  <2> QED
    BY <2>2, <2>4
<1>2. CASE parts # <<>>
  <2>1. PICK fl \in [1..n -> Seq(T)] :
          /\ fl[1] = parts[1]
          /\ \A i \in 2..n : fl[i] = fl[i - 1] \o parts[i]
          /\ d = fl[n]
    BY <1>2, FlattenSeqIs
  <2>2. n \in Nat /\ n # 0 /\ \A i \in 1..n : parts[i] \in Seq(T)
    BY <1>2, EmptySeq
  <2>3. d \in Seq(T)
    <3>1. n \in 1..n
      BY <2>2
    <3> HIDE DEF n, d
    <3> QED
      BY <2>1, <3>1
  <2> DEFINE off == [k \in 0..n |-> IF k = 0 THEN 0 ELSE Len(fl[k])]
  <2>4. /\ off[0] = 0
        /\ \A k \in 1..n : off[k] = Len(fl[k])
        /\ \A k \in 0..n : off[k] \in Nat
    BY <2>1, <2>2
  <2>5. off \in [0..n -> Nat]
    BY <2>4
  <2> HIDE DEF off, d, n
  <2> DEFINE m == n - 1
             R == {k \in 0..m : Stands(fl[n - k], d, 0)}
  <2>6. 0 \in R
    BY <2>1, <2>2, <2>3, StandsWhole
  <2>7. ASSUME NEW k \in 0..m - 1, k \in R PROVE k + 1 \in R
    <3>1. n - k \in 2..n /\ (n - k) - 1 = n - (k + 1) /\ n - (k + 1) \in 1..n /\ n - k \in 1..n
      BY <2>2
    <3>2. Stands(fl[n - (k + 1)] \o parts[n - k], d, 0)
      BY <2>1, <2>7, <3>1
    <3>3. fl[n - (k + 1)] \in Seq(T) /\ parts[n - k] \in Seq(T)
      BY <2>1, <2>2, <3>1
    <3>4. Stands(fl[n - (k + 1)], d, 0)
      BY <2>3, <3>2, <3>3, StandsBegin
    <3> QED
      BY <2>2, <3>4
  <2> HIDE DEF R
  <2>8. m \in Nat
    BY <2>2
  <2>9. \A k \in 0..m : k \in R
    BY <2>6, <2>7, <2>8, UpTo
  <2>10. ASSUME NEW i \in 1..n PROVE Stands(fl[i], d, 0)
    <3>1. n - i \in 0..m /\ n - (n - i) = i
      BY <2>2
    <3> QED
      BY <2>9, <3>1 DEF R
  <2>11. ASSUME NEW i \in 1..n
         PROVE  off[i] = off[i - 1] + Len(parts[i]) /\ Stands(parts[i], d, off[i - 1])
    <3>1. CASE i = 1
      <4>1. off[i - 1] = 0 /\ off[i] = Len(parts[i]) /\ Len(parts[i]) \in Nat
        BY <2>1, <2>2, <2>4, <3>1
      <4> QED
        BY <2>1, <2>10, <3>1, <4>1
    <3>2. CASE i # 1
      <4>1. i \in 2..n /\ i - 1 \in 1..n
        BY <2>2, <3>2
      <4>2. fl[i - 1] \in Seq(T) /\ parts[i] \in Seq(T) /\ fl[i] = fl[i - 1] \o parts[i]
        BY <2>1, <2>2, <4>1
      <4>3. Stands(fl[i - 1] \o parts[i], d, 0)
        BY <2>10, <4>2
      <4>4. Len(fl[i]) = Len(fl[i - 1]) + Len(parts[i])
        BY <4>2
      <4>5. Stands(parts[i], d, Len(fl[i - 1]))
        BY <2>3, <4>2, <4>3, StandsBegin
      <4> QED
        BY <2>4, <4>1, <4>4, <4>5
    <3> QED
      BY <3>1, <3>2
  <2>12. off[n] = Len(d)
    BY <2>1, <2>2, <2>4
  <2>13. Places(off, parts)
    BY <2>4, <2>5, <2>11, <2>12 DEF Places, n, d
  <2> QED
    BY <2>3, <2>13 DEF d
<1> QED
  BY <1>1, <1>2

\* Numbers of one width, one behind the other.
LEMMA NumbersStand ==
  ASSUME NEW width \in {2, 4}, NEW items, items \in Seq(Nat), \A i \in 1..Len(items) : Fits(width, items[i])
  PROVE  LET w == FlattenSeq([i \in 1..Len(items) |-> Le(width, items[i])])
         IN  /\ w \in Seq(Int) /\ Len(w) = width * Len(items)
             /\ \A i \in 1..Len(items) : Stands(Le(width, items[i]), w, width * (i - 1))
<1> DEFINE parts == [i \in 1..Len(items) |-> Le(width, items[i])]
           n == Len(items)
<1>1. n \in Nat /\ \A i \in 1..n : items[i] \in Nat
  OBVIOUS
<1>2. ASSUME NEW i \in 1..n PROVE parts[i] = Le(width, items[i]) /\ parts[i] \in Seq(Int) /\ Len(parts[i]) = width
  <2>1. width \in 1..8 /\ items[i] \in Int
    BY <1>1
  <2> QED
    BY <2>1, LeBytes
<1>3. parts = [i \in 1..n |-> parts[i]]
  OBVIOUS
<1> HIDE DEF parts, n
<1>4. parts \in Seq(Seq(Int)) /\ Len(parts) = n
  BY <1>1, <1>2, <1>3, IsSeq
<1>5. PICK off : Places(off, parts)
  BY <1>4, PartsStand
<1>6. /\ off[0] = 0 /\ off[n] = Len(FlattenSeq(parts))
      /\ \A i \in 1..n : off[i] = off[i - 1] + width /\ Stands(parts[i], FlattenSeq(parts), off[i - 1])
  BY <1>2, <1>4, <1>5 DEF Places
<1> DEFINE R == {k \in 0..n : off[k] = width * k}
<1>7. 0 \in R
  BY <1>1, <1>6
<1>8. ASSUME NEW k \in 0..n - 1, k \in R PROVE k + 1 \in R
  <2>1. k + 1 \in 1..n /\ (k + 1) - 1 = k /\ k + 1 \in 0..n
    BY <1>1
  <2>2. off[k + 1] = off[k] + width
    BY <1>6, <2>1
  <2>3. off[k] = width * k
    BY <1>8
  <2>4. width * k + width = width * (k + 1)
    BY <1>1
  <2> QED
    BY <2>1, <2>2, <2>3, <2>4
<1> HIDE DEF R
<1>9. \A k \in 0..n : k \in R
  BY <1>1, <1>7, <1>8, UpTo
<1>10. \A k \in 0..n : off[k] = width * k
  BY <1>9 DEF R
<1>11. Len(FlattenSeq(parts)) = width * n
  BY <1>1, <1>6, <1>10
<1>12. ASSUME NEW i \in 1..n PROVE Stands(Le(width, items[i]), FlattenSeq(parts), width * (i - 1))
  <2>1. i - 1 \in 0..n
    BY <1>1
  <2> QED
    BY <1>2, <1>6, <1>10, <2>1
<1>13. FlattenSeq(parts) \in Seq(Int)
  BY <1>4, PartsStand
<1> QED
  BY <1>11, <1>12, <1>13 DEF parts, n

\* An array of the camera, wherever it stands.
ArrayFits(width, items) ==
  items \in Seq(Nat) /\ Fits(4, Len(items)) /\ \A i \in 1..Len(items) : Fits(width, items[i])

LEMMA ArrayStands ==
  ASSUME NEW width \in {2, 4}, NEW items, ArrayFits(width, items)
  PROVE  /\ CameraArray(width, items) \in Seq(Int)
         /\ Len(CameraArray(width, items)) = 4 + width * Len(items)
         /\ \A d \in Seq(Int), of \in Nat :
              Stands(CameraArray(width, items), d, of) =>
                /\ Unsigned(d, of, 4) = Len(items)
                /\ \A i \in 1..Len(items) : Unsigned(d, of + 4 + width * (i - 1), width) = items[i]
<1> DEFINE w == FlattenSeq([i \in 1..Len(items) |-> Le(width, items[i])])
           l == Le(4, Len(items))
<1>1. /\ w \in Seq(Int) /\ Len(w) = width * Len(items)
      /\ \A i \in 1..Len(items) : Stands(Le(width, items[i]), w, width * (i - 1))
  BY NumbersStand DEF ArrayFits
<1>2. Len(items) \in Nat /\ Len(items) \in Int /\ 4 \in 1..8 /\ width \in 1..8 /\ 4 \in {1, 2, 3, 4, 8} /\ width \in {1, 2, 3, 4, 8}
  BY DEF ArrayFits
<1>3. l \in Seq(Int) /\ Len(l) = 4
  BY <1>2, LeBytes
<1>4. CameraArray(width, items) = l \o w
  BY DEF CameraArray
<1> HIDE DEF w, l
<1>5. l \o w \in Seq(Int) /\ Len(l \o w) = 4 + width * Len(items)
  <2>1. l \in Seq(Int) /\ w \in Seq(Int)
    BY <1>1, <1>3
  <2>2. l \o w \in Seq(Int) /\ Len(l \o w) = Len(l) + Len(w)
    BY <2>1, Concat
  <2> QED
    BY <1>1, <1>3, <2>2
<1>6. ASSUME NEW d \in Seq(Int), NEW of \in Nat, Stands(l \o w, d, of)
      PROVE  /\ Unsigned(d, of, 4) = Len(items)
             /\ \A i \in 1..Len(items) : Unsigned(d, of + 4 + width * (i - 1), width) = items[i]
  <2>1. Stands(l, d, of) /\ Stands(w, d, of + 4)
    BY <1>1, <1>3, <1>6, StandsParts
  <2>2. Unsigned(d, of, 4) = Len(items)
    BY <1>2, <2>1, ReadsNumber DEF ArrayFits, l
  <2>3. ASSUME NEW i \in 1..Len(items) PROVE Unsigned(d, of + 4 + width * (i - 1), width) = items[i]
    <3> DEFINE at == width * (i - 1)
               b == Le(width, items[i])
    <3>1. items[i] \in Int /\ items[i] \in Nat /\ Fits(width, items[i]) /\ at \in Nat
      BY <1>2 DEF ArrayFits
    <3>2. b \in Seq(Int) /\ Len(b) = width /\ Stands(b, w, at)
      BY <1>1, <1>2, <3>1, LeBytes
    <3> HIDE DEF at, b
    <3>3. Stands(b, d, of + 4 + at)
      <4>1. Len(w) \in Nat /\ Len(d) \in Nat /\ at + width <= Len(w) /\ of + 4 + Len(w) <= Len(d)
        BY <1>1, <2>1, <3>2 DEF Stands
      <4>2. ASSUME NEW k \in 1..width PROVE d[(of + 4 + at) + k] = b[k]
        <5>1. at + k \in 1..Len(w) /\ (of + 4) + (at + k) = (of + 4 + at) + k
          BY <1>2, <3>1, <4>1
        <5>2. w[at + k] = b[k]
          BY <3>2 DEF Stands
        <5>3. d[(of + 4) + (at + k)] = w[at + k]
          BY <2>1, <5>1 DEF Stands
        <5> QED
          BY <5>1, <5>2, <5>3
      <4>3. (of + 4 + at) + Len(b) <= Len(d)
        BY <1>2, <3>1, <3>2, <4>1
      <4> QED
        BY <3>2, <4>2, <4>3 DEF Stands
    <3>4. of + 4 + at \in Nat
      BY <3>1
    <3>5. Unsigned(d, of + 4 + at, width) = items[i]
      BY <1>2, <3>1, <3>3, <3>4, ReadsNumber DEF b
    <3> QED
      BY <3>5 DEF at
  <2> QED
    BY <2>2, <2>3
<1> QED
  BY <1>4, <1>5, <1>6

\* An array is longer than the member it is read into.
TooLong(f, v) == f.kind = "array" /\ Len(v) > f.size

\* The bytes w of d are read as the value v of the field f.
Reads(f, w, v, d) ==
  \A of \in Nat : Stands(w, d, of) =>
    /\ ReadField(d, of, f).of = of + Len(w)
    /\ ReadField(d, of, f).value = v
    /\ ReadField(d, of, f).panic <=> TooLong(f, v)

\* The three kinds of fields.
NumberField(f) == f.kind = "number" /\ f.size \in {2, 4, 8}
StringField(f) == f.kind = "string" /\ f.size \in Nat
ArrayField(f) == f.kind = "array" /\ f.size \in Nat

\* A number, a string and an array each are read as they were written.
LEMMA NumberReads ==
  ASSUME NEW f, NumberField(f), NEW v, FieldFits(f, v), NEW d \in Seq(Int)
  PROVE  Le(f.size, v) \in Seq(Int) /\ Reads(f, Le(f.size, v), v, d)
<1>1. f.kind = "number" /\ f.size \in {2, 4, 8} /\ f.size \in {1, 2, 3, 4, 8} /\ f.size \in 1..8
  BY DEF NumberField
<1>2. Fits(f.size, v)
  BY <1>1 DEF FieldFits
<1>3. v \in Int
  BY <1>2 DEF Fits
<1>4. Le(f.size, v) \in Seq(Int) /\ Len(Le(f.size, v)) = f.size
  BY <1>1, <1>3, LeBytes
<1>5. ASSUME NEW of \in Nat, Stands(Le(f.size, v), d, of)
      PROVE  ReadField(d, of, f) = [value |-> v, of |-> of + f.size, panic |-> FALSE]
  <2>1. Unsigned(d, of, f.size) = v
    BY <1>1, <1>2, <1>5, ReadsNumber
  <2> QED
    BY <1>1, <2>1 DEF ReadField
<1> QED
  BY <1>1, <1>4, <1>5 DEF Reads, TooLong

LEMMA WriteStringBytes ==
  ASSUME NEW s \in Seq(Printable), Len(s) <= Longest
  PROVE  WriteString(s) \in Seq(Int)
<1>1. CASE s = <<>>
  <2>1. <<0>> \in Seq(Int)
    OBVIOUS
  <2> QED
    BY <1>1, <2>1, EmptyStringIs
<1>2. CASE s # <<>>
  <2>1. Len(s) \in Nat /\ Len(s) # 0
    BY <1>2, EmptySeq
  <2>2. Len(s) \in 1..Longest
    BY <2>1, LongestByte
  <2> QED
    BY <2>2, WriteStringIs
<1> QED
  BY <1>1, <1>2

LEMMA StringReads ==
  ASSUME NEW f, StringField(f), NEW v, FieldFits(f, v), NEW d \in Seq(Int)
  PROVE  WriteString(v) \in Seq(Int) /\ Reads(f, WriteString(v), v, d)
<1>1. f.kind = "string" /\ f.size \in Nat
  BY DEF StringField
<1>2. v \in Seq(Printable) /\ Len(v) <= Longest /\ (v = <<>> \/ Len(v) <= f.size - 2)
  BY <1>1 DEF FieldFits
<1>3. WriteString(v) \in Seq(Int)
  BY <1>2, WriteStringBytes
<1>4. ASSUME NEW of \in Nat, Stands(WriteString(v), d, of)
      PROVE  ReadField(d, of, f) = [value |-> v, of |-> of + Len(WriteString(v)), panic |-> FALSE]
  <2> DEFINE r == ReadString(d, of, f.size)
             w == WriteString(v)
  <2>1. v = <<>> \/ Len(v) + 1 <= f.size - 1
    <3>1. Len(v) \in Nat
      BY <1>2
    <3> QED
      BY <1>1, <1>2, <3>1
  <2>2. v = <<>> \/ Len(v) + 1 <= f.size - 1 => r.str = v /\ r.of = of + Len(w)
    BY <1>1, <1>2, <1>4, ReadStringIs
  <2>3. r.str = v /\ r.of = of + Len(w)
    BY <2>1, <2>2
  <2>4. ReadField(d, of, f) = [value |-> r.str, of |-> r.of, panic |-> FALSE]
    BY <1>1 DEF ReadField
  <2> HIDE DEF r, w
  <2>5. ReadField(d, of, f) = [value |-> v, of |-> of + Len(w), panic |-> FALSE]
    BY <2>3, <2>4
  <2> QED
    BY <2>5 DEF w
<1> QED
  BY <1>1, <1>3, <1>4 DEF Reads, TooLong

LEMMA ArrayReads ==
  ASSUME NEW f, ArrayField(f), NEW v, FieldFits(f, v), NEW d \in Seq(Int),
         Len(d) + 2 * Len(v) <= DataLength
  PROVE  CameraArray(2, v) \in Seq(Int) /\ Reads(f, CameraArray(2, v), v, d)
<1>1. f.kind = "array" /\ f.size \in Nat
  BY DEF ArrayField
<1>2. ArrayFits(2, v)
  BY <1>1 DEF FieldFits, ArrayFits
<1>3. v \in Seq(Nat) /\ Len(v) \in Nat /\ Len(d) \in Nat /\ DataLength \in Nat
  BY <1>2, DataLengthAssumption DEF ArrayFits
<1> DEFINE w == CameraArray(2, v)
<1>4. /\ w \in Seq(Int) /\ Len(w) = 4 + 2 * Len(v)
      /\ \A of \in Nat :
            Stands(w, d, of) =>
              /\ Unsigned(d, of, 4) = Len(v)
              /\ \A i \in 1..Len(v) : Unsigned(d, of + 4 + 2 * (i - 1), 2) = v[i]
  BY <1>2, ArrayStands
<1> HIDE DEF w
<1>5. ASSUME NEW of \in Nat, Stands(w, d, of)
      PROVE  /\ ReadField(d, of, f).of = of + Len(w)
             /\ ReadField(d, of, f).value = v
             /\ ReadField(d, of, f).panic <=> Len(v) > f.size
  <2>1. Unsigned(d, of, 4) = Len(v)
    BY <1>4, <1>5
  <2>2. of + Len(w) <= Len(d)
    BY <1>5 DEF Stands
  <2> DEFINE n == Len(v)
             c == [i \in 1..n |-> Unsigned(d, of + 2 + 2 * i, 2)]
  <2>3. ReadField(d, of, f) = [value |-> c, of |-> of + 4 + 2 * n, panic |-> n > f.size \/ DataLength - of < 4 * n + 4]
    BY <1>1, <2>1 DEF ReadField, ReadArray
  <2>4. ASSUME NEW i \in 1..n PROVE c[i] = v[i]
    <3>1. of + 2 + 2 * i = of + 4 + 2 * (i - 1)
      BY <1>3
    <3> QED
      BY <1>4, <1>5, <3>1
  <2>5. c = v
    <3>1. c = [i \in 1..n |-> c[i]]
      OBVIOUS
    <3>2. v = [i \in 1..n |-> v[i]]
      BY <1>3
    <3> HIDE DEF c
    <3> QED
      BY <2>4, <3>1, <3>2
  <2> HIDE DEF c, n
  <2>6. ~(DataLength - of < 4 * n + 4)
    BY <1>3, <1>4, <2>2 DEF n
  <2>7. of + 4 + 2 * n = of + Len(w)
    BY <1>3, <1>4 DEF n
  <2>8. ReadField(d, of, f).panic <=> n > f.size
    <3> DEFINE short == DataLength - of < 4 * n + 4
    <3>1. ReadField(d, of, f).panic = (n > f.size \/ short)
      BY <2>3
    <3> HIDE DEF n, short
    <3> QED
      BY <2>6, <3>1 DEF short
  <2>9. ReadField(d, of, f).of = of + Len(w) /\ ReadField(d, of, f).value = v
    BY <2>3, <2>5, <2>7
  <2> QED
    BY <2>8, <2>9 DEF n
<1> QED
  BY <1>1, <1>4, <1>5 DEF Reads, TooLong, w

\* A dataset whose parts are read one by one is read whole.
LEMMA FieldsRead ==
  ASSUME NEW fields, NEW parts \in Seq(Seq(Int)), Len(fields) = Len(parts), NEW info,
         \A i \in 1..Len(parts) : Reads(fields[i], parts[i], info[fields[i].name], FlattenSeq(parts))
  PROVE  LET d == FlattenSeq(parts)
             r == ReadFields(d, fields)
         IN  /\ Holds(r.values, info)
             /\ r.of = Len(d)
             /\ r.panic <=> \E i \in 1..Len(parts) : TooLong(fields[i], info[fields[i].name])
<1> DEFINE n == Len(parts)
           d == FlattenSeq(parts)
           D(g) == g = [k \in 0..n |-> IF k = 0 THEN 0 ELSE ReadField(d, g[k - 1], fields[k]).of]
           c == CHOOSE g : D(g)
<1>1. n \in Nat /\ Len(fields) = n
  OBVIOUS
<1>2. PICK off : Places(off, parts)
  BY PartsStand
<1>3. /\ off \in [0..n -> Nat] /\ off[0] = 0 /\ off[n] = Len(d)
      /\ \A i \in 1..n : off[i] = off[i - 1] + Len(parts[i]) /\ Stands(parts[i], d, off[i - 1])
  BY <1>2 DEF Places
<1>4. ASSUME NEW i \in 1..n
      PROVE  /\ ReadField(d, off[i - 1], fields[i]).of = off[i]
             /\ ReadField(d, off[i - 1], fields[i]).value = info[fields[i].name]
             /\ ReadField(d, off[i - 1], fields[i]).panic <=> TooLong(fields[i], info[fields[i].name])
  <2>1. off[i - 1] \in Nat
    <3>1. i - 1 \in 0..n
      BY <1>1
    <3> HIDE DEF n, d
    <3> QED
      BY <1>3, <3>1
  <2>2. Reads(fields[i], parts[i], info[fields[i].name], d)
    OBVIOUS
  <2> HIDE DEF d, n
  <2> QED
    BY <1>3, <2>1, <2>2 DEF Reads
<1> HIDE DEF d
<1>5. D(off)
  <2>1. ASSUME NEW k \in 0..n PROVE off[k] = IF k = 0 THEN 0 ELSE ReadField(d, off[k - 1], fields[k]).of
    <3>1. k # 0 => k \in 1..n
      BY <1>1
    <3> QED
      BY <1>3, <1>4, <3>1
  <2> QED
    BY <1>3, <2>1
<1>6. D(c)
  BY <1>5
<1> HIDE DEF c
<1> DEFINE R == {k \in 0..n : c[k] = off[k]}
<1>7. 0 \in R
  <2>1. 0 \in 0..n
    BY <1>1
  <2> QED
    BY <1>3, <1>6, <2>1
<1>8. ASSUME NEW k \in 0..n - 1, k \in R PROVE k + 1 \in R
  <2>1. k + 1 \in 0..n /\ k + 1 \in 1..n /\ (k + 1) - 1 = k /\ k + 1 # 0
    BY <1>1
  <2>2. c[k + 1] = ReadField(d, c[k], fields[k + 1]).of
    BY <1>6, <2>1
  <2>3. off[k + 1] = ReadField(d, off[k], fields[k + 1]).of
    BY <1>4, <2>1
  <2> QED
    BY <1>8, <2>1, <2>2, <2>3
<1> HIDE DEF R
<1>9. \A k \in 0..n : k \in R
  BY <1>1, <1>7, <1>8, UpTo
<1>10. c[n] = off[n] /\ \A i \in 1..n : c[i - 1] = off[i - 1]
  BY <1>1, <1>9 DEF R
<1> DEFINE values == [i \in 1..n |-> <<fields[i].name, ReadField(d, c[i - 1], fields[i]).value>>]
           panic == \E i \in 1..n : ReadField(d, c[i - 1], fields[i]).panic
<1>11. ReadFields(d, fields) = [of |-> c[n], values |-> values, panic |-> panic]
  BY <1>1 DEF ReadFields, c
<1>12. Holds(values, info)
  <2>1. Len(values) = n
    BY <1>1
  <2>2. ASSUME NEW i \in 1..n PROVE info[values[i][1]] = values[i][2]
    <3>1. values[i] = <<fields[i].name, ReadField(d, c[i - 1], fields[i]).value>>
      OBVIOUS
    <3>2. ReadField(d, c[i - 1], fields[i]).value = info[fields[i].name]
      BY <1>4, <1>10
    <3> HIDE DEF values
    <3> QED
      BY <3>1, <3>2
  <2> HIDE DEF values
  <2> QED
    BY <2>1, <2>2 DEF Holds
<1>13. panic <=> \E i \in 1..n : TooLong(fields[i], info[fields[i].name])
  BY <1>4, <1>10
<1>14. c[n] = Len(d)
  BY <1>3, <1>10
<1> HIDE DEF values, panic
<1>15. LET r == ReadFields(d, fields)
       IN  Holds(r.values, info) /\ r.of = Len(d) /\ (r.panic <=> panic)
  BY <1>11, <1>12, <1>14
<1> QED
  BY <1>13, <1>15 DEF d

\* The bytes of a field, and fields that are of one of the three kinds.
PartOf(f, v) == CASE f.kind = "number" -> Le(f.size, v)
                  [] f.kind = "string" -> WriteString(v)
                  [] f.kind = "array"  -> CameraArray(2, v)
KnownField(f) == NumberField(f) \/ StringField(f) \/ ArrayField(f)

LEMMA PartReads ==
  ASSUME NEW f, KnownField(f), NEW v, FieldFits(f, v)
  PROVE  /\ PartOf(f, v) \in Seq(Int)
         /\ \A d \in Seq(Int) :
              (f.kind = "array" => Len(d) + 2 * Len(v) <= DataLength) => Reads(f, PartOf(f, v), v, d)
<1>1. CASE NumberField(f)
  <2>1. PartOf(f, v) = Le(f.size, v)
    BY <1>1 DEF PartOf, NumberField
  <2>2. <<>> \in Seq(Int)
    OBVIOUS
  <2> QED
    BY <1>1, <2>1, <2>2, NumberReads
<1>2. CASE StringField(f)
  <2>1. PartOf(f, v) = WriteString(v)
    BY <1>2 DEF PartOf, StringField
  <2>2. <<>> \in Seq(Int)
    OBVIOUS
  <2> QED
    BY <1>2, <2>1, <2>2, StringReads
<1>3. CASE ArrayField(f)
  <2>1. PartOf(f, v) = CameraArray(2, v) /\ f.kind = "array"
    BY <1>3 DEF PartOf, ArrayField
  <2>2. ArrayFits(2, v)
    BY <2>1 DEF FieldFits, ArrayFits
  <2>3. 2 \in {2, 4}
    OBVIOUS
  <2>4. CameraArray(2, v) \in Seq(Int)
    BY <2>2, <2>3, ArrayStands
  <2> QED
    BY <1>3, <2>1, <2>4, ArrayReads
<1> QED
  BY <1>1, <1>2, <1>3 DEF KnownField

\* The parts of a dataset that fits.
Laid(fields, info, parts) ==
  /\ Len(fields) \in Nat
  /\ \A i \in 1..Len(fields) : KnownField(fields[i])
  /\ Fit(fields, info)
  /\ parts = [i \in 1..Len(fields) |-> PartOf(fields[i], info[fields[i].name])]
  /\ \A i \in 1..Len(fields) : fields[i].kind = "array" =>
       Len(FlattenSeq(parts)) + 2 * Len(info[fields[i].name]) <= DataLength
\* All fields come back, to the last byte, and only a list that is too long panics.
ReadBack(fields, info, d) ==
  LET r == ReadFields(d, fields)
  IN  /\ Holds(r.values, info)
      /\ r.of = Len(d)
      /\ r.panic <=> \E i \in 1..Len(fields) : TooLong(fields[i], info[fields[i].name])

\* A dataset that fits is read back.
LEMMA DatasetReads ==
  ASSUME NEW fields, NEW info, NEW parts, Laid(fields, info, parts)
  PROVE  /\ parts \in Seq(Seq(Int)) /\ Len(parts) = Len(fields)
         /\ ReadBack(fields, info, FlattenSeq(parts))
<1> DEFINE n == Len(fields)
           d == FlattenSeq(parts)
<1>1. \A i \in 1..n : parts[i] = PartOf(fields[i], info[fields[i].name]) /\ FieldFits(fields[i], info[fields[i].name])
  BY DEF Fit, Laid
<1>2. \A i \in 1..n : parts[i] \in Seq(Int)
  BY <1>1, PartReads DEF Laid
<1>3. parts \in Seq(Seq(Int)) /\ Len(parts) = n
  <2>1. parts = [i \in 1..n |-> parts[i]] /\ n \in Nat
    BY DEF Laid
  <2> HIDE DEF n
  <2> QED
    BY <1>2, <2>1, IsSeq
<1>4. d \in Seq(Int)
  BY <1>3, PartsStand
<1>5. \A i \in 1..Len(parts) : Reads(fields[i], parts[i], info[fields[i].name], d)
  <2> SUFFICES ASSUME NEW i \in 1..n PROVE Reads(fields[i], parts[i], info[fields[i].name], d)
    BY <1>3
  <2>1. KnownField(fields[i]) /\ (fields[i].kind = "array" => Len(d) + 2 * Len(info[fields[i].name]) <= DataLength)
    BY DEF Laid
  <2> HIDE DEF d
  <2> QED
    BY <1>1, <1>4, <2>1, PartReads
<1> QED
  BY <1>3, <1>5, FieldsRead DEF ReadBack

\* The datasets of the library: what is packed, or what the standard has the camera send.
LEMMA ObjectReturns ==
  ASSUME NEW info, Fit(ObjectInfoFields, info)
  PROVE  LET r == ParseObjectInfo(PackObjectInfo(info))
         IN  Holds(r.values, info) /\ r.of = Len(PackObjectInfo(info))
<1> DEFINE fields == ObjectInfoFields
           n == Len(fields)
           parts == [i \in 1..n |-> PartOf(fields[i], info[fields[i].name])]
           d == FlattenSeq(parts)
<1>1. n = 19 /\ n \in Nat
  BY DEF ObjectInfoFields
<1>2. ASSUME NEW i \in 1..n PROVE NumberField(fields[i]) \/ StringField(fields[i])
  BY SizesAssumption, SMTT(60) DEF ObjectInfoFields, NumberField, StringField, U16, U32, Str
<1>3. PackObjectInfo(info) = FlattenSeq([i \in 1..n |-> WriteField(fields[i], info[fields[i].name])])
  BY DEF PackObjectInfo, WriteFields
<1> HIDE DEF fields, n
<1>4. \A i \in 1..n : WriteField(fields[i], info[fields[i].name]) = PartOf(fields[i], info[fields[i].name]) /\ fields[i].kind # "array"
  BY <1>2 DEF WriteField, PartOf, NumberField, StringField
<1>5. PackObjectInfo(info) = d
  BY <1>3, <1>4
<1>6. LET r == ReadFields(d, fields) IN Holds(r.values, info) /\ r.of = Len(d)
  <2>1. \A i \in 1..n : KnownField(fields[i]) /\ fields[i].kind # "array"
    BY <1>2, <1>4 DEF KnownField
  <2>2. parts = [i \in 1..n |-> PartOf(fields[i], info[fields[i].name])]
    OBVIOUS
  <2>3. Fit(fields, info) /\ n = Len(fields)
    BY DEF fields, n
  <2> HIDE DEF parts
  <2>4. \A i \in 1..Len(fields) : fields[i].kind = "array" => Len(FlattenSeq(parts)) + 2 * Len(info[fields[i].name]) <= DataLength
    BY <2>1, <2>3
  <2>5. Laid(fields, info, parts)
    BY <1>1, <2>1, <2>2, <2>3, <2>4 DEF Laid
  <2> QED
    BY <2>5, DatasetReads DEF ReadBack
<1> QED
  BY <1>5, <1>6 DEF ParseObjectInfo, fields

LEMMA StorageReturns ==
  ASSUME NEW info, Fit(StorageInfoFields, info)
  PROVE  LET r == ParseStorageInfo(CameraStorage(info))
         IN  Holds(r.values, info) /\ r.of = Len(CameraStorage(info))
<1> DEFINE fields == StorageInfoFields
           parts == <<Le(2, info.storage_type), Le(2, info.fs_type), Le(2, info.access_capability),
                      Le(8, info.max_capacity), Le(8, info.free_space), Le(4, info.free_objects),
                      WriteString(info.storage_desc), WriteString(info.volume_identifier)>>
           d == FlattenSeq(parts)
<1>1. Len(fields) = 8 /\ Len(parts) = 8 /\ parts = [i \in 1..8 |-> parts[i]]
  BY DEF StorageInfoFields
<1>2. ASSUME NEW i \in 1..8 PROVE KnownField(fields[i]) /\ fields[i].kind # "array"
  BY SizesAssumption, SMTT(60) DEF StorageInfoFields, KnownField, NumberField, StringField, ArrayField, U16, U32, U64, Str
<1>3. ASSUME NEW i \in 1..8 PROVE parts[i] = PartOf(fields[i], info[fields[i].name])
  BY SMTT(60) DEF StorageInfoFields, PartOf, U16, U32, U64, Str
<1>4. CameraStorage(info) = d
  BY DEF CameraStorage
<1> HIDE DEF parts, fields
<1>5. parts = [i \in 1..8 |-> PartOf(fields[i], info[fields[i].name])]
  BY <1>1, <1>3
<1>6. /\ parts \in Seq(Seq(Int))
      /\ LET r == ReadFields(d, fields) IN Holds(r.values, info) /\ r.of = Len(d)
  <2>1. Fit(fields, info) /\ Len(fields) \in Nat
    BY <1>1 DEF fields
  <2>2. \A i \in 1..Len(fields) : KnownField(fields[i])
    BY <1>1, <1>2
  <2>3. \A i \in 1..Len(fields) : fields[i].kind = "array" => Len(FlattenSeq(parts)) + 2 * Len(info[fields[i].name]) <= DataLength
    BY <1>1, <1>2
  <2>4. parts = [i \in 1..Len(fields) |-> PartOf(fields[i], info[fields[i].name])]
    BY <1>1, <1>5
  <2>5. Laid(fields, info, parts)
    BY <2>1, <2>2, <2>3, <2>4 DEF Laid
  <2> QED
    BY <2>5, DatasetReads DEF ReadBack
<1>7. Len(d) >= 26
  <2>1. PICK off : Places(off, parts)
    BY <1>6, PartsStand
  <2>2. /\ off \in [0..8 -> Nat] /\ off[0] = 0
        /\ \A i \in 1..8 : off[i] = off[i - 1] + Len(parts[i]) /\ Stands(parts[i], d, off[i - 1])
    BY <1>1, <2>1 DEF Places
  <2>3. info.storage_type \in Int /\ info.fs_type \in Int /\ info.access_capability \in Int
        /\ info.max_capacity \in Int /\ info.free_space \in Int /\ info.free_objects \in Int
    <3>1. \A i \in 1..8 : FieldFits(fields[i], info[fields[i].name])
      BY <1>1 DEF Fit, fields
    <3>2. ASSUME NEW i \in 1..6 PROVE fields[i].kind = "number"
      BY DEF fields, StorageInfoFields, U16, U32, U64
    <3>3. ASSUME NEW i \in 1..6 PROVE info[fields[i].name] \in Int
      <4>1. i \in 1..8
        OBVIOUS
      <4> QED
        <5>1. FieldFits(fields[i], info[fields[i].name]) /\ fields[i].kind = "number"
          BY <3>1, <3>2, <4>1
        <5>2. Fits(fields[i].size, info[fields[i].name])
          BY <5>1 DEF FieldFits
        <5> QED
          BY <5>2, SMT DEF Fits
    <3> QED
      BY <3>3 DEF fields, StorageInfoFields, U16, U32, U64
  <2>4. 2 \in 1..8 /\ 4 \in 1..8 /\ 8 \in 1..8
    OBVIOUS
  <2>5. Len(parts[1]) = 2 /\ Len(parts[2]) = 2 /\ Len(parts[3]) = 2 /\ Len(parts[4]) = 8 /\ Len(parts[5]) = 8 /\ Len(parts[6]) = 4
    BY <2>3, <2>4, LeBytes DEF parts
  <2>6. off[1] = off[0] + 2 /\ off[2] = off[1] + 2 /\ off[3] = off[2] + 2 /\ off[4] = off[3] + 8 /\ off[5] = off[4] + 8
        /\ Stands(parts[6], d, off[5])
    <3>1. ASSUME NEW i \in 1..8 PROVE off[i] = off[i - 1] + Len(parts[i]) /\ Stands(parts[i], d, off[i - 1])
      BY <2>2
    <3> HIDE DEF d
    <3>2. off[1] = off[0] + 2
      <4>1. 1 \in 1..8 /\ 1 - 1 = 0
        OBVIOUS
      <4>2. off[1] = off[1 - 1] + Len(parts[1])
        BY <3>1, <4>1
      <4> QED
        BY <2>5, <4>1, <4>2
    <3>3. off[2] = off[1] + 2
      <4>1. 2 \in 1..8 /\ 2 - 1 = 1
        OBVIOUS
      <4>2. off[2] = off[2 - 1] + Len(parts[2])
        BY <3>1, <4>1
      <4> QED
        BY <2>5, <4>1, <4>2
    <3>4. off[3] = off[2] + 2
      <4>1. 3 \in 1..8 /\ 3 - 1 = 2
        OBVIOUS
      <4>2. off[3] = off[3 - 1] + Len(parts[3])
        BY <3>1, <4>1
      <4> QED
        BY <2>5, <4>1, <4>2
    <3>5. off[4] = off[3] + 8
      <4>1. 4 \in 1..8 /\ 4 - 1 = 3
        OBVIOUS
      <4>2. off[4] = off[4 - 1] + Len(parts[4])
        BY <3>1, <4>1
      <4> QED
        BY <2>5, <4>1, <4>2
    <3>6. off[5] = off[4] + 8
      <4>1. 5 \in 1..8 /\ 5 - 1 = 4
        OBVIOUS
      <4>2. off[5] = off[5 - 1] + Len(parts[5])
        BY <3>1, <4>1
      <4> QED
        BY <2>5, <4>1, <4>2
    <3>7. Stands(parts[6], d, off[5])
      BY <3>1
    <3> QED
      BY <3>2, <3>3, <3>4, <3>5, <3>6, <3>7
  <2> QED
    BY <2>2, <2>5, <2>6 DEF Stands
<1>8. ParseStorageInfo(d) = ReadFields(d, fields)
  <2>1. Len(d) \in Nat
    BY <1>6, PartsStand
  <2>2. ~(Len(d) < 26)
    BY <1>7, <2>1
  <2> QED
    BY <2>2 DEF ParseStorageInfo, fields
<1> QED
  BY <1>4, <1>6, <1>8

LEMMA DeviceReturns ==
  ASSUME NEW info, Fit(DeviceInfoFields, info),
         \A name \in Arrays : Len(CameraDevice(info)) + 2 * Len(info[name]) <= DataLength
  PROVE  LET r == ParseDeviceInfo(CameraDevice(info))
         IN  /\ Holds(r.values, info) /\ r.of = Len(CameraDevice(info))
             /\ r.panic <=> \E name \in Arrays : Len(info[name]) > ArrayMax
<1> DEFINE fields == DeviceInfoFields
           parts == <<Le(2, info.standard_version), Le(4, info.vendor_ext_id), Le(2, info.version),
               WriteString(info.extensions), Le(2, info.functional_mode),
               CameraArray(2, info.ops_supported), CameraArray(2, info.events_supported),
               CameraArray(2, info.props_supported), CameraArray(2, info.capture_formats),
               CameraArray(2, info.playback_formats), WriteString(info.manufacturer),
               WriteString(info.model), WriteString(info.device_version), WriteString(info.serial_number)>>
           d == FlattenSeq(parts)
<1>1. Len(fields) = 14 /\ Len(parts) = 14 /\ parts = [i \in 1..14 |-> parts[i]]
  BY DEF DeviceInfoFields
<1>2. ASSUME NEW i \in 1..14
      PROVE  KnownField(fields[i]) /\ (fields[i].kind = "array" => i \in 6..10)
  BY SizesAssumption, SMTT(60) DEF DeviceInfoFields, KnownField, NumberField, StringField, ArrayField, U16, U32, Str, Arr
<1>3. ASSUME NEW i \in 1..14 PROVE parts[i] = PartOf(fields[i], info[fields[i].name])
  BY SMTT(60) DEF DeviceInfoFields, PartOf, U16, U32, Str, Arr
<1>4. CameraDevice(info) = d
  BY DEF CameraDevice
<1>5. ASSUME NEW i \in 6..10 PROVE fields[i].name \in Arrays /\ fields[i].kind = "array" /\ fields[i].size = ArrayMax
  BY SMTT(60) DEF DeviceInfoFields, Arrays, Arr
<1>6. ASSUME NEW name \in Arrays PROVE \E i \in 6..10 : fields[i].name = name
  BY SMTT(60) DEF DeviceInfoFields, Arrays, Arr
<1> HIDE DEF parts, fields
<1>7. parts = [i \in 1..14 |-> PartOf(fields[i], info[fields[i].name])]
  BY <1>1, <1>3
<1>8. \A i \in 1..14 : fields[i].kind = "array" => Len(d) + 2 * Len(info[fields[i].name]) <= DataLength
  BY <1>2, <1>4, <1>5
<1>9. LET r == ReadFields(d, fields)
      IN  /\ Holds(r.values, info) /\ r.of = Len(d)
          /\ r.panic <=> \E i \in 1..14 : TooLong(fields[i], info[fields[i].name])
  <2>1. Fit(fields, info) /\ Len(fields) \in Nat /\ 1..Len(fields) = 1..14
    BY <1>1 DEF fields
  <2>2. \A i \in 1..Len(fields) : KnownField(fields[i])
    BY <2>1, <1>2
  <2>3. \A i \in 1..Len(fields) : fields[i].kind = "array" => Len(FlattenSeq(parts)) + 2 * Len(info[fields[i].name]) <= DataLength
    BY <2>1, <1>8
  <2>4. parts = [i \in 1..Len(fields) |-> PartOf(fields[i], info[fields[i].name])]
    BY <2>1, <1>7
  <2>5. LET r == ReadFields(FlattenSeq(parts), fields)
        IN  /\ Holds(r.values, info) /\ r.of = Len(FlattenSeq(parts))
            /\ r.panic <=> \E i \in 1..Len(fields) : TooLong(fields[i], info[fields[i].name])
    <3>1. Laid(fields, info, parts)
      BY <2>1, <2>2, <2>3, <2>4 DEF Laid
    <3> QED
      BY <3>1, DatasetReads DEF ReadBack
  <2> QED
    BY <2>1, <2>5
<1>10. (\E i \in 1..14 : TooLong(fields[i], info[fields[i].name])) <=> \E name \in Arrays : Len(info[name]) > ArrayMax
  <2>1. ASSUME NEW i \in 1..14, TooLong(fields[i], info[fields[i].name])
        PROVE  \E name \in Arrays : Len(info[name]) > ArrayMax
    BY <1>2, <1>5, <2>1 DEF TooLong
  <2>2. ASSUME NEW name \in Arrays, Len(info[name]) > ArrayMax
        PROVE  \E i \in 1..14 : TooLong(fields[i], info[fields[i].name])
    <3>1. PICK i \in 6..10 : fields[i].name = name
      BY <1>6
    <3>2. i \in 1..14
      OBVIOUS
    <3> QED
      BY <1>5, <2>2, <3>1, <3>2 DEF TooLong
  <2> QED
    BY <2>1, <2>2
<1> QED
  BY <1>4, <1>9, <1>10 DEF ParseDeviceInfo, fields

\* A list of handles is copied whole.
LEMMA HandlesReturn ==
  ASSUME NEW items \in Seq(Nat), Fits(4, Len(items)), \A i \in 1..Len(items) : Fits(4, items[i])
  PROVE  DupArray(CameraArray(4, items)) = items
<1> DEFINE d == CameraArray(4, items)
           n == Len(items)
<1>1. ArrayFits(4, items) /\ 4 \in {2, 4} /\ 0 \in Nat
  BY DEF ArrayFits
<1>2. d \in Seq(Int) /\ Unsigned(d, 0, 4) = n /\ \A i \in 1..n : Unsigned(d, 0 + 4 + 4 * (i - 1), 4) = items[i]
  BY <1>1, ArrayStands, StandsWhole
<1> HIDE DEF d
<1>3. ASSUME NEW i \in 1..n PROVE Unsigned(d, 4 * i, 4) = items[i]
  <2>1. 0 + 4 + 4 * (i - 1) = 4 * i
    OBVIOUS
  <2> QED
    BY <1>2, <2>1
<1>4. DupArray(d) = [i \in 1..n |-> items[i]]
  BY <1>2, <1>3 DEF DupArray
<1> QED
  BY <1>4 DEF d

\* For datasets whose values fit their fields: object infos come back as they
\* were packed, storage and device infos are read to the last byte, only an
\* array longer than its member panics, and handles are copied whole, whatever
\* the sizes of the members (data.c:398-470, 497-523, operations.c:11-26).
THEOREM DatasetsComeBack ==
  ASSUME \A j \in AllJobs : DatasetJob(j)
  PROVE  Spec => []DatasetsReturn
<1> DEFINE Job == job \in AllJobs
<1>1. Init => Job /\ DatasetsReturn
  BY DEF Init, AllJobs, DatasetsReturn, Finished, Nothing
<1>2. Job /\ DatasetsReturn /\ [Next]_vars => (Job /\ DatasetsReturn)'
  <2> SUFFICES ASSUME Job, DatasetsReturn, [Next]_vars PROVE (Job /\ DatasetsReturn)'
    OBVIOUS
  <2>1. job' = job
    BY Steps
  <2>2. CASE job.kind \notin {"handles", "object", "storage", "device"}
    BY <2>1, <2>2 DEF DatasetsReturn, Finished
  <2>3. CASE result' = result
    BY <2>1, <2>3 DEF DatasetsReturn, Finished
  <2>4. DatasetJob(job)
    OBVIOUS
  <2>5. CASE job.kind = "handles" /\ result' # result
    <3>1. result'.value = DupArray(CameraArray(4, job.items))
      BY <2>5, Steps
    <3> QED
      BY <2>1, <2>4, <2>5, <3>1, HandlesReturn DEF DatasetsReturn, Finished, DatasetJob
  <2>6. CASE job.kind = "object" /\ result' # result
    <3>1. result'.value = ParseObjectInfo(PackObjectInfo(job.info))
      BY <2>6, Steps
    <3> QED
      BY <2>1, <2>4, <2>6, <3>1, ObjectReturns DEF DatasetsReturn, Finished, DatasetJob
  <2>7. CASE job.kind = "storage" /\ result' # result
    <3>1. result'.value = ParseStorageInfo(CameraStorage(job.info))
      BY <2>7, Steps
    <3> QED
      BY <2>1, <2>4, <2>7, <3>1, StorageReturns DEF DatasetsReturn, Finished, DatasetJob
  <2>8. CASE job.kind = "device" /\ result' # result
    <3>1. result'.value = ParseDeviceInfo(CameraDevice(job.info))
      BY <2>8, Steps
    <3> QED
      BY <2>1, <2>4, <2>8, <3>1, DeviceReturns DEF DatasetsReturn, Finished, DatasetJob
  <2> QED
    BY <2>2, <2>3, <2>5, <2>6, <2>7, <2>8
<1> QED
  BY <1>1, <1>2, PTL DEF Spec

-----------------------------------------------------------------------------
(* Property descriptions: numbers with a sign, values of each type, ranges. *)

\* The highest byte of a signed number carries its sign.
Sign(b) == IF b > 127 THEN b - 256 ELSE b
Short(v) == v >= -32768 /\ v <= 32767
Long(v) == v >= -2147483647 - 1 /\ v <= 2147483647
TwoBytes(a, b) == a + Sign(b) * 256
FourBytes(a, b, c, d) == a + 256 * b + 65536 * c + Sign(d) * 16777216
\* A signed number is the sum of its bytes.
LEMMA SignedBytes ==
  ASSUME NEW v \in Int
  PROVE  /\ Short(v) => TwoBytes(ByteOf(v, 1), ByteOf(v, 2)) = v
         /\ Long(v) => FourBytes(ByteOf(v, 1), ByteOf(v, 2), ByteOf(v, 3), ByteOf(v, 4)) = v
<1>1. /\ ByteOf(v, 1) = v % 256 /\ ByteOf(v, 2) = (v \div 256) % 256
      /\ ByteOf(v, 3) = (v \div 65536) % 256 /\ ByteOf(v, 4) = (v \div 16777216) % 256
  BY SMT DEF ByteOf
<1>2. Short(v) => TwoBytes(v % 256, (v \div 256) % 256) = v
  BY SMT DEF Short, TwoBytes, Sign
<1>3. Long(v) => FourBytes(v % 256, (v \div 256) % 256, (v \div 65536) % 256, (v \div 16777216) % 256) = v
  BY SMT DEF Long, FourBytes, Sign
<1>4. Short(v) => TwoBytes(ByteOf(v, 1), ByteOf(v, 2)) = v
  BY <1>1, <1>2, SMT
<1>5. Long(v) => FourBytes(ByteOf(v, 1), ByteOf(v, 2), ByteOf(v, 3), ByteOf(v, 4)) = v
  BY <1>1, <1>3, SMT
<1> QED
  BY <1>4, <1>5, Zenon

\* The width of each type.
LEMMA Widths ==
  /\ \A t \in Types : Width(t) \in {1, 2, 4, 8}
  /\ \A t \in Scalars : t \in Types /\ t \notin ArrayTypes /\ t # "STRING" /\ t \notin Longs /\ Width(t) \in {1, 2, 4}
  /\ \A t \in Longs : t \in Types /\ t \notin ArrayTypes /\ t # "STRING" /\ t \notin Scalars /\ Width(t) = 8
  /\ \A t \in ArrayTypes : t \in Types /\ t # "STRING" /\ t \notin Scalars /\ t \notin Longs
  /\ "STRING" \in Types /\ "STRING" \notin Scalars /\ "STRING" \notin ArrayTypes /\ "STRING" \notin Longs
  /\ \A t \in Types : t \in Scalars \/ t \in Longs \/ t \in ArrayTypes \/ t = "STRING"
BY DEF Types, Scalars, Longs, ArrayTypes, Width

\* What fits a type of numbers is a number.
LEMMA FitsNumber ==
  ASSUME NEW t \in Scalars \cup Longs, NEW v, ValueFits(t, v)
  PROVE  v \in Int
BY Widths DEF ValueFits

\* The limits of the types that are read with a sign.
LEMMA Limits ==
  ASSUME NEW t \in {"INT16", "INT32", "UINT32"}, NEW v, ValueFits(t, v)
  PROVE  v \in Int /\ (t = "INT16" => Short(v)) /\ (t # "INT16" => Long(v))
BY SMT DEF ValueFits, Lowest, Highest, Short, Long, Scalars

\* A number is read back with its sign, as far as the type has one.
LEMMA ScalarReads ==
  ASSUME NEW t \in Scalars, NEW v, ValueFits(t, v), NEW d \in Seq(Int), NEW of \in Nat,
         Stands(Le(Width(t), v), d, of)
  PROVE  ParseU32(d, of, t) = v
<1> DEFINE n == Width(t)
<1>1. v \in Int
  BY FitsNumber
<1>2. n \in 1..8 /\ n \in {1, 2, 3, 4, 8}
  BY Widths
<1>3. CASE t \in {"INT8", "UINT8", "UINT16"}
  <2>1. Fits(n, v)
    <3>1. (t # "UINT16" => n = 1) /\ (t = "UINT16" => n = 2)
      BY <1>3 DEF Width
    <3> HIDE DEF n
    <3> QED
      BY <1>3, <3>1, SMT DEF Fits, ValueFits, Lowest, Highest
  <2>2. Unsigned(d, of, n) = v
    BY <1>2, <2>1, ReadsNumber
  <2> QED
    BY <1>3, <2>2 DEF ParseU32
<1>4. CASE t \in {"INT16", "INT32", "UINT32"}
  <2>1. n \in {2, 4} /\ (n = 2 <=> t = "INT16")
    BY <1>4 DEF Width
  <2>2. ParseU32(d, of, t) = Signed(d, of, n)
    BY <1>4 DEF ParseU32
  <2> HIDE DEF n
  <2>3. /\ Le(n, v) \in Seq(Int) /\ Len(Le(n, v)) = n
        /\ \A i \in 1..n : i <= 4 => Le(n, v)[i] = ByteOf(v, i)
    BY <1>1, <1>2, LeBytes
  <2>4. ASSUME NEW i \in 1..n, i <= 4 PROVE At(d, of + (i - 1)) = ByteOf(v, i)
    BY <2>3, <2>4, StandsAt DEF n
  <2>5. At(d, of) = ByteOf(v, 1)
    <3>1. 1 \in 1..n /\ 1 <= 4 /\ of + (1 - 1) = of
      BY <1>2
    <3> QED
      BY <2>4, <3>1
  <2>6. At(d, of + 1) = ByteOf(v, 2)
    <3>1. 2 \in 1..n /\ 2 - 1 = 1 /\ 2 <= 4
      BY <2>1
    <3> QED
      BY <2>4, <3>1
  <2>7. CASE n = 2
    <3>1. Short(v)
      BY <1>4, <2>1, <2>7, Limits
    <3>2. TwoBytes(ByteOf(v, 1), ByteOf(v, 2)) = v
      BY <1>1, <3>1, SignedBytes
    <3>3. Signed(d, of, n) = TwoBytes(ByteOf(v, 1), ByteOf(v, 2))
      <4>0. ByteOf(v, 1) \in Int
        BY <1>1, SMT DEF ByteOf
      <4>1. of + n - 1 = of + 1 /\ Place[n] = 256
        BY <2>7, SMT DEF Place
      <4>2. Signed(d, of, n) = Unsigned(d, of, n - 1) + Sign(At(d, of + n - 1)) * Place[n]
        BY Zenon DEF Signed, Sign
      <4>3. Unsigned(d, of, n - 1) = ByteOf(v, 1)
        BY <2>5, <2>7, <4>0, SMT DEF Unsigned
      <4> QED
        BY <2>6, <4>1, <4>2, <4>3, SMT DEF TwoBytes
    <3> QED
      BY <2>2, <3>2, <3>3
  <2>8. CASE n = 4
    <3>1. Long(v)
      BY <1>4, <2>1, <2>8, Limits
    <3>2. FourBytes(ByteOf(v, 1), ByteOf(v, 2), ByteOf(v, 3), ByteOf(v, 4)) = v
      BY <1>1, <3>1, SignedBytes
    <3>3. At(d, of + 2) = ByteOf(v, 3) /\ At(d, of + 3) = ByteOf(v, 4)
      <4>1. 3 \in 1..n /\ 3 - 1 = 2 /\ 3 <= 4 /\ 4 \in 1..n /\ 4 - 1 = 3 /\ 4 <= 4
        BY <2>8
      <4> QED
        BY <2>4, <4>1
    <3>4. Signed(d, of, n) = FourBytes(ByteOf(v, 1), ByteOf(v, 2), ByteOf(v, 3), ByteOf(v, 4))
      <4>1. of + n - 1 = of + 3 /\ Place[n] = 16777216
        BY <2>8, SMT DEF Place
      <4>2. Signed(d, of, n) = Unsigned(d, of, n - 1) + Sign(At(d, of + n - 1)) * Place[n]
        BY Zenon DEF Signed, Sign
      <4>3. Unsigned(d, of, n - 1) = ByteOf(v, 1) + 256 * ByteOf(v, 2) + 65536 * ByteOf(v, 3)
        BY <2>5, <2>6, <2>8, <3>3, SMT DEF Unsigned
      <4> QED
        BY <3>3, <4>1, <4>2, <4>3, SMT DEF FourBytes
    <3> QED
      BY <2>2, <3>2, <3>4
  <2> QED
    BY <2>1, <2>7, <2>8
<1> QED
  BY <1>3, <1>4 DEF Scalars

\* What stands somewhere is cut out there.
LEMMA StandsCopy ==
  ASSUME NEW d \in Seq(Int), NEW w \in Seq(Int), NEW of \in Nat, Stands(w, d, of)
  PROVE  SubSeq(d, of + 1, of + Len(w)) = w
<1> DEFINE n == Len(w)
           c == SubSeq(d, of + 1, of + n)
<1>1. n \in Nat /\ of + 1 \in Nat /\ of + n \in Int /\ of + n <= Len(d) /\ Len(d) \in Nat
      /\ \A i \in 1..n : d[of + i] = w[i]
  BY DEF Stands
<1>2. ASSUME NEW i \in of + 1..of + n PROVE d[i] \in Int
  <2>1. i \in 1..Len(d)
    BY <1>1
  <2> QED
    BY <2>1
<1>3. of + 1 \in Int /\ of + n \in Int
  BY <1>1
<1>4. /\ c \in Seq(Int)
      /\ Len(c) = IF of + 1 <= of + n THEN (of + n) - (of + 1) + 1 ELSE 0
      /\ \A i \in 1..(of + n) - (of + 1) + 1 : c[i] = d[of + 1 + i - 1]
  <2> HIDE DEF n
  <2> QED
    BY <1>2, <1>3, SubSeqProperties
<1> HIDE DEF c, n
<1>5. Len(c) = n /\ (of + n) - (of + 1) + 1 = n
  BY <1>1, <1>4
<1>6. ASSUME NEW i \in 1..n PROVE c[i] = w[i]
  <2>1. of + 1 + i - 1 = of + i
    BY <1>1
  <2> QED
    BY <1>1, <1>4, <1>5, <2>1
<1>7. n = Len(w)
  BY DEF n
<1>8. c = w
  BY <1>4, <1>5, <1>6, <1>7, SeqEqual
<1> QED
  BY <1>8 DEF c, n

\* Items of one width, one behind the other.
LEMMA ItemsLength ==
  ASSUME NEW width \in {1, 2, 4, 8}, NEW items \in Seq(Int)
  PROVE  LET w == FlattenSeq([i \in 1..Len(items) |-> Le(width, items[i])])
         IN  w \in Seq(Int) /\ Len(w) = Len(items) * width
<1> DEFINE parts == [i \in 1..Len(items) |-> Le(width, items[i])]
           n == Len(items)
<1>1. n \in Nat /\ \A i \in 1..n : items[i] \in Int
  OBVIOUS
<1>2. ASSUME NEW i \in 1..n PROVE parts[i] = Le(width, items[i]) /\ parts[i] \in Seq(Int) /\ Len(parts[i]) = width
  <2>1. width \in 1..8 /\ items[i] \in Int
    BY <1>1
  <2> QED
    BY <2>1, LeBytes
<1>3. parts = [i \in 1..n |-> parts[i]]
  OBVIOUS
<1> HIDE DEF parts, n
<1>4. parts \in Seq(Seq(Int)) /\ Len(parts) = n
  BY <1>1, <1>2, <1>3, IsSeq
<1>5. PICK off : Places(off, parts)
  BY <1>4, PartsStand
<1>6. /\ off[0] = 0 /\ off[n] = Len(FlattenSeq(parts))
      /\ \A i \in 1..n : off[i] = off[i - 1] + width
  BY <1>2, <1>4, <1>5 DEF Places
<1> DEFINE R == {k \in 0..n : off[k] = k * width}
<1>7. 0 \in R
  BY <1>1, <1>6
<1>8. ASSUME NEW k \in 0..n - 1, k \in R PROVE k + 1 \in R
  <2>1. k + 1 \in 1..n /\ (k + 1) - 1 = k /\ k + 1 \in 0..n
    BY <1>1
  <2>2. off[k + 1] = off[k] + width
    BY <1>6, <2>1
  <2>3. off[k] = k * width
    BY <1>8
  <2>4. k * width + width = (k + 1) * width
    BY <1>1
  <2> QED
    BY <2>1, <2>2, <2>3, <2>4
<1> HIDE DEF R
<1>9. \A k \in 0..n : k \in R
  BY <1>1, <1>7, <1>8, UpTo
<1>10. off[n] = n * width
  BY <1>1, <1>9 DEF R
<1>11. FlattenSeq(parts) \in Seq(Int)
  BY <1>4, PartsStand
<1> QED
  BY <1>6, <1>10, <1>11 DEF parts, n

\* An array of any width is taken whole.
LEMMA ArrayTaken ==
  ASSUME NEW width \in {1, 2, 4, 8}, NEW items \in Seq(Int), Fits(4, Len(items))
  PROVE  /\ CameraArray(width, items) \in Seq(Int)
         /\ Len(CameraArray(width, items)) = 4 + Len(items) * width
         /\ \A d \in Seq(Int), of \in Nat :
              Stands(CameraArray(width, items), d, of) => Unsigned(d, of, 4) = Len(items)
<1> DEFINE w == FlattenSeq([i \in 1..Len(items) |-> Le(width, items[i])])
           l == Le(4, Len(items))
<1>1. w \in Seq(Int) /\ Len(w) = Len(items) * width
  BY ItemsLength
<1>2. Len(items) \in Int /\ 4 \in 1..8 /\ 4 \in {1, 2, 3, 4, 8}
  OBVIOUS
<1>3. l \in Seq(Int) /\ Len(l) = 4
  BY <1>2, LeBytes
<1>4. CameraArray(width, items) = l \o w
  BY DEF CameraArray
<1> HIDE DEF w
<1>5. l \o w \in Seq(Int) /\ Len(l \o w) = Len(l) + Len(w)
  <2> HIDE DEF l
  <2> QED
    BY <1>1, <1>3, Concat
<1>6. ASSUME NEW d \in Seq(Int), NEW of \in Nat, Stands(l \o w, d, of)
      PROVE  Unsigned(d, of, 4) = Len(items)
  <2>1. Stands(l, d, of)
    <3> HIDE DEF l
    <3> QED
      BY <1>1, <1>3, <1>6, StandsParts
  <2> QED
    BY <1>2, <2>1, ReadsNumber
<1> HIDE DEF l
<1>7. Len(l \o w) = 4 + Len(items) * width
  BY <1>1, <1>3, <1>5
<1> QED
  BY <1>4, <1>5, <1>6, <1>7

\* The bytes of a value.
LEMMA ValueBytes ==
  ASSUME NEW t \in Types, NEW v, ValueFits(t, v)
  PROVE  /\ CameraValue(t, v) \in Seq(Int)
         /\ t \in Scalars \cup Longs => CameraValue(t, v) = Le(Width(t), v) /\ Len(CameraValue(t, v)) = Width(t)
<1>1. CASE t \in ArrayTypes
  <2>1. CameraValue(t, v) = CameraArray(Width(t), v)
    BY <1>1, Widths, Zenon DEF CameraValue
  <2>2. v \in Seq(Int) /\ Fits(4, Len(v)) /\ Width(t) \in {1, 2, 4, 8}
    BY <1>1, Widths DEF ValueFits
  <2> QED
    BY <1>1, <2>1, <2>2, ArrayTaken, Widths
<1>2. CASE t = "STRING"
  <2>1. CameraValue(t, v) = WriteString(v)
    BY <1>2, Widths DEF CameraValue
  <2>2. v \in Seq(Printable) /\ Len(v) <= Longest
    BY <1>2 DEF ValueFits
  <2> QED
    BY <1>2, <2>1, <2>2, WriteStringBytes, Widths
<1>3. CASE t \in Scalars \cup Longs
  <2>1. CameraValue(t, v) = Le(Width(t), v)
    BY <1>3, Widths DEF CameraValue
  <2>2. v \in Int
    BY <1>3, FitsNumber
  <2>3. Width(t) \in 1..8
    BY Widths
  <2> QED
    BY <2>1, <2>2, <2>3, LeBytes
<1> QED
  BY <1>1, <1>2, <1>3, Widths

\* The bytes of a value are taken whole, wherever they stand.
Taken(t, v, d, of) ==
  LET w == CameraValue(t, v)
      r == ParseValue(d, of, t)
  IN  /\ PropSize(d, of, t) = Len(w)
      /\ r.of = of + Len(w)
      /\ r.u32 = ParseU32(d, of, t)
      /\ t \in Scalars => r.u32 = v
      /\ t \notin Scalars => r.data = w

LEMMA SizeTaken ==
  ASSUME NEW t \in Types, NEW v, ValueFits(t, v), NEW d \in Seq(Int), NEW of \in Nat,
         Stands(CameraValue(t, v), d, of)
  PROVE  PropSize(d, of, t) = Len(CameraValue(t, v))
<1>1. CASE t \in ArrayTypes
  <2>1. CameraValue(t, v) = CameraArray(Width(t), v)
    BY <1>1, Widths, Zenon DEF CameraValue
  <2>2. v \in Seq(Int) /\ Fits(4, Len(v)) /\ Width(t) \in {1, 2, 4, 8}
    BY <1>1, Widths DEF ValueFits
  <2>3. Unsigned(d, of, 4) = Len(v) /\ Len(CameraValue(t, v)) = 4 + Len(v) * Width(t)
    <3>1. Stands(CameraArray(Width(t), v), d, of)
      BY <2>1
    <3> DEFINE k == Width(t)
    <3>2. v \in Seq(Int) /\ Fits(4, Len(v)) /\ k \in {1, 2, 4, 8} /\ Stands(CameraArray(k, v), d, of)
      BY <2>2, <3>1
    <3> HIDE DEF k
    <3>3. /\ Len(CameraArray(k, v)) = 4 + Len(v) * k
          /\ \A e \in Seq(Int), at \in Nat : Stands(CameraArray(k, v), e, at) => Unsigned(e, at, 4) = Len(v)
      BY <3>2, ArrayTaken
    <3>4. Unsigned(d, of, 4) = Len(v)
      BY <3>2, <3>3
    <3> QED
      BY <2>1, <3>3, <3>4 DEF k
  <2>4. PropSize(d, of, t) = 4 + Unsigned(d, of, 4) * Width(t)
    BY <1>1, Widths, Zenon DEF PropSize
  <2> QED
    BY <2>3, <2>4
<1>2. CASE t = "STRING"
  <2>1. CameraValue(t, v) = WriteString(v)
    BY <1>2, Widths DEF CameraValue
  <2>2. v \in Seq(Printable) /\ Len(v) <= Longest /\ Len(v) \in Nat
    BY <1>2 DEF ValueFits
  <2>3. PropSize(d, of, t) = 1 + At(d, of) * 2
    BY <1>2, Widths DEF PropSize
  <2> DEFINE w == WriteString(v)
  <2>4. w \in Seq(Int) /\ Stands(w, d, of)
    BY <2>1, <2>2, WriteStringBytes
  <2>5. CASE v = <<>>
    <3>1. w = <<0>> /\ Len(<<0>>) = 1 /\ <<0>>[1] = 0
      BY <2>5, EmptyStringIs
    <3> HIDE DEF w
    <3>2. 1 \in 1..Len(w) /\ of + (1 - 1) = of
      BY <3>1
    <3>3. At(d, of) = w[1]
      BY <2>4, <3>2, StandsAt
    <3>4. At(d, of) = 0
      BY <3>1, <3>3
    <3> QED
      BY <2>1, <2>3, <3>1, <3>4 DEF w
  <2>6. CASE v # <<>>
    <3>1. Len(v) \in 1..Longest
      <4>1. Len(v) # 0
        BY <2>2, <2>6, EmptySeq
      <4> QED
        BY <2>2, <4>1, LongestByte
    <3>2. Len(w) = 2 * Len(v) + 3 /\ w[1] = Len(v) + 1
      BY <2>2, <3>1, WriteStringIs
    <3> HIDE DEF w
    <3>3. 1 \in 1..Len(w) /\ of + (1 - 1) = of
      BY <2>2, <3>2
    <3>4. At(d, of) = Len(v) + 1
      BY <2>4, <3>2, <3>3, StandsAt
    <3>5. 1 + (Len(v) + 1) * 2 = 2 * Len(v) + 3
      BY <2>2
    <3> QED
      BY <2>1, <2>3, <3>2, <3>4, <3>5 DEF w
  <2> QED
    BY <2>5, <2>6
<1>3. CASE t \in Scalars \cup Longs
  <2>1. PropSize(d, of, t) = Width(t)
    BY <1>3, Widths DEF PropSize
  <2> QED
    BY <1>3, <2>1, ValueBytes
<1> QED
  BY <1>1, <1>2, <1>3, Widths

LEMMA ValueReads ==
  ASSUME NEW t \in Types, NEW v, ValueFits(t, v), NEW d \in Seq(Int), NEW of \in Nat,
         Stands(CameraValue(t, v), d, of)
  PROVE  Taken(t, v, d, of)
<1> DEFINE w == CameraValue(t, v)
           r == ParseValue(d, of, t)
<1>1. w \in Seq(Int) /\ PropSize(d, of, t) = Len(w)
  BY ValueBytes, SizeTaken
<1>2. /\ r.of = of + PropSize(d, of, t)
      /\ r.u32 = ParseU32(d, of, t)
      /\ t \notin Scalars => r.data = SubSeq(d, of + 1, of + PropSize(d, of, t))
  BY DEF ParseValue
<1>3. SubSeq(d, of + 1, of + Len(w)) = w
  <2> HIDE DEF w
  <2>1. Stands(w, d, of)
    BY DEF w
  <2> QED
    BY <1>1, <2>1, StandsCopy
<1>4. ASSUME t \in Scalars PROVE r.u32 = v
  <2>1. w = Le(Width(t), v)
    BY <1>4, ValueBytes
  <2> QED
    BY <1>2, <1>4, <2>1, ScalarReads
<1> HIDE DEF w, r
<1> QED
  BY <1>1, <1>2, <1>3, <1>4 DEF Taken, w, r

\* What stands in something that stands somewhere stands there too.
LEMMA StandsWithin ==
  ASSUME NEW d \in Seq(Int), NEW w \in Seq(Int), NEW b \in Seq(Int), NEW of \in Nat, NEW at \in Nat,
         Stands(b, w, at), Stands(w, d, of)
  PROVE  Stands(b, d, of + at)
<1>1. Len(w) \in Nat /\ Len(d) \in Nat /\ Len(b) \in Nat /\ at + Len(b) <= Len(w) /\ of + Len(w) <= Len(d)
  BY DEF Stands
<1>2. ASSUME NEW k \in 1..Len(b) PROVE d[(of + at) + k] = b[k]
  <2>1. at + k \in 1..Len(w) /\ of + (at + k) = (of + at) + k
    BY <1>1
  <2>2. w[at + k] = b[k]
    BY DEF Stands
  <2>3. d[of + (at + k)] = w[at + k]
    BY <2>1 DEF Stands
  <2> QED
    BY <2>1, <2>2, <2>3
<1>3. (of + at) + Len(b) <= Len(d)
  BY <1>1
<1> QED
  BY <1>2, <1>3 DEF Stands

\* Values of one type, one behind the other.
AllFit(t, vs) ==
  /\ Len(vs) \in Nat
  /\ vs = [i \in 1..Len(vs) |-> vs[i]]
  /\ \A i \in 1..Len(vs) : ValueFits(t, vs[i])
ValuePlaces(off, t, vs) ==
  /\ off \in [0..Len(vs) -> Nat]
  /\ off[0] = 0
  /\ off[Len(vs)] = Len(CameraValues(t, vs))
  /\ \A i \in 1..Len(vs) :
       /\ off[i] = off[i - 1] + Len(CameraValue(t, vs[i]))
       /\ Stands(CameraValue(t, vs[i]), CameraValues(t, vs), off[i - 1])

LEMMA ValuesStand ==
  ASSUME NEW t \in Types, NEW vs, AllFit(t, vs)
  PROVE  CameraValues(t, vs) \in Seq(Int) /\ \E off : ValuePlaces(off, t, vs)
<1> DEFINE n == Len(vs)
           parts == [i \in 1..n |-> CameraValue(t, vs[i])]
<1>1. n \in Nat
  BY DEF AllFit
<1>2. ASSUME NEW i \in 1..n PROVE parts[i] = CameraValue(t, vs[i]) /\ parts[i] \in Seq(Int)
  BY ValueBytes DEF AllFit
<1>3. parts = [i \in 1..n |-> parts[i]]
  OBVIOUS
<1>4. CameraValues(t, vs) = FlattenSeq(parts)
  BY DEF CameraValues
<1> HIDE DEF parts, n
<1>5. parts \in Seq(Seq(Int)) /\ Len(parts) = n
  BY <1>1, <1>2, <1>3, IsSeq
<1>6. PICK off : Places(off, parts)
  BY <1>5, PartsStand
<1>7. ValuePlaces(off, t, vs)
  BY <1>2, <1>4, <1>5, <1>6 DEF Places, ValuePlaces, n
<1>8. FlattenSeq(parts) \in Seq(Int)
  BY <1>5, PartsStand
<1> QED
  BY <1>4, <1>7, <1>8

\* The size of an enumeration is that of its values.
LEMMA EnumSizeIs ==
  ASSUME NEW t \in Types, NEW vs, AllFit(t, vs), NEW d \in Seq(Int), NEW of \in Nat,
         Stands(CameraValues(t, vs), d, of)
  PROVE  EnumSize(d, of, t, Len(vs)) = Len(CameraValues(t, vs))
<1> DEFINE n == Len(vs)
           w == CameraValues(t, vs)
           D(g) == g = [k \in 0..n |-> IF k = 0 THEN 0 ELSE g[k - 1] + PropSize(d, of + g[k - 1], t)]
           c == CHOOSE g : D(g)
<1>1. n \in Nat /\ w \in Seq(Int)
  BY ValuesStand DEF AllFit
<1>2. PICK off : ValuePlaces(off, t, vs)
  BY ValuesStand
<1>3. /\ off \in [0..n -> Nat] /\ off[0] = 0 /\ off[n] = Len(w)
      /\ \A i \in 1..n : /\ off[i] = off[i - 1] + Len(CameraValue(t, vs[i]))
                         /\ Stands(CameraValue(t, vs[i]), w, off[i - 1])
  BY <1>2 DEF ValuePlaces
<1> HIDE DEF w
<1>4. ASSUME NEW i \in 1..n PROVE off[i] = off[i - 1] + PropSize(d, of + off[i - 1], t)
  <2>1. i - 1 \in 0..n
    BY <1>1
  <2> HIDE DEF n
  <2>2. off[i - 1] \in Nat /\ of + off[i - 1] \in Nat
    BY <1>3, <2>1
  <2>3. ValueFits(t, vs[i])
    BY DEF AllFit, n
  <2>4. CameraValue(t, vs[i]) \in Seq(Int)
    BY <2>3, ValueBytes
  <2>5. Stands(CameraValue(t, vs[i]), w, off[i - 1])
    BY <1>3
  <2>6. Stands(w, d, of)
    BY DEF w
  <2>7. Stands(CameraValue(t, vs[i]), d, of + off[i - 1])
    BY <1>1, <2>2, <2>4, <2>5, <2>6, StandsWithin
  <2>8. PropSize(d, of + off[i - 1], t) = Len(CameraValue(t, vs[i]))
    BY <2>2, <2>3, <2>7, SizeTaken
  <2> QED
    BY <1>3, <2>8
<1>5. D(off)
  <2>1. ASSUME NEW k \in 0..n PROVE off[k] = IF k = 0 THEN 0 ELSE off[k - 1] + PropSize(d, of + off[k - 1], t)
    <3>1. k # 0 => k \in 1..n
      BY <1>1
    <3> QED
      BY <1>3, <1>4, <3>1
  <2> QED
    BY <1>3, <2>1
<1>6. D(c)
  BY <1>5
<1> HIDE DEF c
<1> DEFINE R == {k \in 0..n : c[k] = off[k]}
<1>7. 0 \in R
  <2>1. 0 \in 0..n
    BY <1>1
  <2> QED
    BY <1>3, <1>6, <2>1
<1>8. ASSUME NEW k \in 0..n - 1, k \in R PROVE k + 1 \in R
  <2>1. k + 1 \in 0..n /\ k + 1 \in 1..n /\ (k + 1) - 1 = k /\ k + 1 # 0
    BY <1>1
  <2>2. c[k + 1] = c[k] + PropSize(d, of + c[k], t)
    BY <1>6, <2>1
  <2>3. off[k + 1] = off[k] + PropSize(d, of + off[k], t)
    BY <1>4, <2>1
  <2> QED
    BY <1>8, <2>1, <2>2, <2>3
<1> HIDE DEF R
<1>9. \A k \in 0..n : k \in R
  BY <1>1, <1>7, <1>8, UpTo
<1>10. c[n] = off[n]
  BY <1>1, <1>9 DEF R
<1>11. EnumSize(d, of, t, n) = c[n]
  BY DEF EnumSize, c
<1> QED
  BY <1>3, <1>10, <1>11 DEF w

\* The values of an enumeration are read one by one.
LEMMA EnumValuesAre ==
  ASSUME NEW t \in Scalars, NEW vs, AllFit(t, vs), NEW pd,
         pd.type = t, pd.length = Len(vs), pd.data = CameraValues(t, vs)
  PROVE  EnumValues(pd) = vs
<1> DEFINE n == Len(vs)
           w == CameraValues(t, vs)
           D(g) == g = [k \in 0..n |-> IF k = 0 THEN 0 ELSE ParseValue(w, g[k - 1], t).of]
           c == CHOOSE g : D(g)
<1>0. t \in Types
  BY Widths
<1>1. n \in Nat /\ w \in Seq(Int)
  BY <1>0, ValuesStand DEF AllFit
<1>2. PICK off : ValuePlaces(off, t, vs)
  BY <1>0, ValuesStand
<1>3. /\ off \in [0..n -> Nat] /\ off[0] = 0 /\ off[n] = Len(w)
      /\ \A i \in 1..n : /\ off[i] = off[i - 1] + Len(CameraValue(t, vs[i]))
                         /\ Stands(CameraValue(t, vs[i]), w, off[i - 1])
  BY <1>2 DEF ValuePlaces
<1> HIDE DEF w
<1>4. ASSUME NEW i \in 1..n
      PROVE  off[i] = ParseValue(w, off[i - 1], t).of /\ ParseValue(w, off[i - 1], t).u32 = vs[i]
  <2>1. i - 1 \in 0..n
    BY <1>1
  <2> HIDE DEF n
  <2>2. off[i - 1] \in Nat
    BY <1>3, <2>1
  <2>3. ValueFits(t, vs[i])
    BY DEF AllFit, n
  <2>4. Stands(CameraValue(t, vs[i]), w, off[i - 1])
    BY <1>3
  <2>5. Taken(t, vs[i], w, off[i - 1])
    BY <1>0, <1>1, <2>2, <2>3, <2>4, ValueReads
  <2>6. /\ ParseValue(w, off[i - 1], t).of = off[i - 1] + Len(CameraValue(t, vs[i]))
        /\ ParseValue(w, off[i - 1], t).u32 = vs[i]
    BY <2>5 DEF Taken
  <2> QED
    BY <1>3, <2>6
<1>5. D(off)
  <2>1. ASSUME NEW k \in 0..n PROVE off[k] = IF k = 0 THEN 0 ELSE ParseValue(w, off[k - 1], t).of
    <3>1. k # 0 => k \in 1..n
      BY <1>1
    <3> QED
      BY <1>3, <1>4, <3>1
  <2> QED
    BY <1>3, <2>1
<1>6. D(c)
  BY <1>5
<1> HIDE DEF c
<1> DEFINE R == {k \in 0..n : c[k] = off[k]}
<1>7. 0 \in R
  <2>1. 0 \in 0..n
    BY <1>1
  <2> QED
    BY <1>3, <1>6, <2>1
<1>8. ASSUME NEW k \in 0..n - 1, k \in R PROVE k + 1 \in R
  <2>1. k + 1 \in 0..n /\ k + 1 \in 1..n /\ (k + 1) - 1 = k /\ k + 1 # 0
    BY <1>1
  <2>2. c[k + 1] = ParseValue(w, c[k], t).of
    BY <1>6, <2>1
  <2>3. off[k + 1] = ParseValue(w, off[k], t).of
    BY <1>4, <2>1
  <2> QED
    BY <1>8, <2>1, <2>2, <2>3
<1> HIDE DEF R
<1>9. \A k \in 0..n : k \in R
  BY <1>1, <1>7, <1>8, UpTo
<1>10. ASSUME NEW i \in 1..n PROVE ParseValue(w, c[i - 1], t).u32 = vs[i]
  <2>1. i - 1 \in 0..n
    BY <1>1
  <2>2. c[i - 1] = off[i - 1]
    BY <1>9, <2>1 DEF R
  <2> QED
    BY <1>4, <2>2
<1>11. EnumValues(pd) = [i \in 1..n |-> ParseValue(w, c[i - 1], t).u32]
  BY DEF EnumValues, c, w
<1>12. vs = [i \in 1..n |-> vs[i]]
  BY DEF AllFit
<1> HIDE DEF n
<1> QED
  BY <1>10, <1>11, <1>12

\* The values of a list of items.
Shown(items) == [i \in 1..Len(items) |-> items[i].value]

LEMMA LengthOf ==
  ASSUME NEW n \in Nat, NEW c, c = [i \in 1..n |-> c[i]]
  PROVE  Len(c) = n
<1> DEFINE T == {c[i] : i \in 1..n}
<1>1. \A i \in 1..n : c[i] \in T
  OBVIOUS
<1> HIDE DEF T
<1> QED
  BY <1>1, IsSeq

LEMMA ItemParts == \A v, e : Item(v, e).value = v /\ Item(v, e).end = e
BY DEF Item

\* A list has a comma behind every value but the last.
LEMMA ListedIs ==
  ASSUME NEW vs, Len(vs) \in Nat, vs = [i \in 1..Len(vs) |-> vs[i]]
  PROVE  Shown(Listed(vs)) = vs /\ SeparatedItems(Listed(vs))
<1> DEFINE n == Len(vs)
           l == Listed(vs)
<1>1. n \in Nat /\ vs = [i \in 1..n |-> vs[i]]
  OBVIOUS
<1>2. l = [i \in 1..n |-> Item(vs[i], IF i - 1 >= n - 1 THEN "" ELSE ",")]
  BY DEF Listed
<1> HIDE DEF l, n
<1>3. Len(l) = n
  <2>1. l = [i \in 1..n |-> l[i]]
    BY <1>2
  <2> QED
    BY <1>1, <2>1, LengthOf
<1>4. ASSUME NEW i \in 1..n PROVE l[i].value = vs[i] /\ l[i].end = IF i = n THEN "" ELSE ","
  <2>1. i - 1 >= n - 1 <=> i = n
    BY <1>1
  <2>2. l[i] = Item(vs[i], IF i = n THEN "" ELSE ",")
    BY <1>2, <2>1
  <2> QED
    BY <2>2, ItemParts
<1>5. Shown(l) = [i \in 1..n |-> vs[i]]
  BY <1>3, <1>4 DEF Shown
<1>6. SeparatedItems(l)
  BY <1>3, <1>4 DEF SeparatedItems
<1> QED
  BY <1>1, <1>5, <1>6 DEF l

\* How many values a range has.
LEMMA Quotient ==
  ASSUME NEW a \in Nat, NEW s \in Nat, s > 0
  PROVE  a = s * (a \div s) + (a % s) /\ a % s \in 0..s - 1 /\ a \div s \in Nat
OBVIOUS

LEMMA Multiple ==
  ASSUME NEW s \in Nat, s > 0, NEW q \in Nat
  PROVE  (q * s) % s = 0 /\ q * s \in Nat
OBVIOUS

LEMMA Grows ==
  ASSUME NEW s \in Nat, s > 0, NEW q \in Nat, NEW p \in Nat, p > q
  PROVE  p * s >= q * s + s /\ p * s \in Nat /\ q * s \in Nat
OBVIOUS

\* A range lists every step from its minimum to below its maximum, in order.
LEMMA RangeIs ==
  ASSUME NEW min \in Int, NEW max \in Int, NEW step \in Int, step > 0
  PROVE  LET r == RangeItems(min, max, step)
         IN  /\ Range(Shown(r)) = {v \in min..max - 1 : (v - min) % step = 0}
             /\ \A i \in 1..Len(Shown(r)) - 1 : Shown(r)[i] < Shown(r)[i + 1]
             /\ SeparatedItems(r)
<1> DEFINE r == RangeItems(min, max, step)
           n == IF min >= max THEN 0 ELSE (max - min + step - 1) \div step
           at(k) == min + (k - 1) * step
<1>1. r = [k \in 1..n |-> Item(at(k), IF at(k) >= max - step THEN "" ELSE ",")]
  <2>1. ~(min < max /\ step <= 0)
    OBVIOUS
  <2> QED
    BY <2>1, Zenon DEF RangeItems
<1>2. n \in Nat /\ step \in Nat
  <2>1. CASE min >= max
    BY <2>1
  <2>2. CASE ~(min >= max)
    <3>1. max - min + step - 1 \in Nat /\ step \in Nat
      BY <2>2
    <3> QED
      BY <2>2, <3>1, Quotient
  <2> QED
    BY <2>1, <2>2
<1>3. n > 0 => min < max /\ n * step >= max - min /\ (n - 1) * step < max - min
  <2> SUFFICES ASSUME n > 0 PROVE n * step >= max - min /\ (n - 1) * step < max - min /\ min < max
    OBVIOUS
  <2> DEFINE a == max - min + step - 1
  <2>1. min < max /\ a \in Nat /\ n = a \div step
    OBVIOUS
  <2>2. a = step * n + (a % step) /\ a % step \in 0..step - 1
    <3> HIDE DEF a, n
    <3> QED
      BY <1>2, <2>1, Quotient
  <2>3. n * step = step * n /\ (n - 1) * step = step * n - step /\ step * n \in Nat
    <3> HIDE DEF n
    <3> QED
      BY <1>2
  <2> DEFINE m == a % step
             p == step * n
  <2>4. a = p + m /\ m \in 0..step - 1 /\ n * step = p /\ (n - 1) * step = p - step /\ p \in Nat
    BY <2>2, <2>3
  <2> HIDE DEF m, p, n
  <2> QED
    BY <2>1, <2>4
<1> HIDE DEF n
<1>4. ASSUME NEW k \in 1..n PROVE (k - 1) * step \in Nat /\ at(k) \in Int /\ at(k) < max /\ (at(k) >= max - step <=> k = n)
  <2>1. k - 1 \in Nat /\ k \in Nat /\ n - 1 \in Nat /\ n > 0
    BY <1>2
  <2>2. (k - 1) * step \in Nat /\ (n - 1) * step \in Nat
    BY <1>2, <2>1
  <2>3. n * step = (n - 1) * step + step
    BY <1>2
  <2>4. CASE k = n
    BY <1>2, <1>3, <2>1, <2>2, <2>3, <2>4
  <2>5. CASE k # n
    <3>1. n - 1 > k - 1
      <4>1. k <= n /\ k \in Int /\ n \in Int
        BY <1>2
      <4> HIDE DEF at
      <4> QED
        BY <2>5, <4>1
    <3>2. (n - 1) * step >= (k - 1) * step + step
      BY <1>2, <2>1, <3>1, Grows
    <3> QED
      BY <1>2, <1>3, <2>1, <2>2, <2>5, <3>2
  <2> QED
    BY <2>4, <2>5
<1> HIDE DEF r
<1>5. Len(r) = n
  <2>1. r = [i \in 1..n |-> r[i]]
    BY <1>1
  <2> QED
    BY <1>2, <2>1, LengthOf
<1>6. ASSUME NEW k \in 1..n PROVE r[k].value = at(k) /\ r[k].end = IF k = n THEN "" ELSE ","
  <2>1. r[k] = Item(at(k), IF at(k) >= max - step THEN "" ELSE ",")
    BY <1>1
  <2>2. r[k] = Item(at(k), IF k = n THEN "" ELSE ",")
    BY <1>4, <2>1
  <2> HIDE DEF at
  <2> QED
    BY <2>2, ItemParts
<1>7. SeparatedItems(r)
  BY <1>5, <1>6 DEF SeparatedItems
<1>8. Shown(r) = [k \in 1..n |-> at(k)]
  <2> HIDE DEF at
  <2> QED
    BY <1>5, <1>6 DEF Shown
<1>9. Len(Shown(r)) = n /\ \A k \in 1..n : Shown(r)[k] = at(k)
  BY <1>2, <1>8
<1>10. ASSUME NEW i \in 1..n - 1 PROVE at(i) < at(i + 1)
  <2>1. i - 1 \in Nat /\ (i + 1) - 1 \in Nat /\ (i + 1) - 1 > i - 1
    BY <1>2
  <2>2. ((i + 1) - 1) * step >= (i - 1) * step + step /\ ((i + 1) - 1) * step \in Nat /\ (i - 1) * step \in Nat
    BY <1>2, <2>1, Grows
  <2> QED
    BY <1>2, <2>2
<1>11. \A i \in 1..Len(Shown(r)) - 1 : Shown(r)[i] < Shown(r)[i + 1]
  <2> SUFFICES ASSUME NEW i \in 1..n - 1 PROVE Shown(r)[i] < Shown(r)[i + 1]
    BY <1>9
  <2>1. i \in 1..n /\ i + 1 \in 1..n
    BY <1>2
  <2>2. Shown(r)[i] = at(i) /\ Shown(r)[i + 1] = at(i + 1)
    BY <1>9, <2>1
  <2> QED
    BY <1>10, <2>2
<1> DEFINE S == {v \in min..max - 1 : (v - min) % step = 0}
<1>12. ASSUME NEW k \in 1..n PROVE at(k) \in S
  <2>1. k - 1 \in Nat
    BY <1>2
  <2>2. ((k - 1) * step) % step = 0 /\ (k - 1) * step \in Nat
    BY <1>2, <2>1, Multiple
  <2>3. at(k) - min = (k - 1) * step
    BY <2>2
  <2>4. at(k) \in min..max - 1
    BY <1>4, <2>2
  <2>5. (at(k) - min) % step = 0
    BY <2>2, <2>3
  <2> HIDE DEF at
  <2> QED
    BY <2>4, <2>5
<1>13. ASSUME NEW v \in S PROVE \E k \in 1..n : at(k) = v
  <2> DEFINE a == v - min
             q == a \div step
  <2>1. a \in Nat /\ a < max - min /\ a % step = 0 /\ v = min + a
    OBVIOUS
  <2>2. a = step * q + (a % step) /\ q \in Nat
    <3> HIDE DEF a
    <3> QED
      BY <1>2, <2>1, Quotient
  <2> HIDE DEF a, q
  <2>3. q * step = a
    BY <1>2, <2>1, <2>2
  <2>4. min < max
    BY <2>1
  <2>5. n # 0
    <3> DEFINE b == max - min + step - 1
    <3>1. b \in Nat /\ b >= step
      BY <1>2, <2>4
    <3>2. n = b \div step
      BY <2>4 DEF n
    <3> HIDE DEF b
    <3>3. b = step * n + (b % step) /\ b % step \in 0..step - 1
      BY <1>2, <3>1, <3>2, Quotient
    <3> SUFFICES ASSUME n = 0 PROVE FALSE
      OBVIOUS
    <3>4. step * n = 0
      BY <1>2
    <3> QED
      BY <1>2, <3>1, <3>3, <3>4
  <2>6. q < n
    <3> SUFFICES ASSUME ~(q < n) PROVE FALSE
      OBVIOUS
    <3>1. q * step >= n * step
      <4>1. CASE q = n
        BY <1>2, <4>1
      <4>2. CASE q # n
        <5>1. q > n
          BY <1>2, <2>2, <4>2
        <5>2. q * step >= n * step + step /\ n * step \in Nat /\ q * step \in Nat
          BY <1>2, <2>2, <5>1, Grows
        <5> QED
          BY <1>2, <5>2
      <4> QED
        BY <4>1, <4>2
    <3>2. n * step >= max - min
      BY <1>2, <1>3, <2>5
    <3>3. n * step \in Int
      BY <1>2
    <3> QED
      BY <2>1, <2>3, <3>1, <3>2, <3>3
  <2>7. q + 1 \in 1..n
    BY <1>2, <2>2, <2>6
  <2>8. at(q + 1) = v
    <3>1. (q + 1) - 1 = q
      BY <2>2
    <3> QED
      BY <2>1, <2>3, <3>1
  <2> HIDE DEF at
  <2> QED
    BY <2>7, <2>8
<1>14. Range(Shown(r)) = S
  <2>1. Range(Shown(r)) = {Shown(r)[k] : k \in 1..n}
    BY <1>8 DEF Range
  <2> HIDE DEF S, at
  <2>2. \A v \in Range(Shown(r)) : v \in S
    BY <1>9, <1>12, <2>1
  <2>3. \A v \in S : v \in Range(Shown(r))
    BY <1>9, <1>13, <2>1
  <2> QED
    BY <2>2, <2>3
<1> QED
  BY <1>7, <1>11, <1>14 DEF r

\* Two parts more of a sequence that begins another one.
LEMMA OnePart ==
  ASSUME NEW d \in Seq(Int), NEW a \in Seq(Int), NEW b \in Seq(Int), Stands(a \o b, d, 0)
  PROVE  Stands(a, d, 0) /\ Stands(b, d, Len(a))
BY StandsBegin

\* One byte.
LEMMA ByteStands ==
  ASSUME NEW b \in Int, NEW d \in Seq(Int), NEW of \in Nat, Stands(<<b>>, d, of)
  PROVE  At(d, of) = b
<1> DEFINE w == <<b>>
<1>1. w \in Seq(Int) /\ 1 \in 1..Len(w) /\ w[1] = b /\ Stands(w, d, of)
  OBVIOUS
<1> HIDE DEF w
<1>2. At(d, of + (1 - 1)) = w[1]
  BY <1>1, StandsAt
<1>3. of + (1 - 1) = of
  OBVIOUS
<1> QED
  BY <1>1, <1>2, <1>3

\* The parts of a description, and what is read from them.
HeadRead(j, code, d) ==
  /\ Unsigned(d, 0, 2) = j.code /\ Unsigned(d, 2, 2) = code /\ At(d, 4) = j.read_only
ValuesRead(j, d, at, of) ==
  /\ at \in Nat /\ of \in Nat
  /\ at = 5 + Len(CameraValue(j.type, j.default))
  /\ of = at + Len(CameraValue(j.type, j.current)) + 1
  /\ Taken(j.type, j.default, d, 5) /\ Taken(j.type, j.current, d, at)
  /\ At(d, of - 1) = j.form
FormRead(j, d, of) ==
  /\ j.form = EnumerationForm =>
       Unsigned(d, of, 2) = Len(j.values) /\ Stands(CameraValues(j.type, j.values), d, of + 2)
  /\ j.form # EnumerationForm => Stands(CameraValues(j.type, j.values), d, of)

LEMMA DescParts ==
  ASSUME DescJob(job), job.kind = "desc"
  PROVE  /\ CameraDesc \in Seq(Int)
         /\ \E code \in DOMAIN job.types, at \in Nat, of \in Nat :
              /\ job.types[code] = job.type
              /\ HeadRead(job, code, CameraDesc)
              /\ ValuesRead(job, CameraDesc, at, of)
              /\ FormRead(job, CameraDesc, of)
<1> DEFINE code == CHOOSE c \in DOMAIN job.types : job.types[c] = job.type
           n == Len(job.values)
           a1 == Le(2, job.code)
           a2 == Le(2, code)
           a3 == <<job.read_only>>
           a4 == CameraValue(job.type, job.default)
           a5 == CameraValue(job.type, job.current)
           a6 == <<job.form>>
           a7 == IF job.form = EnumerationForm THEN Le(2, n) ELSE <<>>
           a8 == CameraValues(job.type, job.values)
           d == CameraDesc
<1>1. /\ job.type \in Types /\ ValueFits(job.type, job.current) /\ ValueFits(job.type, job.default)
      /\ Fits(2, job.code) /\ Fits(1, job.read_only) /\ Fits(1, job.form) /\ Fits(2, n)
      /\ AllFit(job.type, job.values)
  BY DEF DescJob, AllFit, Fits
<1>2. code \in DOMAIN job.types /\ job.types[code] = job.type /\ Fits(2, code)
  BY DEF DescJob
<1> HIDE DEF code, n
<1>3. job.code \in Int /\ job.read_only \in Int /\ job.form \in Int /\ code \in Int /\ n \in Int
  <2>1. \A k, v : Fits(k, v) => v \in Int
    BY SMT DEF Fits
  <2> QED
    BY <1>1, <1>2, <2>1
<1>4. 2 \in 1..8 /\ 2 \in {1, 2, 3, 4, 8}
  OBVIOUS
<1>5. a1 \in Seq(Int) /\ Len(a1) = 2 /\ a2 \in Seq(Int) /\ Len(a2) = 2
  BY <1>3, <1>4, LeBytes
<1>6. a3 \in Seq(Int) /\ Len(a3) = 1 /\ a6 \in Seq(Int) /\ Len(a6) = 1
  BY <1>3
<1>7. a4 \in Seq(Int) /\ a5 \in Seq(Int)
  BY <1>1, ValueBytes
<1>8. a8 \in Seq(Int)
  BY <1>1, ValuesStand
<1>9. /\ a7 \in Seq(Int)
      /\ job.form = EnumerationForm => a7 = Le(2, n) /\ Len(a7) = 2
      /\ job.form # EnumerationForm => Len(a7) = 0
  <2>1. Le(2, n) \in Seq(Int) /\ Len(Le(2, n)) = 2
    BY <1>3, <1>4, LeBytes
  <2>2. <<>> \in Seq(Int) /\ Len(<<>>) = 0
    OBVIOUS
  <2> QED
    BY <2>1, <2>2
<1>10. d = a1 \o a2 \o a3 \o a4 \o a5 \o a6 \o a7 \o a8
  BY DEF CameraDesc, code, n
<1> HIDE DEF a1, a2, a3, a4, a5, a6, a7, a8, d
<1>11. /\ d \in Seq(Int)
       /\ Stands(a1, d, 0) /\ Stands(a2, d, Len(a1)) /\ Stands(a3, d, Len(a1) + Len(a2))
       /\ Stands(a4, d, Len(a1) + Len(a2) + Len(a3))
       /\ Stands(a5, d, Len(a1) + Len(a2) + Len(a3) + Len(a4))
       /\ Stands(a6, d, Len(a1) + Len(a2) + Len(a3) + Len(a4) + Len(a5))
       /\ Stands(a7, d, Len(a1) + Len(a2) + Len(a3) + Len(a4) + Len(a5) + Len(a6))
       /\ Stands(a8, d, Len(a1) + Len(a2) + Len(a3) + Len(a4) + Len(a5) + Len(a6) + Len(a7))
  <2> DEFINE e2 == a1 \o a2
             e3 == e2 \o a3
             e4 == e3 \o a4
             e5 == e4 \o a5
             e6 == e5 \o a6
             e7 == e6 \o a7
             e8 == e7 \o a8
  <2>0. d = e8
    BY <1>10
  <2>1. /\ a1 \in Seq(Int) /\ a2 \in Seq(Int) /\ a3 \in Seq(Int) /\ a4 \in Seq(Int)
        /\ a5 \in Seq(Int) /\ a6 \in Seq(Int) /\ a7 \in Seq(Int) /\ a8 \in Seq(Int)
    BY <1>5, <1>6, <1>7, <1>8, <1>9
  <2>2. e2 \in Seq(Int) /\ Len(e2) = Len(a1) + Len(a2)
    BY <2>1, Concat
  <2> HIDE DEF e8, e7, e6, e5, e4, e3, e2
  <2>3. e3 \in Seq(Int) /\ Len(e3) = Len(e2) + Len(a3)
    BY <2>1, <2>2, Concat DEF e3
  <2>4. e4 \in Seq(Int) /\ Len(e4) = Len(e3) + Len(a4)
    BY <2>1, <2>3, Concat DEF e4
  <2>5. e5 \in Seq(Int) /\ Len(e5) = Len(e4) + Len(a5)
    BY <2>1, <2>4, Concat DEF e5
  <2>6. e6 \in Seq(Int) /\ Len(e6) = Len(e5) + Len(a6)
    BY <2>1, <2>5, Concat DEF e6
  <2>7. e7 \in Seq(Int) /\ Len(e7) = Len(e6) + Len(a7)
    BY <2>1, <2>6, Concat DEF e7
  <2>8. e8 \in Seq(Int)
    BY <2>1, <2>7, Concat DEF e8
  <2>9. d \in Seq(Int) /\ Stands(e8, d, 0)
    BY <2>0, <2>8, StandsWhole
  <2>10. Stands(e7, d, 0) /\ Stands(a8, d, Len(e7))
    BY <2>1, <2>7, <2>9, OnePart DEF e8
  <2>11. Stands(e6, d, 0) /\ Stands(a7, d, Len(e6))
    BY <2>1, <2>6, <2>9, <2>10, OnePart DEF e7
  <2>12. Stands(e5, d, 0) /\ Stands(a6, d, Len(e5))
    BY <2>1, <2>5, <2>9, <2>11, OnePart DEF e6
  <2>13. Stands(e4, d, 0) /\ Stands(a5, d, Len(e4))
    BY <2>1, <2>4, <2>9, <2>12, OnePart DEF e5
  <2>14. Stands(e3, d, 0) /\ Stands(a4, d, Len(e3))
    BY <2>1, <2>3, <2>9, <2>13, OnePart DEF e4
  <2>15. Stands(e2, d, 0) /\ Stands(a3, d, Len(e2))
    BY <2>1, <2>2, <2>9, <2>14, OnePart DEF e3
  <2>16. Stands(a1, d, 0) /\ Stands(a2, d, Len(a1))
    BY <2>1, <2>9, <2>15, OnePart DEF e2
  <2> QED
    BY <2>1, <2>2, <2>3, <2>4, <2>5, <2>6, <2>7, <2>9, <2>10, <2>11, <2>12, <2>13, <2>14, <2>15, <2>16
<1> DEFINE at == 5 + Len(a4)
           of == at + Len(a5) + 1
<1>12. Len(a4) \in Nat /\ Len(a5) \in Nat /\ at \in Nat /\ of \in Nat /\ of - 1 = at + Len(a5) /\ of - 1 \in Nat
  BY <1>7
<1>13. /\ Stands(a1, d, 0) /\ Stands(a2, d, 2) /\ Stands(a3, d, 4) /\ Stands(a4, d, 5)
       /\ Stands(a5, d, at) /\ Stands(a6, d, of - 1) /\ Stands(a7, d, of)
       /\ job.form = EnumerationForm => Stands(a8, d, of + 2)
       /\ job.form # EnumerationForm => Stands(a8, d, of)
  <2>1. /\ Len(a1) + Len(a2) = 4 /\ Len(a1) + Len(a2) + Len(a3) = 5
        /\ Len(a1) + Len(a2) + Len(a3) + Len(a4) = at
        /\ Len(a1) + Len(a2) + Len(a3) + Len(a4) + Len(a5) = of - 1
        /\ Len(a1) + Len(a2) + Len(a3) + Len(a4) + Len(a5) + Len(a6) = of
    BY <1>5, <1>6, <1>12
  <2>2. job.form = EnumerationForm => of + Len(a7) = of + 2
    BY <1>9
  <2>3. job.form # EnumerationForm => of + Len(a7) = of
    BY <1>9, <1>12
  <2> HIDE DEF at, of
  <2> QED
    BY <1>5, <1>11, <2>1, <2>2, <2>3
<1> HIDE DEF at, of
<1>14. HeadRead(job, code, d)
  <2>1. Unsigned(d, 0, 2) = job.code
    <3>1. Stands(Le(2, job.code), d, 0) /\ 0 \in Nat
      BY <1>13 DEF a1
    <3> QED
      BY <1>1, <1>4, <1>11, <3>1, ReadsNumber
  <2>2. Unsigned(d, 2, 2) = code
    <3>1. Stands(Le(2, code), d, 2) /\ 2 \in Nat
      BY <1>13 DEF a2
    <3> QED
      BY <1>2, <1>4, <1>11, <3>1, ReadsNumber
  <2>3. At(d, 4) = job.read_only
    <3>1. Stands(<<job.read_only>>, d, 4) /\ 4 \in Nat
      BY <1>13 DEF a3
    <3> QED
      BY <1>3, <1>11, <3>1, ByteStands
  <2> QED
    BY <2>1, <2>2, <2>3 DEF HeadRead
<1>15. ValuesRead(job, d, at, of)
  <2>1. Taken(job.type, job.default, d, 5)
    <3>1. Stands(CameraValue(job.type, job.default), d, 5) /\ 5 \in Nat
      BY <1>13 DEF a4
    <3> QED
      BY <1>1, <1>11, <3>1, ValueReads
  <2>2. Taken(job.type, job.current, d, at)
    <3>1. Stands(CameraValue(job.type, job.current), d, at)
      BY <1>13 DEF a5
    <3> QED
      BY <1>1, <1>11, <1>12, <3>1, ValueReads
  <2>3. At(d, of - 1) = job.form
    <3>1. Stands(<<job.form>>, d, of - 1)
      BY <1>13 DEF a6
    <3> QED
      BY <1>3, <1>11, <1>12, <3>1, ByteStands
  <2> QED
    BY <1>12, <2>1, <2>2, <2>3 DEF ValuesRead, at, of, a4, a5
<1>16. FormRead(job, d, of)
  <2>1. ASSUME job.form = EnumerationForm PROVE Unsigned(d, of, 2) = n
    <3>1. Stands(Le(2, n), d, of)
      BY <1>9, <1>13, <2>1
    <3> QED
      BY <1>1, <1>4, <1>11, <1>12, <3>1, ReadsNumber
  <2> QED
    BY <1>13, <2>1 DEF FormRead, a8, n
<1> QED
  BY <1>2, <1>11, <1>12, <1>14, <1>15, <1>16 DEF d

\* A value that is taken is read.
LEMMA TakenReads ==
  ASSUME NEW v, NEW d, NEW of, Taken(job.type, v, d, of)
  PROVE  Reading(ParseValue(d, of, job.type), v)
BY DEF Taken, Reading

\* What a description says apart from its form.
Says(pd) ==
  /\ pd.code = job.code /\ pd.type = job.type /\ pd.read_only = job.read_only /\ pd.form = job.form
  /\ Reading(pd.default, job.default) /\ Reading(pd.current, job.current)
  /\ pd.panic <=> job.form \notin {RangeForm, EnumerationForm}

\* A description is read as the camera has it.
LEMMA DescReads ==
  ASSUME DescJob(job), job.kind = "desc", NEW pd, pd = ParsePropDesc(CameraDesc, job.types)
  PROVE  /\ Says(pd)
         /\ job.form = EnumerationForm =>
              pd.length = Len(job.values) /\ pd.data = CameraValues(job.type, job.values)
         /\ job.form = RangeForm /\ job.type \in Scalars => pd.range = job.values
<1> DEFINE d == CameraDesc
           t == job.type
           n == Len(job.values)
           w == CameraValues(t, job.values)
<1>1. PICK code \in DOMAIN job.types, at \in Nat, of \in Nat :
        job.types[code] = t /\ HeadRead(job, code, d) /\ ValuesRead(job, d, at, of) /\ FormRead(job, d, of)
  BY DescParts
<1>2. d \in Seq(Int)
  BY DescParts
<1>3. t \in Types /\ AllFit(t, job.values) /\ n \in Nat
  BY DEF DescJob, AllFit, Fits
<1>4. w \in Seq(Int)
  BY <1>3, ValuesStand
<1> HIDE DEF d, w
<1>5. Unsigned(d, 0, 2) = job.code /\ job.types[Unsigned(d, 2, 2)] = t /\ At(d, 4) = job.read_only
  BY <1>1 DEF HeadRead
<1>6. /\ ParseValue(d, 5, t).of = at
      /\ ParseValue(d, at, t).of + 1 = of
      /\ ParseValue(d, at, t).of = of - 1
      /\ At(d, of - 1) = job.form
      /\ Taken(t, job.default, d, 5) /\ Taken(t, job.current, d, at)
  <2>1. /\ at = 5 + Len(CameraValue(t, job.default)) /\ of = at + Len(CameraValue(t, job.current)) + 1
        /\ Taken(t, job.default, d, 5) /\ Taken(t, job.current, d, at) /\ At(d, of - 1) = job.form
    BY <1>1 DEF ValuesRead
  <2>2. ParseValue(d, 5, t).of = at /\ ParseValue(d, at, t).of = at + Len(CameraValue(t, job.current))
    BY <2>1 DEF Taken
  <2>3. Len(CameraValue(t, job.current)) \in Nat
    BY <1>3, ValueBytes DEF DescJob
  <2>4. at + Len(CameraValue(t, job.current)) = of - 1
    BY <2>1, <2>3
  <2> QED
    BY <2>1, <2>2, <2>4
<1> DEFINE max == of + PropSize(d, of, t)
           step == max + PropSize(d, max, t)
<1>7. pd = [code |-> Unsigned(d, 0, 2), type |-> t, read_only |-> At(d, 4),
            default |-> ParseValue(d, 5, t), current |-> ParseValue(d, at, t), form |-> job.form,
            panic |-> job.form \notin {RangeForm, EnumerationForm},
            range |-> IF job.form = RangeForm
                        THEN <<ParseU32(d, of, t), ParseU32(d, max, t), ParseU32(d, step, t)>> ELSE <<>>,
            length |-> IF job.form = EnumerationForm THEN Unsigned(d, of, 2) ELSE 0,
            data |-> IF job.form = EnumerationForm
                       THEN SubSeq(d, of + 3, of + 2 + EnumSize(d, of + 2, t, Unsigned(d, of, 2))) ELSE <<>>]
  <2> DEFINE type == job.types[Unsigned(d, 2, 2)]
             default == ParseValue(d, 5, type)
             current == ParseValue(d, default.of, type)
             form == At(d, current.of)
             from == current.of + 1
             top == from + PropSize(d, from, type)
             by == top + PropSize(d, top, type)
             count == Unsigned(d, from, 2)
  <2>1. ParsePropDesc(d, job.types) =
          [code |-> Unsigned(d, 0, 2), type |-> type, read_only |-> At(d, 4),
           default |-> default, current |-> current, form |-> form,
           panic |-> form \notin {RangeForm, EnumerationForm},
           range |-> IF form = RangeForm
                       THEN <<ParseU32(d, from, type), ParseU32(d, top, type), ParseU32(d, by, type)>> ELSE <<>>,
           length |-> IF form = EnumerationForm THEN count ELSE 0,
           data |-> IF form = EnumerationForm
                      THEN SubSeq(d, from + 3, from + 2 + EnumSize(d, from + 2, type, count)) ELSE <<>>]
    BY DEF ParsePropDesc
  <2>2. type = t /\ default = ParseValue(d, 5, t)
    BY <1>5
  <2>3. current = ParseValue(d, at, t) /\ from = of /\ form = job.form
    BY <1>6, <2>2
  <2>4. top = max /\ by = step /\ count = Unsigned(d, of, 2)
    BY <2>2, <2>3
  <2>5. pd = ParsePropDesc(d, job.types)
    BY DEF d
  <2> HIDE DEF t, type, default, current, form, from, top, by, count, max, step
  <2> QED
    BY <2>1, <2>2, <2>3, <2>4, <2>5
<1> HIDE DEF max, step
<1>8. Says(pd)
  <2>1. Reading(ParseValue(d, 5, t), job.default) /\ Reading(ParseValue(d, at, t), job.current)
    BY <1>6, TakenReads
  <2>2. /\ pd.code = job.code /\ pd.type = t /\ pd.read_only = job.read_only /\ pd.form = job.form
        /\ pd.default = ParseValue(d, 5, t) /\ pd.current = ParseValue(d, at, t)
    BY <1>5, <1>7
  <2>3. pd.panic = (job.form \notin {RangeForm, EnumerationForm})
    BY <1>7
  <2> QED
    BY <2>1, <2>2, <2>3 DEF Says
<1>9. ASSUME job.form = EnumerationForm PROVE pd.length = n /\ pd.data = w
  <2>1. Unsigned(d, of, 2) = n /\ Stands(w, d, of + 2)
    BY <1>1, <1>9 DEF FormRead, w
  <2>2. EnumSize(d, of + 2, t, n) = Len(w)
    <3>1. of + 2 \in Nat
      OBVIOUS
    <3> QED
      BY <1>2, <1>3, <2>1, <3>1, EnumSizeIs DEF w
  <2>3. SubSeq(d, of + 2 + 1, of + 2 + Len(w)) = w
    <3>1. of + 2 \in Nat
      OBVIOUS
    <3> QED
      BY <1>2, <1>4, <2>1, <3>1, StandsCopy
  <2>4. of + 2 + 1 = of + 3
    OBVIOUS
  <2> HIDE DEF n, t
  <2>5. pd.length = n /\ pd.data = SubSeq(d, of + 3, of + 2 + Len(w))
    BY <1>7, <1>9, <2>1, <2>2
  <2> QED
    BY <2>3, <2>4, <2>5
<1>10. ASSUME job.form = RangeForm, t \in Scalars PROVE pd.range = job.values
  <2>1. n = 3 /\ job.values = [i \in 1..3 |-> job.values[i]]
    <3>1. n = 3 /\ job.values = [i \in 1..n |-> job.values[i]]
      BY <1>10 DEF DescJob
    <3> HIDE DEF n
    <3> QED
      BY <3>1
  <2>2. Stands(w, d, of)
    BY <1>1, <1>10 DEF FormRead, w, RangeForm, EnumerationForm
  <2>3. PICK off : ValuePlaces(off, t, job.values)
    BY <1>3, ValuesStand
  <2>4. /\ off \in [0..3 -> Nat] /\ off[0] = 0
        /\ \A i \in 1..3 : /\ off[i] = off[i - 1] + Len(CameraValue(t, job.values[i]))
                           /\ Stands(CameraValue(t, job.values[i]), w, off[i - 1])
    BY <2>1, <2>3 DEF ValuePlaces, w
  <2>5. ASSUME NEW i \in 1..3, of + off[i - 1] \in Nat
        PROVE  ParseU32(d, of + off[i - 1], t) = job.values[i] /\ PropSize(d, of + off[i - 1], t) = off[i] - off[i - 1]
    <3>1. i - 1 \in 0..3
      OBVIOUS
    <3>2. off[i - 1] \in Nat
      BY <2>4, <3>1
    <3>3. ValueFits(t, job.values[i])
      BY <1>3, <2>1 DEF AllFit
    <3>4. CameraValue(t, job.values[i]) \in Seq(Int)
      BY <1>3, <3>3, ValueBytes
    <3>5. Stands(CameraValue(t, job.values[i]), w, off[i - 1])
      BY <2>4
    <3>6. Stands(CameraValue(t, job.values[i]), d, of + off[i - 1])
      BY <1>2, <1>4, <2>2, <3>2, <3>4, <3>5, StandsWithin
    <3>7. Taken(t, job.values[i], d, of + off[i - 1])
      BY <1>2, <1>3, <2>5, <3>3, <3>6, ValueReads
    <3>8. /\ PropSize(d, of + off[i - 1], t) = Len(CameraValue(t, job.values[i]))
          /\ ParseValue(d, of + off[i - 1], t).u32 = ParseU32(d, of + off[i - 1], t)
          /\ ParseValue(d, of + off[i - 1], t).u32 = job.values[i]
      BY <1>10, <3>7 DEF Taken
    <3>9. Len(CameraValue(t, job.values[i])) = off[i] - off[i - 1]
      <4>1. off[i] = off[i - 1] + Len(CameraValue(t, job.values[i]))
        BY <2>4
      <4>2. Len(CameraValue(t, job.values[i])) \in Nat
        BY <3>4, LenProperties
      <4> QED
        BY <3>2, <4>1, <4>2
    <3> QED
      BY <3>8, <3>9
  <2>6. /\ 1 \in 1..3 /\ 2 \in 1..3 /\ 3 \in 1..3 /\ 1 - 1 = 0 /\ 2 - 1 = 1 /\ 3 - 1 = 2
        /\ off[0] \in Nat /\ off[1] \in Nat /\ off[2] \in Nat /\ of + off[0] = of
    BY <2>4
  <2>7. of + off[0] \in Nat /\ of + off[1] \in Nat /\ of + off[2] \in Nat
    BY <2>6
  <2>8. ParseU32(d, of, t) = job.values[1] /\ max = of + off[1]
    <3>1. ParseU32(d, of + off[1 - 1], t) = job.values[1] /\ PropSize(d, of + off[1 - 1], t) = off[1] - off[1 - 1]
      BY <2>5, <2>6, <2>7
    <3>2. ParseU32(d, of, t) = job.values[1] /\ PropSize(d, of, t) = off[1] - off[0]
      BY <2>6, <3>1
    <3> QED
      BY <2>4, <2>6, <3>2 DEF max
  <2>9. ParseU32(d, max, t) = job.values[2] /\ step = of + off[2]
    <3>1. ParseU32(d, of + off[2 - 1], t) = job.values[2] /\ PropSize(d, of + off[2 - 1], t) = off[2] - off[2 - 1]
      BY <2>5, <2>6, <2>7
    <3>2. ParseU32(d, max, t) = job.values[2] /\ PropSize(d, max, t) = off[2] - off[1]
      BY <2>6, <2>8, <3>1
    <3> QED
      BY <2>6, <2>8, <3>2 DEF step
  <2>10. ParseU32(d, step, t) = job.values[3]
    <3>1. ParseU32(d, of + off[3 - 1], t) = job.values[3]
      BY <2>5, <2>6, <2>7
    <3> QED
      BY <2>6, <2>9, <3>1
  <2>11. pd.range = <<ParseU32(d, of, t), ParseU32(d, max, t), ParseU32(d, step, t)>>
    BY <1>7, <1>10
  <2>12. pd.range = <<job.values[1], job.values[2], job.values[3]>>
    BY <2>8, <2>9, <2>10, <2>11
  <2> QED
    BY <2>1, <2>12
<1> QED
  BY <1>8, <1>9, <1>10 DEF w

\* What is shown of a description.
LEMMA NothingShown == SeparatedItems(<<>>)
<1>1. \A i \in 1..Len(<<>>) : FALSE
  OBVIOUS
<1> QED
  BY <1>1 DEF SeparatedItems

LEMMA DescShows ==
  ASSUME DescJob(job), job.kind = "desc", NEW pd, pd = ParsePropDesc(CameraDesc, job.types),
         NEW es, es = Described(pd).entries
  PROVE  /\ SeparatedItems(es)
         /\ job.form = EnumerationForm /\ job.type \in Scalars => Shown(es) = job.values
         /\ job.form = RangeForm /\ job.type \in Scalars =>
              /\ Range(Shown(es)) = {v \in job.values[1]..job.values[2] - 1 :
                                       (v - job.values[1]) % job.values[3] = 0}
              /\ \A i \in 1..Len(Shown(es)) - 1 : Shown(es)[i] < Shown(es)[i + 1]
<1>1. /\ Says(pd)
      /\ job.form = EnumerationForm =>
           pd.length = Len(job.values) /\ pd.data = CameraValues(job.type, job.values)
      /\ job.form = RangeForm /\ job.type \in Scalars => pd.range = job.values
  BY DescReads
<1>2. pd.form = job.form /\ pd.type = job.type /\ (pd.panic <=> job.form \notin {RangeForm, EnumerationForm})
  BY <1>1 DEF Says
<1>3. es = IF pd.panic \/ job.type \notin Scalars THEN <<>> ELSE ValidEntries(pd)
  BY DEF Described
<1>4. CASE job.form \notin {RangeForm, EnumerationForm} \/ job.type \notin Scalars
  <2>1. es = <<>>
    BY <1>2, <1>3, <1>4
  <2> QED
    BY <1>4, <2>1, NothingShown
<1>5. CASE job.form = EnumerationForm /\ job.type \in Scalars
  <2>1. es = ValidEntries(pd)
    BY <1>2, <1>3, <1>5
  <2>2. AllFit(job.type, job.values)
    BY <1>5 DEF DescJob, AllFit, Fits
  <2>3. EnumValues(pd) = job.values
    BY <1>1, <1>2, <1>5, <2>2, EnumValuesAre
  <2>4. es = Listed(job.values)
    BY <1>2, <1>5, <2>1, <2>3 DEF ValidEntries, RangeForm, EnumerationForm
  <2>5. Shown(es) = job.values /\ SeparatedItems(es)
    BY <2>2, <2>4, ListedIs DEF AllFit
  <2> QED
    BY <1>5, <2>5 DEF RangeForm, EnumerationForm
<1>6. CASE job.form = RangeForm /\ job.type \in Scalars
  <2>1. es = ValidEntries(pd)
    BY <1>2, <1>3, <1>6
  <2>2. pd.range = job.values /\ Len(job.values) = 3 /\ job.values[3] > 0
        /\ \A i \in 1..Len(job.values) : ValueFits(job.type, job.values[i])
    BY <1>1, <1>6 DEF DescJob
  <2>3. es = RangeItems(job.values[1], job.values[2], job.values[3])
    BY <1>2, <1>6, <2>1, <2>2 DEF ValidEntries
  <2>4. job.values[1] \in Int /\ job.values[2] \in Int /\ job.values[3] \in Int
    <3>1. 1 \in 1..Len(job.values) /\ 2 \in 1..Len(job.values) /\ 3 \in 1..Len(job.values)
      BY <2>2
    <3> QED
      BY <1>6, <2>2, <3>1, FitsNumber
  <2> DEFINE a == job.values[1]
             b == job.values[2]
             c == job.values[3]
  <2>5. a \in Int /\ b \in Int /\ c \in Int /\ c > 0 /\ es = RangeItems(a, b, c)
    BY <2>2, <2>3, <2>4
  <2> HIDE DEF a, b, c
  <2>6. /\ Range(Shown(es)) = {v \in a..b - 1 : (v - a) % c = 0}
        /\ \A i \in 1..Len(Shown(es)) - 1 : Shown(es)[i] < Shown(es)[i + 1]
        /\ SeparatedItems(es)
    BY <2>5, RangeIs
  <2> QED
    BY <1>6, <2>6 DEF a, b, c, RangeForm, EnumerationForm
<1> QED
  BY <1>4, <1>5, <1>6

\* A value alone: ptp_parse_prop_value goes by the number of its bytes.
LEMMA ValueAlone ==
  ASSUME NEW t \in Types, NEW v, ValueFits(t, v)
  PROVE  /\ t \in Scalars /\ (t = "INT32" \/ v >= 0) => ParsePropValue(CameraValue(t, v)) = v
         /\ t \in Longs => ParsePropValue(CameraValue(t, v)) = -1
<1> DEFINE d == CameraValue(t, v)
<1>1. d \in Seq(Int) /\ Stands(d, d, 0) /\ 0 \in Nat
  BY ValueBytes, StandsWhole
<1>2. CASE t \in Longs
  <2>1. Len(d) = 8
    BY <1>2, ValueBytes, Widths
  <2> HIDE DEF d
  <2>2. Len(d) \notin {1, 2} /\ Len(d) # 4
    BY <2>1
  <2>3. ParsePropValue(d) = -1
    BY <2>2, Zenon DEF ParsePropValue
  <2> QED
    BY <1>2, <2>3, Widths DEF d
<1>3. CASE t \in Scalars /\ (t = "INT32" \/ v >= 0)
  <2> DEFINE n == Width(t)
  <2>1. d = Le(n, v) /\ Len(d) = n /\ n \in {1, 2, 4}
    BY <1>3, ValueBytes, Widths
  <2> HIDE DEF d
  <2>2. ParseU32(d, 0, t) = v
    BY <1>1, <1>3, <2>1, ScalarReads
  <2>3. CASE t \in {"INT8", "UINT8", "UINT16"}
    <3>1. ParseU32(d, 0, t) = Unsigned(d, 0, n)
      BY <2>3, Zenon DEF ParseU32
    <3>2. n \in {1, 2}
      BY <2>3 DEF Width
    <3>3. ParsePropValue(d) = Unsigned(d, 0, Len(d))
      <4>1. Len(d) \in {1, 2} /\ Len(d) # 4
        BY <2>1, <3>2
      <4> QED
        BY <4>1, Zenon DEF ParsePropValue
    <3> QED
      BY <1>3, <2>1, <2>2, <3>1, <3>3, Widths DEF d
  <2>4. CASE t = "INT16"
    <3>1. n = 2
      BY <2>4 DEF Width
    <3>2. Short(v) /\ v \in Int /\ v >= 0
      BY <1>3, <2>4, Limits
    <3>3. Fits(2, v)
      BY <3>2, SMT DEF Short, Fits
    <3>4. Unsigned(d, 0, 2) = v
      <4>1. Stands(Le(2, v), d, 0) /\ 2 \in {1, 2, 3, 4, 8}
        BY <1>1, <2>1, <3>1
      <4> QED
        BY <1>1, <3>3, <4>1, ReadsNumber
    <3>5. Len(d) = 2 /\ Len(d) \in {1, 2} /\ Len(d) # 4
      BY <2>1, <3>1
    <3>6. ParsePropValue(d) = Unsigned(d, 0, Len(d))
      BY <3>5, Zenon DEF ParsePropValue
    <3> QED
      BY <1>3, <3>4, <3>5, <3>6, Widths DEF d
  <2>5. CASE t \in {"INT32", "UINT32"}
    <3>1. n = 4
      BY <2>5 DEF Width
    <3>2. ParseU32(d, 0, t) = Signed(d, 0, 4)
      <4>1. t \notin {"INT8", "UINT8", "UINT16"} /\ t \in {"INT16", "INT32", "UINT32"}
        BY <2>5
      <4>2. ParseU32(d, 0, t) = Signed(d, 0, n)
        BY <4>1, Zenon DEF ParseU32
      <4> QED
        BY <3>1, <4>2
    <3>3. Len(d) = 4 /\ Len(d) \notin {1, 2}
      BY <2>1, <3>1
    <3>4. ParsePropValue(d) = Signed(d, 0, 4)
      BY <3>3, Zenon DEF ParsePropValue
    <3> QED
      BY <1>3, <2>2, <3>2, <3>4, Widths DEF d
  <2> QED
    BY <1>3, <2>3, <2>4, <2>5 DEF Scalars
<1> QED
  BY <1>2, <1>3

\* For descriptions of every type and form, with values of any length that fit
\* their type, and any number of them: code, type and all values are the
\* camera's, an enumeration and a range are listed completely and in order with
\* a comma behind each value but the last, and a value alone is told from its
\* size (data.c:175-390).
THEOREM DescriptionsComeBack ==
  ASSUME \A j \in AllJobs : j.kind \in {"desc", "value"} => DescJob(j)
  PROVE  Spec => []DescReturns
<1> DEFINE Job == job \in AllJobs
<1>1. Init => Job /\ DescReturns
  BY DEF Init, AllJobs, DescReturns, Finished, Nothing
<1>2. Job /\ DescReturns /\ [Next]_vars => (Job /\ DescReturns)'
  <2> SUFFICES ASSUME Job, DescReturns, [Next]_vars PROVE (Job /\ DescReturns)'
    OBVIOUS
  <2>1. job' = job
    BY Steps
  <2>2. CASE job.kind \notin {"desc", "value"}
    BY <2>1, <2>2 DEF DescReturns, Finished
  <2>3. CASE result' = result
    BY <2>1, <2>3 DEF DescReturns, Finished, Reading
  <2>4. CASE job.kind = "desc" /\ result' # result
    <3> DEFINE pd == ParsePropDesc(CameraDesc, job.types)
               es == Described(pd).entries
    <3>1. result'.value = Described(pd)
      BY <2>4, Steps
    <3>2. Described(pd).pd = pd
      BY DEF Described
    <3> HIDE DEF pd
    <3>3. DescJob(job)
      BY <2>4
    <3>4. /\ Says(pd)
          /\ job.form = EnumerationForm =>
               pd.length = Len(job.values) /\ pd.data = CameraValues(job.type, job.values)
          /\ job.form = RangeForm /\ job.type \in Scalars => pd.range = job.values
      BY <2>4, <3>3, DescReads DEF pd
    <3>5. /\ SeparatedItems(es)
          /\ job.form = EnumerationForm /\ job.type \in Scalars => Shown(es) = job.values
          /\ job.form = RangeForm /\ job.type \in Scalars =>
               /\ Range(Shown(es)) = {v \in job.values[1]..job.values[2] - 1 :
                                        (v - job.values[1]) % job.values[3] = 0}
               /\ \A i \in 1..Len(Shown(es)) - 1 : Shown(es)[i] < Shown(es)[i + 1]
      BY <2>4, <3>3, DescShows DEF pd
    <3>6. result'.value.pd = pd /\ result'.value.entries = es
      BY <3>1, <3>2
    <3> HIDE DEF es
    <3>7. [i \in 1..Len(result'.value.entries) |-> result'.value.entries[i].value] = Shown(es)
      BY <3>6 DEF Shown
    <3> QED
      BY <2>1, <2>4, <3>4, <3>5, <3>6, <3>7 DEF DescReturns, Finished, Says, Reading
  <2>5. CASE job.kind = "value" /\ result' # result
    <3>1. result'.value = ParsePropValue(CameraValue(job.type, job.current))
      BY <2>5, Steps
    <3>2. DescJob(job)
      BY <2>5
    <3>3. job.type \in Types /\ ValueFits(job.type, job.current)
      BY <3>2 DEF DescJob
    <3>4. /\ job.type \in Scalars /\ (job.type = "INT32" \/ job.current >= 0) => result'.value = job.current
          /\ job.type \in Longs => result'.value = -1
      BY <3>1, <3>3, ValueAlone
    <3> QED
      BY <2>1, <2>5, <3>4 DEF DescReturns, Finished
  <2> QED
    BY <2>2, <2>3, <2>4, <2>5
<1> QED
  BY <1>1, <1>2, PTL DEF Spec

-----------------------------------------------------------------------------
(* Event procedures: a line is lexed token by token, and a command is      *)
(* packed and decoded part by part.                                        *)

\* Two functions that go on alike are alike.
LEMMA Alike ==
  ASSUME NEW n \in Nat, NEW f, NEW g, f[0] = g[0],
         \A k \in 0..n - 1 : f[k] = g[k] => f[k + 1] = g[k + 1]
  PROVE  \A k \in 0..n : f[k] = g[k]
<1> DEFINE S == {k \in 0..n : f[k] = g[k]}
<1>1. 0 \in S
  OBVIOUS
<1>2. \A k \in 0..n - 1 : k \in S => k + 1 \in S
  OBVIOUS
<1> HIDE DEF S
<1>3. \A k \in 0..n : k \in S
  BY <1>1, <1>2, UpTo
<1> QED
  BY <1>3 DEF S

\* The quotients a number is printed from.
LEMMA RestIs ==
  ASSUME NEW n \in Nat, Fits(4, n), NEW base \in {10, 16}
  PROVE  \E rest \in [0..8 -> Nat], len \in 1..8 :
           /\ rest[0] = n /\ \A k \in 1..8 : rest[k] = rest[k - 1] \div base
           /\ rest[len] = 0 /\ (len = 1 \/ rest[len - 1] # 0)
           /\ Digits(n, base) = [i \in 1..len |-> DigitOf(rest[len - i] % base)]
<1> DEFINE step == [k \in 1..8 |-> [t \in Nat |-> t \div base]]
           D(g) == g = [k \in 0..8 |-> IF k = 0 THEN n ELSE g[k - 1] \div base]
           c == CHOOSE g : D(g)
           L(k) == c[k] = 0 /\ (k = 1 \/ c[k - 1] # 0)
           len == CHOOSE k \in 1..8 : L(k)
<1>1. step \in [1..8 -> [Nat -> Nat]] /\ \A k \in 1..8 : \A t \in Nat : step[k][t] = t \div base
  BY SMT
<1> HIDE DEF step
<1>2. PICK f \in [0..8 -> Nat] : Runs(f, 8, n, step)
  BY <1>1, Recursion
<1>3. f[0] = n /\ \A k \in 1..8 : f[k] = step[k][f[k - 1]]
  BY <1>2 DEF Runs
<1>4. ASSUME NEW k \in 0..8 PROVE f[k] = IF k = 0 THEN n ELSE f[k - 1] \div base
  <2>1. CASE k = 0
    BY <1>3, <2>1
  <2>2. CASE k # 0
    <3>1. k \in 1..8 /\ k - 1 \in 0..8
      BY <2>2
    <3>2. f[k] = step[k][f[k - 1]] /\ f[k - 1] \in Nat
      BY <1>2, <1>3, <3>1
    <3> QED
      BY <1>1, <2>2, <3>1, <3>2
  <2> QED
    BY <2>1, <2>2
<1>5. D(f)
  BY <1>2, <1>4
<1>6. D(c)
  BY <1>5
<1>8. Digits(n, base) = [i \in 1..len |-> DigitOf(c[len - i] % base)]
  BY DEF Digits
<1> HIDE DEF c
<1>7. /\ c[0] = n
      /\ \A k \in 1..8 : c[k] = c[k - 1] \div base
      /\ c = [k \in 0..8 |-> c[k]]
  BY <1>6
<1>9. ASSUME NEW t \in Nat PROVE t \div base \in Nat /\ 10 * (t \div base) <= t
  <2>1. CASE base = 10
    BY <2>1
  <2>2. CASE base = 16
    BY <2>2
  <2> QED
    BY <2>1, <2>2
<1> DEFINE R == {k \in 0..8 : c[k] \in Nat}
<1>10. 0 \in R
  BY <1>7
<1>11. ASSUME NEW k \in 0..8 - 1, k \in R PROVE k + 1 \in R
  <2>1. k + 1 \in 1..8 /\ (k + 1) - 1 = k
    OBVIOUS
  <2>2. c[k + 1] = c[k] \div base
    BY <1>7, <2>1
  <2> QED
    BY <1>9, <1>11, <2>1, <2>2
<1> HIDE DEF R
<1>12. \A k \in 0..8 : k \in R
  BY <1>10, <1>11, UpTo
<1>13. \A k \in 0..8 : c[k] \in Nat
  BY <1>12 DEF R
<1>14. \A k \in 1..8 : 10 * c[k] <= c[k - 1]
  <2> SUFFICES ASSUME NEW k \in 1..8 PROVE 10 * c[k] <= c[k - 1]
    OBVIOUS
  <2>1. k - 1 \in 0..8
    OBVIOUS
  <2> QED
    BY <1>7, <1>9, <1>13, <2>1
<1>15. c[8] = 0
  <2>1. /\ 10 * c[1] <= c[0] /\ 10 * c[2] <= c[1] /\ 10 * c[3] <= c[2] /\ 10 * c[4] <= c[3]
        /\ 10 * c[5] <= c[4] /\ 10 * c[6] <= c[5] /\ 10 * c[7] <= c[6] /\ 10 * c[8] <= c[7]
    BY <1>14
  <2>2. /\ c[0] \in Nat /\ c[1] \in Nat /\ c[2] \in Nat /\ c[3] \in Nat /\ c[4] \in Nat
        /\ c[5] \in Nat /\ c[6] \in Nat /\ c[7] \in Nat /\ c[8] \in Nat
    BY <1>13
  <2>3. 100000000 * c[8] <= c[0]
    BY <2>1, <2>2, SMT
  <2> QED
    BY <1>7, <2>2, <2>3, SMT DEF Fits
<1>16. \E k \in 1..8 : L(k)
  <2> SUFFICES ASSUME \A k \in 1..8 : ~L(k) PROVE FALSE
    OBVIOUS
  <2>1. c[7] = 0 /\ c[6] = 0 /\ c[5] = 0 /\ c[4] = 0
    BY <1>15
  <2>2. c[3] = 0 /\ c[2] = 0 /\ c[1] = 0
    BY <2>1
  <2> QED
    BY <2>2
<1>17. len \in 1..8 /\ L(len)
  BY <1>16
<1> HIDE DEF len
<1>18. c \in [0..8 -> Nat]
  BY <1>7, <1>13
<1> QED
  BY <1>7, <1>8, <1>17, <1>18

\* A digit has its value, and the number before it loses nothing.
LEMMA DigitBack ==
  ASSUME NEW m \in Nat, NEW base \in {10, 16}
  PROVE  LET e == DigitOf(m % base)
         IN  /\ e \in Hex /\ (base = 10 => e \in Digit)
             /\ (m \div base) * base + HexValue(e) = m
<1> DEFINE r == m % base
           q == m \div base
           e == DigitOf(r)
<1>1. q \in Int /\ r \in 0..base - 1 /\ q * base + r = m
  <2>1. CASE base = 10
    BY <2>1
  <2>2. CASE base = 16
    BY <2>2
  <2> QED
    BY <2>1, <2>2
<1> HIDE DEF r, q
<1>2. CASE r < 10
  <2>1. e = 48 + r /\ e \in 48..57 /\ r \in Int
    BY <1>1, <1>2 DEF DigitOf
  <2>2. HexValue(e) = e - 48 /\ e \in Hex /\ e \in Digit
    BY <2>1 DEF HexValue, Digit, Hex
  <2> QED
    BY <1>1, <2>1, <2>2 DEF r, q
<1>3. CASE ~(r < 10)
  <2>1. e = 87 + r /\ e \in 97..102 /\ r \in Int /\ base # 10
    BY <1>1, <1>3 DEF DigitOf
  <2>2. HexValue(e) = e - 87 /\ e \in Hex
    BY <2>1 DEF HexValue, Digit, Hex
  <2> QED
    BY <1>1, <2>1, <2>2 DEF r, q
<1> QED
  BY <1>2, <1>3

\* A number is printed with the digits of its base and read back from them.
LEMMA DigitsRead ==
  ASSUME NEW n \in Nat, Fits(4, n), NEW base \in {10, 16}
  PROVE  LET cs == Digits(n, base)
         IN  /\ cs \in Seq(Hex) /\ Len(cs) \in Nat /\ Len(cs) > 0
             /\ base = 10 => \A i \in 1..Len(cs) : cs[i] \in Digit
             /\ ValueOf(cs, base) = n
<1> DEFINE cs == Digits(n, base)
<1>1. PICK rest \in [0..8 -> Nat], len \in 1..8 :
           /\ rest[0] = n /\ \A k \in 1..8 : rest[k] = rest[k - 1] \div base
           /\ rest[len] = 0 /\ (len = 1 \/ rest[len - 1] # 0)
           /\ cs = [i \in 1..len |-> DigitOf(rest[len - i] % base)]
  BY RestIs
<1>3. ASSUME NEW i \in 1..len
      PROVE  /\ cs[i] \in Hex /\ (base = 10 => cs[i] \in Digit)
             /\ rest[len - (i - 1)] * base + HexValue(cs[i]) = rest[len - i]
  <2>1. len - i \in 0..8 /\ len - (i - 1) \in 1..8 /\ (len - (i - 1)) - 1 = len - i
    OBVIOUS
  <2>2. rest[len - (i - 1)] = rest[len - i] \div base /\ rest[len - i] \in Nat
    BY <1>1, <2>1
  <2>3. cs[i] = DigitOf(rest[len - i] % base)
    BY <1>1
  <2> QED
    BY <2>2, <2>3, DigitBack
<1>4. cs = [i \in 1..len |-> cs[i]]
  BY <1>1
<1> HIDE DEF cs
<1>5. cs \in Seq(Hex) /\ Len(cs) = len
  <2>1. \A i \in 1..len : cs[i] \in Hex
    BY <1>3
  <2>2. len \in Nat
    OBVIOUS
  <2> QED
    BY <1>4, <2>1, <2>2, IsSeq
<1> DEFINE v == [k \in 0..len |-> rest[len - k]]
           D(g) == g = [k \in 0..len |-> IF k = 0 THEN 0 ELSE g[k - 1] * base + HexValue(cs[k])]
           c == CHOOSE g : D(g)
<1>6. ASSUME NEW k \in 0..len PROVE v[k] = IF k = 0 THEN 0 ELSE v[k - 1] * base + HexValue(cs[k])
  <2>1. CASE k = 0
    BY <1>1, <2>1
  <2>2. CASE k # 0
    <3>1. k \in 1..len /\ k - 1 \in 0..len
      BY <2>2
    <3>2. v[k] = rest[len - k] /\ v[k - 1] = rest[len - (k - 1)]
      BY <3>1
    <3> QED
      BY <1>3, <2>2, <3>1, <3>2
  <2> QED
    BY <2>1, <2>2
<1>7. D(v)
  BY <1>6
<1>8. D(c)
  BY <1>7
<1>11. ValueOf(cs, base) = c[len]
  BY <1>5 DEF ValueOf
<1> HIDE DEF c
<1>9. c[0] = v[0] /\ len \in Nat /\ len \in 0..len /\ v[len] = n
  <2>1. len - len = 0
    OBVIOUS
  <2> QED
    BY <1>1, <1>6, <1>8, <2>1
<1>10. ASSUME NEW k \in 0..len - 1, c[k] = v[k] PROVE c[k + 1] = v[k + 1]
  <2>1. k + 1 \in 0..len /\ k + 1 # 0 /\ (k + 1) - 1 = k
    OBVIOUS
  <2>2. c[k + 1] = c[k] * base + HexValue(cs[k + 1])
    BY <1>8, <2>1
  <2>3. v[k + 1] = v[k] * base + HexValue(cs[k + 1])
    BY <1>6, <2>1
  <2> QED
    BY <1>10, <2>2, <2>3
<1> HIDE DEF v
<1>12. c[len] = v[len]
  BY <1>9, <1>10, Alike
<1>13. cs \in Seq(Hex) /\ Len(cs) \in Nat /\ Len(cs) > 0
  BY <1>5
<1>14. base = 10 => \A i \in 1..Len(cs) : cs[i] \in Digit
  BY <1>3, <1>5
<1>15. ValueOf(cs, base) = n
  BY <1>9, <1>11, <1>12
<1> QED
  BY <1>13, <1>14, <1>15 DEF cs

\* A run of characters ends at the first other one.
LEMMA AfterIs ==
  ASSUME NEW line \in Seq(Int), NEW c \in Nat, NEW S, NEW i \in Nat, c <= i, i <= Len(line),
         \A j \in c..i - 1 : line[j] \in S, line[i] \notin S
  PROVE  After(line, c, S) = i
<1> DEFINE n == Len(line)
           P(k) == (\A j \in c..k - 1 : line[j] \in S) /\ (k > n \/ line[k] \notin S)
<1>1. n \in Nat /\ i \in c..n + 1
  OBVIOUS
<1>2. P(i)
  OBVIOUS
<1>3. ASSUME NEW k \in c..n + 1, P(k) PROVE k = i
  <2>1. CASE k < i
    <3>1. k \in c..i - 1 /\ ~(k > n)
      BY <1>1, <2>1
    <3> QED
      BY <1>3, <3>1
  <2>2. CASE k > i
    <3>1. i \in c..k - 1
      BY <1>1, <2>2
    <3> QED
      BY <1>3, <3>1
  <2> QED
    BY <1>1, <2>1, <2>2
<1>4. After(line, c, S) = CHOOSE k \in c..n + 1 : P(k)
  BY DEF After
<1> HIDE DEF P, n
<1> QED
  BY <1>1, <1>2, <1>3, <1>4

\* What stands in a line is what lies between its ends.
LEMMA PieceIs ==
  ASSUME NEW line \in Seq(Int), NEW w \in Seq(Int), NEW s \in Nat, s > 0, Stands(w, line, s - 1)
  PROVE  /\ \A p \in s..s + Len(w) - 1 : line[p] = w[p - s + 1] /\ p - s + 1 \in 1..Len(w)
         /\ SubSeq(line, s, s + Len(w) - 1) = w
<1> DEFINE n == Len(w)
           e == s + n - 1
           piece == SubSeq(line, s, e)
<1>1. n \in Nat /\ s \in Int /\ e \in Int /\ e <= Len(line) /\ \A i \in 1..n : line[s - 1 + i] = w[i]
  BY DEF Stands
<1>2. ASSUME NEW p \in s..e PROVE line[p] = w[p - s + 1] /\ p - s + 1 \in 1..n
  <2>1. p - s + 1 \in 1..n /\ s - 1 + (p - s + 1) = p
    BY <1>1
  <2> QED
    BY <1>1, <2>1
<1>3. \A p \in s..e : line[p] \in Int
  <2> SUFFICES ASSUME NEW p \in s..e PROVE line[p] \in Int
    OBVIOUS
  <2>1. w[p - s + 1] \in Int
    BY <1>2
  <2> QED
    BY <1>2, <2>1
<1>4. /\ piece \in Seq(Int) /\ Len(piece) = IF s <= e THEN e - s + 1 ELSE 0
      /\ \A i \in 1..e - s + 1 : piece[i] = line[s + i - 1]
  BY <1>1, <1>3, SubSeqProperties
<1> HIDE DEF piece
<1>5. Len(piece) = n
  BY <1>1, <1>4
<1>6. \A i \in 1..n : piece[i] = w[i]
  <2> SUFFICES ASSUME NEW i \in 1..n PROVE piece[i] = w[i]
    OBVIOUS
  <2>1. i \in 1..e - s + 1 /\ s + i - 1 = s - 1 + i
    BY <1>1
  <2> QED
    BY <1>1, <1>4, <2>1
<1>7. piece = w
  BY <1>4, <1>5, <1>6, SeqEqual
<1> QED
  BY <1>2, <1>7 DEF piece

\* A run of one kind of characters with another one behind it.
LEMMA RunIs ==
  ASSUME NEW line \in Seq(Int), NEW S, NEW w \in Seq(S), w \in Seq(Int), NEW s \in Nat, s > 0,
         Stands(w, line, s - 1), s + Len(w) <= Len(line), line[s + Len(w)] \notin S
  PROVE  After(line, s, S) = s + Len(w)
<1> DEFINE i == s + Len(w)
<1>1. i \in Nat /\ s <= i /\ i <= Len(line)
  OBVIOUS
<1>2. \A j \in s..i - 1 : line[j] \in S
  <2> SUFFICES ASSUME NEW j \in s..i - 1 PROVE line[j] \in S
    OBVIOUS
  <2>1. line[j] = w[j - s + 1] /\ j - s + 1 \in 1..Len(w)
    BY PieceIs
  <2> QED
    BY <2>1
<1> HIDE DEF i
<1>3. line[i] \notin S
  BY DEF i
<1>4. After(line, s, S) = i
  BY <1>1, <1>2, <1>3, AfterIs
<1> QED
  BY <1>4 DEF i

\* The tokens of some types.
LEMMA WhichIs ==
  ASSUME NEW T, NEW tokens \in Seq(T), NEW types
  PROVE  LET w == Which(tokens, types)
         IN  /\ w \in Seq({t \in T : t.type \in types}) /\ Len(w) \in Nat /\ Len(w) <= Len(tokens)
             /\ w = <<>> => \A i \in 1..Len(tokens) : tokens[i].type \notin types
<1> DEFINE w == Which(tokens, types)
           U == {t \in T : t.type \in types}
           n == Len(tokens)
           parts == [i \in 1..n |-> IF tokens[i].type \in types THEN <<tokens[i]>> ELSE <<>>]
<1>1. n \in Nat /\ w = FlattenSeq(parts) /\ \A i \in 1..n : tokens[i] \in T
  BY DEF Which
<1>2. ASSUME NEW i \in 1..n
      PROVE  /\ parts[i] \in Seq(U) /\ Len(parts[i]) \in {0, 1}
             /\ tokens[i].type \in types => Len(parts[i]) = 1
  <2>1. CASE tokens[i].type \in types
    <3>1. parts[i] = <<tokens[i]>> /\ tokens[i] \in U
      BY <1>1, <2>1
    <3> HIDE DEF parts, U
    <3> QED
      BY <3>1
  <2>2. CASE tokens[i].type \notin types
    <3>1. parts[i] = <<>>
      BY <2>2
    <3> HIDE DEF parts, U
    <3> QED
      BY <2>2, <3>1
  <2> QED
    BY <2>1, <2>2
<1>3. parts = [i \in 1..n |-> parts[i]]
  OBVIOUS
<1> HIDE DEF parts, U, n, w
<1>4. parts \in Seq(Seq(U)) /\ Len(parts) = n
  <2>1. \A i \in 1..n : parts[i] \in Seq(U)
    BY <1>2
  <2> QED
    BY <1>1, <1>3, <2>1, IsSeq
<1>5. w \in Seq(U)
  BY <1>1, <1>4, PartsStand
<1>6. PICK off : Places(off, parts)
  BY <1>4, PartsStand
<1>7. /\ off \in [0..n -> Nat] /\ off[0] = 0 /\ off[n] = Len(w)
      /\ \A i \in 1..n : off[i] = off[i - 1] + Len(parts[i]) /\ Stands(parts[i], w, off[i - 1])
  BY <1>1, <1>4, <1>6 DEF Places
<1> DEFINE R == {k \in 0..n : off[k] <= k}
<1>8. 0 \in R
  BY <1>1, <1>7
<1>9. ASSUME NEW k \in 0..n - 1, k \in R PROVE k + 1 \in R
  <2>1. k + 1 \in 1..n /\ (k + 1) - 1 = k /\ k + 1 \in 0..n
    BY <1>1
  <2>2. off[k + 1] = off[k] + Len(parts[k + 1]) /\ Len(parts[k + 1]) \in {0, 1}
    BY <1>2, <1>7, <2>1
  <2>3. off[k] <= k /\ off[k] \in Nat /\ off[k + 1] \in Nat /\ k \in Nat
    BY <1>7, <1>9, <2>1
  <2> DEFINE l == Len(parts[k + 1])
  <2>4. off[k + 1] = off[k] + l /\ (l = 0 \/ l = 1)
    BY <2>2
  <2> HIDE DEF l
  <2>5. off[k + 1] <= off[k] + 1
    BY <2>3, <2>4
  <2>6. off[k + 1] <= k + 1
    BY <2>3, <2>5
  <2> QED
    BY <2>1, <2>6
<1> HIDE DEF R
<1>10. n \in R
  <2>1. \A k \in 0..n : k \in R
    BY <1>1, <1>8, <1>9, UpTo
  <2> QED
    BY <1>1, <2>1
<1>11. Len(w) <= n /\ Len(w) \in Nat
  BY <1>1, <1>5, <1>7, <1>10 DEF R
<1>12. w = <<>> => \A i \in 1..n : tokens[i].type \notin types
  <2> SUFFICES ASSUME w = <<>>, NEW i \in 1..n, tokens[i].type \in types PROVE FALSE
    OBVIOUS
  <2>1. Len(parts[i]) = 1 /\ Stands(parts[i], w, off[i - 1]) /\ off[i - 1] \in Nat
    BY <1>1, <1>2, <1>7
  <2>2. Len(w) = 0
    OBVIOUS
  <2> QED
    BY <2>1, <2>2 DEF Stands
<1> QED
  BY <1>5, <1>11, <1>12 DEF U, n, w

\* A token stands at a position, and a blank or the end is behind it.
TokenAt(w, line, s) ==
  Stands(w, line, s - 1) /\ s + Len(w) <= Len(line) /\ line[s + Len(w)] \in {32, 0}

\* What the kinds of characters have in common, and what they do not.
LEMMA Characters ==
  /\ \A c \in {32, 0} : c \notin Alpha /\ c \notin Hex /\ c \notin Digit
  /\ \A c \in Digit : c \in Int /\ c \notin Alpha /\ c # 120
  /\ (\A c \in Alpha : c \in Int) /\ (\A c \in Hex : c \in Int)
  /\ \A c \in Printable \ {Quote} : c \in Int /\ c \in 0..127 \ {Quote}
  /\ Quote \in Int /\ Quote \notin Alpha /\ Quote # 48 /\ Quote \notin Digit
  /\ 48 \in Digit /\ 48 \notin Alpha
<1>1. \A c \in {32, 0} : c \notin Alpha /\ c \notin Hex /\ c \notin Digit
  BY DEF Alpha, Hex, Digit
<1>2. \A c \in Digit : c \in Int /\ c \notin Alpha /\ c # 120
  BY DEF Alpha, Digit
<1>3. (\A c \in Alpha : c \in Int) /\ (\A c \in Hex : c \in Int)
  BY DEF Alpha, Hex, Digit
<1>4. \A c \in Printable \ {Quote} : c \in Int /\ c \in 0..127 \ {Quote}
  BY DEF Printable
<1>5. Quote \in Int /\ Quote \notin Alpha /\ Quote # 48 /\ Quote \notin Digit
  BY DEF Quote, Alpha, Digit
<1>6. 48 \in Digit /\ 48 \notin Alpha
  BY DEF Alpha, Digit
<1> QED
  BY <1>1, <1>2, <1>3, <1>4, <1>5, <1>6

\* A sequence over a larger set.
LEMMA SeqWider ==
  ASSUME NEW S, NEW T, \A c \in S : c \in T, NEW w \in Seq(S)
  PROVE  w \in Seq(T) /\ Len(w) \in Nat /\ (w # <<>> => Len(w) > 0)
<1>1. Len(w) \in Nat /\ w = [i \in 1..Len(w) |-> w[i]] /\ \A i \in 1..Len(w) : w[i] \in T
  OBVIOUS
<1>2. w \in Seq(T)
  BY <1>1, IsSeq
<1>3. w # <<>> => Len(w) # 0
  BY EmptySeq
<1> QED
  BY <1>1, <1>2, <1>3

\* The four kinds of tokens by their first characters.
LEMMA TakeIs ==
  ASSUME NEW line, NEW c
  PROVE  LET word == SmallerOf(After(line, c, Alpha), c + MaxStr + 1)
             hex == After(line, c + 2, Hex)
             number == After(line, c, Digit)
             string == SmallerOf(After(line, c + 1, 0..127 \ {Quote}), c + MaxStr + 2)
         IN  /\ line[c] \in Alpha =>
                  Take(line, c) = [token |-> Text(SubSeq(line, c, word - 1)), c |-> word]
             /\ line[c] \notin Alpha /\ line[c] = 48 /\ line[c + 1] = 120 =>
                  Take(line, c) = [token |-> IntToken(ValueOf(SubSeq(line, c + 2, hex - 1), 16)), c |-> hex]
             /\ line[c] \notin Alpha /\ line[c + 1] # 120 /\ line[c] \in Digit =>
                  Take(line, c) = [token |-> IntToken(ValueOf(SubSeq(line, c, number - 1), 10)), c |-> number]
             /\ line[c] \notin Alpha /\ line[c] # 48 /\ line[c] \notin Digit =>
                  Take(line, c) = [token |-> Quoted(SubSeq(line, c + 1, string - 1)), c |-> string + 1]
<1> DEFINE word == SmallerOf(After(line, c, Alpha), c + MaxStr + 1)
           hex == After(line, c + 2, Hex)
           number == After(line, c, Digit)
           string == SmallerOf(After(line, c + 1, 0..127 \ {Quote}), c + MaxStr + 2)
           w == [token |-> Text(SubSeq(line, c, word - 1)), c |-> word]
           h == [token |-> IntToken(ValueOf(SubSeq(line, c + 2, hex - 1), 16)), c |-> hex]
           n == [token |-> IntToken(ValueOf(SubSeq(line, c, number - 1), 10)), c |-> number]
           q == [token |-> Quoted(SubSeq(line, c + 1, string - 1)), c |-> string + 1]
<1>1. Take(line, c) = IF line[c] \in Alpha THEN w
                      ELSE IF line[c] = 48 /\ line[c + 1] = 120 THEN h
                      ELSE IF line[c] \in Digit THEN n ELSE q
  BY DEF Take
<1> HIDE DEF w, h, n, q
<1>2. /\ line[c] \in Alpha => Take(line, c) = w
      /\ line[c] \notin Alpha /\ line[c] = 48 /\ line[c + 1] = 120 => Take(line, c) = h
      /\ line[c] \notin Alpha /\ line[c + 1] # 120 /\ line[c] \in Digit => Take(line, c) = n
      /\ line[c] \notin Alpha /\ line[c] # 48 /\ line[c] \notin Digit => Take(line, c) = q
  BY <1>1
<1> QED
  BY <1>2 DEF w, h, n, q

\* A word, a string and a number of each base are taken as they are printed.
LEMMA WordTaken ==
  ASSUME NEW line \in Seq(Int), NEW s \in Nat, s > 0,
         NEW w \in Seq(Alpha), w # <<>>, Len(w) <= MaxStr, TokenAt(w, line, s)
  PROVE  line[s] \in Alpha /\ Take(line, s) = [token |-> Text(w), c |-> s + Len(w)]
<1> DEFINE word == SmallerOf(After(line, s, Alpha), s + MaxStr + 1)
           e == s + Len(w)
<1>1. line[s] \in Alpha => Take(line, s) = [token |-> Text(SubSeq(line, s, word - 1)), c |-> word]
  BY TakeIs
<1>2. w \in Seq(Int) /\ Len(w) \in Nat /\ Len(w) > 0
  BY Characters, SeqWider
<1>3. After(line, s, Alpha) = e
  BY <1>2, Characters, RunIs DEF TokenAt
<1>4. word = e
  BY <1>2, <1>3, TokensAssumption DEF SmallerOf
<1>5. line[s] \in Alpha
  <2>1. s \in s..s + Len(w) - 1
    BY <1>2
  <2>2. line[s] = w[s - s + 1] /\ s - s + 1 \in 1..Len(w)
    BY <1>2, <2>1, PieceIs DEF TokenAt
  <2> QED
    BY <2>2
<1>6. SubSeq(line, s, e - 1) = w
  BY <1>2, PieceIs DEF TokenAt
<1> HIDE DEF word, e
<1>7. Take(line, s) = [token |-> Text(w), c |-> e]
  BY <1>1, <1>4, <1>5, <1>6
<1> QED
  BY <1>5, <1>7 DEF e

LEMMA StringTaken ==
  ASSUME NEW line \in Seq(Int), NEW s \in Nat, s > 0,
         NEW x \in Seq(Printable \ {Quote}), Len(x) <= MaxStr,
         TokenAt(<<Quote>> \o x \o <<Quote>>, line, s)
  PROVE  line[s] = Quote /\ Take(line, s) = [token |-> Quoted(x), c |-> s + Len(x) + 2]
<1> DEFINE string == SmallerOf(After(line, s + 1, 0..127 \ {Quote}), s + MaxStr + 2)
           q == <<Quote>>
           e == s + 1 + Len(x)
           S == 0..127 \ {Quote}
<1>1. line[s] = Quote => Take(line, s) = [token |-> Quoted(SubSeq(line, s + 1, string - 1)), c |-> string + 1]
  <2>1. Quote \notin Alpha /\ Quote # 48 /\ Quote \notin Digit
    BY Characters
  <2>2. line[s] \notin Alpha /\ line[s] # 48 /\ line[s] \notin Digit =>
          Take(line, s) = [token |-> Quoted(SubSeq(line, s + 1, string - 1)), c |-> string + 1]
    BY TakeIs
  <2> HIDE DEF string
  <2> QED
    BY <2>1, <2>2
<1>2. x \in Seq(Int) /\ Len(x) \in Nat /\ q \in Seq(Int) /\ Len(q) = 1 /\ x \in Seq(S)
  <2>1. q \in Seq(Int) /\ Len(q) = 1
    BY Characters
  <2> HIDE DEF S, q
  <2>2. \A c \in Printable \ {Quote} : c \in Int /\ c \in S
    BY Characters DEF S
  <2>3. x \in Seq(Int) /\ x \in Seq(S) /\ Len(x) \in Nat
    BY <2>2, SeqWider
  <2> QED
    BY <2>1, <2>3
<1>3. Stands(q \o x \o q, line, s - 1)
  BY DEF TokenAt
<1>4. q[1] = Quote /\ s - 1 \in Nat
  OBVIOUS
<1> HIDE DEF q
<1>5. /\ Stands(q, line, s - 1) /\ Stands(x, line, s - 1 + Len(q))
      /\ Stands(q, line, s - 1 + Len(q \o x))
  <2>1. q \o x \in Seq(Int)
    BY <1>2
  <2>2. Stands(q \o x, line, s - 1) /\ Stands(q, line, s - 1 + Len(q \o x))
    BY <1>2, <1>3, <1>4, <2>1, StandsParts
  <2>3. Stands(q, line, s - 1) /\ Stands(x, line, s - 1 + Len(q))
    BY <1>2, <1>4, <2>2, StandsParts
  <2> QED
    BY <2>2, <2>3
<1>6. s - 1 + Len(q) = (s + 1) - 1 /\ s - 1 + Len(q \o x) = e - 1 /\ e \in Nat /\ e > 0
      /\ s + 1 \in Nat /\ s + 1 > 0
  <2>1. Len(q \o x) = 1 + Len(x)
    BY <1>2, ConcatProperties
  <2> QED
    BY <1>2, <2>1
<1>7. line[s] = Quote /\ line[e] = Quote /\ e <= Len(line)
  <2>1. 1 \in 1..Len(q) /\ s - 1 + 1 = s /\ e - 1 + 1 = e
    BY <1>2, <1>6
  <2> QED
    BY <1>2, <1>4, <1>5, <1>6, <2>1 DEF Stands
<1>8. After(line, s + 1, S) = e
  <2>1. line[s + 1 + Len(x)] \notin S
    BY <1>7
  <2>2. Stands(x, line, (s + 1) - 1)
    BY <1>5, <1>6
  <2> HIDE DEF S
  <2> QED
    BY <1>2, <1>6, <1>7, <2>1, <2>2, RunIs
<1>9. string = e
  BY <1>2, <1>8, TokensAssumption DEF SmallerOf
<1>10. SubSeq(line, s + 1, e - 1) = x
  <2>1. Stands(x, line, (s + 1) - 1)
    BY <1>5, <1>6
  <2>2. SubSeq(line, s + 1, s + 1 + Len(x) - 1) = x
    BY <1>2, <1>6, <2>1, PieceIs
  <2> QED
    BY <2>2
<1>11. e + 1 = s + Len(x) + 2
  BY <1>2
<1> HIDE DEF string, e
<1> QED
  BY <1>1, <1>7, <1>9, <1>10, <1>11

LEMMA DecimalTaken ==
  ASSUME NEW line \in Seq(Int), NEW s \in Nat, s > 0,
         NEW w \in Seq(Digit), w # <<>>, TokenAt(w, line, s)
  PROVE  line[s] \in Digit /\ Take(line, s) = [token |-> IntToken(ValueOf(w, 10)), c |-> s + Len(w)]
<1> DEFINE e == s + Len(w)
           number == After(line, s, Digit)
<1>1. line[s] \notin Alpha /\ line[s + 1] # 120 /\ line[s] \in Digit =>
        Take(line, s) = [token |-> IntToken(ValueOf(SubSeq(line, s, number - 1), 10)), c |-> number]
  BY TakeIs
<1>2. w \in Seq(Int) /\ Len(w) \in Nat /\ Len(w) > 0
  BY Characters, SeqWider
<1>3. number = e
  BY <1>2, Characters, RunIs DEF TokenAt
<1>4. line[s] \in Digit
  <2>1. s \in s..s + Len(w) - 1
    BY <1>2
  <2>2. line[s] = w[s - s + 1] /\ s - s + 1 \in 1..Len(w)
    BY <1>2, <2>1, PieceIs DEF TokenAt
  <2> QED
    BY <2>2
<1>5. line[s + 1] # 120
  <2>1. CASE Len(w) = 1
    BY <2>1, Characters DEF TokenAt
  <2>2. CASE Len(w) # 1
    <3> DEFINE p == s + 1
               n == Len(w)
    <3>1. p \in s..s + Len(w) - 1
      <4>1. n \in Nat /\ n > 0 /\ n # 1
        BY <1>2, <2>2
      <4> HIDE DEF n
      <4>2. p \in s..s + n - 1
        BY <4>1
      <4> QED
        BY <4>2 DEF n
    <3> HIDE DEF p
    <3>2. line[p] = w[p - s + 1] /\ p - s + 1 \in 1..Len(w)
      BY <1>2, <3>1, PieceIs DEF TokenAt
    <3>3. line[s + 1] \in Digit
      BY <3>2 DEF p
    <3> QED
      BY <3>3, Characters
  <2> QED
    BY <2>1, <2>2
<1>6. SubSeq(line, s, e - 1) = w
  <2>1. Stands(w, line, s - 1)
    BY DEF TokenAt
  <2>2. SubSeq(line, s, s + Len(w) - 1) = w
    BY <1>2, <2>1, PieceIs
  <2> QED
    BY <2>2
<1>7. line[s] \notin Alpha
  BY <1>4, Characters
<1> HIDE DEF number, e
<1>8. Take(line, s) = [token |-> IntToken(ValueOf(w, 10)), c |-> e]
  BY <1>1, <1>3, <1>4, <1>5, <1>6, <1>7
<1> QED
  BY <1>4, <1>8 DEF e

LEMMA HexTaken ==
  ASSUME NEW line \in Seq(Int), NEW s \in Nat, s > 0,
         NEW x \in Seq(Hex), TokenAt(<<48, 120>> \o x, line, s)
  PROVE  line[s] \in Digit /\ Take(line, s) = [token |-> IntToken(ValueOf(x, 16)), c |-> s + Len(x) + 2]
<1> DEFINE hex == After(line, s + 2, Hex)
           h == <<48, 120>>
           e == s + 2 + Len(x)
<1>1. line[s] = 48 /\ line[s + 1] = 120 =>
        Take(line, s) = [token |-> IntToken(ValueOf(SubSeq(line, s + 2, hex - 1), 16)), c |-> hex]
  <2>1. 48 \notin Alpha
    BY Characters
  <2>2. line[s] \notin Alpha /\ line[s] = 48 /\ line[s + 1] = 120 =>
          Take(line, s) = [token |-> IntToken(ValueOf(SubSeq(line, s + 2, hex - 1), 16)), c |-> hex]
    BY TakeIs
  <2> QED
    BY <2>1, <2>2
<1>2. x \in Seq(Int) /\ Len(x) \in Nat /\ h \in Seq(Int) /\ Len(h) = 2 /\ h[1] = 48 /\ h[2] = 120
      /\ s - 1 \in Nat
  <2>1. x \in Seq(Int) /\ Len(x) \in Nat
    BY Characters, SeqWider
  <2> QED
    BY <2>1
<1>3. Stands(h \o x, line, s - 1) /\ s + Len(h \o x) <= Len(line) /\ line[s + Len(h \o x)] \in {32, 0}
  BY DEF TokenAt
<1> HIDE DEF h
<1>4. Len(h \o x) = 2 + Len(x) /\ s + Len(h \o x) = e /\ s - 1 + Len(h) = (s + 2) - 1 /\ s + 2 > 0 /\ s + 2 \in Nat
  <2>1. Len(h \o x) = Len(h) + Len(x)
    <3>1. h \in Seq(Int) /\ x \in Seq(Int)
      BY <1>2
    <3> QED
      BY <3>1, ConcatProperties, Zenon
  <2> DEFINE n == Len(x)
             k == Len(h \o x)
             m == Len(h)
  <2>2. n \in Nat /\ k = m + n /\ m = 2
    BY <1>2, <2>1
  <2> HIDE DEF n, k, m
  <2>3. k = 2 + n /\ s + k = s + 2 + n /\ s - 1 + m = (s + 2) - 1 /\ s + 2 > 0 /\ s + 2 \in Nat
    BY <2>2
  <2> QED
    BY <2>3 DEF n, k, m
<1>5. Stands(h, line, s - 1) /\ Stands(x, line, (s + 2) - 1)
  BY <1>2, <1>3, <1>4, StandsParts
<1>6. line[s] = 48 /\ line[s + 1] = 120
  <2>1. 1 \in 1..Len(h) /\ 2 \in 1..Len(h) /\ s - 1 + 1 = s /\ s - 1 + 2 = s + 1
    BY <1>2
  <2> QED
    BY <1>2, <1>5, <2>1 DEF Stands
<1>7. hex = e
  <2>1. line[s + 2 + Len(x)] \notin Hex /\ s + 2 + Len(x) <= Len(line)
    BY <1>3, <1>4, Characters
  <2> DEFINE p == s + 2
  <2>2. p \in Nat /\ p > 0 /\ Stands(x, line, p - 1) /\ p + Len(x) <= Len(line) /\ line[p + Len(x)] \notin Hex
    BY <1>4, <1>5, <2>1
  <2> HIDE DEF p
  <2>3. After(line, p, Hex) = p + Len(x)
    BY <1>2, <2>2, RunIs
  <2> QED
    BY <2>3 DEF p
<1>8. SubSeq(line, s + 2, e - 1) = x
  <2>1. SubSeq(line, s + 2, s + 2 + Len(x) - 1) = x
    BY <1>2, <1>4, <1>5, PieceIs
  <2> QED
    BY <2>1
<1>9. e = s + Len(x) + 2
  BY <1>2
<1>10. 48 \in Digit
  BY Characters
<1> HIDE DEF hex, e
<1> QED
  BY <1>1, <1>6, <1>7, <1>8, <1>9, <1>10

\* What stands in the first of two sequences stands in both together.
LEMMA StandsLonger ==
  ASSUME NEW T, NEW a \in Seq(T), NEW b \in Seq(T), NEW w, NEW of \in Nat, Len(w) \in Nat, Stands(w, a, of)
  PROVE  Stands(w, a \o b, of)
<1> DEFINE d == a \o b
           n == Len(w)
           la == Len(a)
           lb == Len(b)
           ld == Len(d)
<1>1. la \in Nat /\ lb \in Nat /\ ld = la + lb /\ \A i \in 1..la + lb : d[i] = IF i <= la THEN a[i] ELSE b[i - la]
  BY ConcatProperties
<1>2. n \in Nat /\ of + n <= la /\ \A i \in 1..n : a[of + i] = w[i]
  BY DEF Stands
<1> HIDE DEF d, n, la, lb, ld
<1>3. of + n <= ld
  BY <1>1, <1>2
<1>4. ASSUME NEW i \in 1..n PROVE d[of + i] = w[i]
  <2>1. of + i \in 1..la + lb /\ of + i <= la
    BY <1>1, <1>2
  <2> QED
    BY <1>1, <1>2, <2>1
<1> QED
  BY <1>3, <1>4 DEF Stands, d, n, ld

\* A number is printed in a base.
Base == IF job.hex THEN 16 ELSE 10

\* Every token is printed with a character at least.
LEMMA PrintIs ==
  ASSUME NEW t, TokenFits(t)
  PROVE  PrintToken(t) \in Seq(Int) /\ Len(PrintToken(t)) \in Nat /\ Len(PrintToken(t)) > 0
<1> DEFINE w == PrintToken(t)
<1>1. CASE t.type = "TEXT"
  <2>1. w = t.string /\ t.string \in Seq(Alpha) /\ t.string # <<>>
    BY <1>1 DEF PrintToken, TokenFits
  <2> HIDE DEF w
  <2> QED
    BY <2>1, Characters, SeqWider DEF w
<1>2. CASE t.type = "STR"
  <2> DEFINE x == t.string
             q == <<Quote>>
             n == Len(x)
             m == Len(q \o x)
             k == Len(q \o x \o q)
  <2>1. w = q \o x \o q /\ x \in Seq(Printable \ {Quote})
    BY <1>2 DEF PrintToken, TokenFits
  <2>2. q \in Seq(Int) /\ Len(q) = 1
    BY Characters
  <2> HIDE DEF x, q
  <2>3. x \in Seq(Int) /\ n \in Nat
    BY <2>1, Characters, SeqWider
  <2>4. q \o x \in Seq(Int) /\ m = Len(q) + n
    BY <2>2, <2>3, ConcatProperties
  <2>5. q \o x \o q \in Seq(Int) /\ k = m + Len(q)
    BY <2>2, <2>4, ConcatProperties
  <2> HIDE DEF n, m, k
  <2>6. k \in Nat /\ k > 0
    BY <2>2, <2>3, <2>4, <2>5
  <2> HIDE DEF w
  <2> QED
    BY <2>1, <2>5, <2>6 DEF w, k
<1>3. CASE t.type = "INT"
  <2> DEFINE x == Digits(t.integer, Base)
             h == <<48, 120>>
             n == Len(x)
             k == Len(h \o x)
  <2>1. t.integer \in Nat /\ Fits(4, t.integer)
    BY <1>3 DEF TokenFits, Fits
  <2>2. x \in Seq(Hex) /\ n \in Nat /\ n > 0
    BY <2>1, DigitsRead DEF Base
  <2>3. w = IF job.hex THEN h \o x ELSE x
    BY <1>3 DEF PrintToken, Base
  <2>4. h \in Seq(Int) /\ Len(h) = 2
    OBVIOUS
  <2> HIDE DEF x, h
  <2>5. x \in Seq(Int)
    BY <2>2, Characters, SeqWider
  <2>6. h \o x \in Seq(Int) /\ k = Len(h) + n
    BY <2>4, <2>5, ConcatProperties
  <2>7. k \in Nat /\ k > 0
    <3> HIDE DEF n, k
    <3> QED
      BY <2>2, <2>4, <2>6
  <2> HIDE DEF w
  <2> QED
    BY <2>2, <2>3, <2>5, <2>6, <2>7 DEF w
<1>4. t.type \in {"TEXT", "STR", "INT"}
  BY DEF TokenFits
<1> QED
  BY <1>1, <1>2, <1>3, <1>4

\* The lexer finds a printed token again and goes on behind it.
LEMMA TokenTaken ==
  ASSUME NEW line \in Seq(Int), NEW s \in Nat, s > 0, NEW t, TokenFits(t), TokenAt(PrintToken(t), line, s)
  PROVE  Starts(line, s) /\ Take(line, s) = [token |-> t, c |-> s + Len(PrintToken(t))]
<1> DEFINE w == PrintToken(t)
<1>1. CASE t.type = "TEXT"
  <2>1. w = t.string /\ t = Text(w) /\ w \in Seq(Alpha) /\ w # <<>> /\ Len(w) <= MaxStr
    BY <1>1 DEF PrintToken, TokenFits
  <2>2. TokenAt(w, line, s)
    OBVIOUS
  <2> HIDE DEF w
  <2>3. line[s] \in Alpha /\ Take(line, s) = [token |-> Text(w), c |-> s + Len(w)]
    BY <2>1, <2>2, WordTaken
  <2> QED
    BY <2>1, <2>3 DEF Starts, w
<1>2. CASE t.type = "STR"
  <2> DEFINE x == t.string
             q == <<Quote>>
             n == Len(x)
             m == Len(q \o x)
             k == Len(q \o x \o q)
  <2>1. w = q \o x \o q /\ x \in Seq(Printable \ {Quote}) /\ Len(x) <= MaxStr /\ t = Quoted(x)
    BY <1>2 DEF PrintToken, TokenFits
  <2>2. TokenAt(<<Quote>> \o x \o <<Quote>>, line, s)
    BY <2>1
  <2> HIDE DEF w, x
  <2>3. line[s] = Quote /\ Take(line, s) = [token |-> Quoted(x), c |-> s + n + 2]
    BY <2>1, <2>2, StringTaken
  <2>4. q \in Seq(Int) /\ Len(q) = 1
    BY Characters
  <2> HIDE DEF q
  <2>5. x \in Seq(Int) /\ n \in Nat
    BY <2>1, Characters, SeqWider
  <2>6. q \o x \in Seq(Int) /\ m = Len(q) + n
    BY <2>4, <2>5, ConcatProperties
  <2>7. k = m + Len(q)
    BY <2>4, <2>6, ConcatProperties
  <2>8. Len(w) = k
    BY <2>1
  <2>9. s + n + 2 = s + Len(w)
    <3> HIDE DEF n, m, k
    <3> QED
      BY <2>4, <2>5, <2>6, <2>7, <2>8
  <2> QED
    BY <2>1, <2>3, <2>9 DEF Starts, w
<1>3. CASE t.type = "INT"
  <2> DEFINE x == Digits(t.integer, Base)
             h == <<48, 120>>
             n == Len(x)
             k == Len(h \o x)
  <2>1. t.integer \in Nat /\ Fits(4, t.integer) /\ t = IntToken(t.integer)
    BY <1>3 DEF TokenFits, Fits
  <2>2. /\ x \in Seq(Hex) /\ n \in Nat /\ n > 0 /\ ValueOf(x, Base) = t.integer
        /\ Base = 10 => \A i \in 1..Len(x) : x[i] \in Digit
    BY <2>1, DigitsRead DEF Base
  <2>3. w = IF job.hex THEN h \o x ELSE x
    BY <1>3 DEF PrintToken, Base
  <2>4. TokenAt(w, line, s)
    OBVIOUS
  <2> HIDE DEF x, w
  <2>5. CASE job.hex
    <3>1. TokenAt(<<48, 120>> \o x, line, s) /\ Base = 16
      BY <2>3, <2>4, <2>5 DEF Base
    <3>2. line[s] \in Digit /\ Take(line, s) = [token |-> IntToken(ValueOf(x, 16)), c |-> s + n + 2]
      BY <2>2, <3>1, HexTaken
    <3>3. h \in Seq(Int) /\ Len(h) = 2
      OBVIOUS
    <3> HIDE DEF h
    <3>4. x \in Seq(Int)
      BY <2>2, Characters, SeqWider
    <3>5. k = Len(h) + n
      BY <3>3, <3>4, ConcatProperties
    <3>6. Len(w) = k
      BY <2>3, <2>5
    <3>7. s + n + 2 = s + Len(w)
      <4> HIDE DEF n, k
      <4> QED
        BY <2>2, <3>3, <3>5, <3>6
    <3> QED
      BY <2>1, <2>2, <3>1, <3>2, <3>7 DEF Starts, w
  <2>6. CASE ~job.hex
    <3>1. Base = 10 /\ w = x
      BY <2>3, <2>6 DEF Base
    <3>2. x = [i \in 1..n |-> x[i]] /\ \A i \in 1..n : x[i] \in Digit
      BY <2>2, <3>1
    <3>3. x \in Seq(Digit)
      BY <2>2, <3>2, IsSeq
    <3>4. x # <<>>
      BY <2>2
    <3>5. line[s] \in Digit /\ Take(line, s) = [token |-> IntToken(ValueOf(x, 10)), c |-> s + n]
      BY <2>4, <3>1, <3>3, <3>4, DecimalTaken
    <3> QED
      BY <2>1, <2>2, <3>1, <3>5 DEF Starts, w
  <2> QED
    BY <2>5, <2>6
<1>4. t.type \in {"TEXT", "STR", "INT"}
  BY DEF TokenFits
<1> QED
  BY <1>1, <1>2, <1>3, <1>4

\* The lexer at a position with these tokens.
LexAt(c, ts) == [c |-> c, tokens |-> ts, null |-> FALSE, beyond |-> FALSE, done |-> FALSE]

\* A character that starts a token ends a run of blanks.
LEMMA Starters == \A c \in Alpha \cup Digit \cup {Quote} : c \notin Blank /\ c # Nul
<1>1. \A c \in Alpha : c \notin Blank /\ c # Nul
  BY DEF Alpha, Blank, Nul
<1>2. \A c \in Digit : c \notin Blank /\ c # Nul
  BY DEF Digit, Blank, Nul
<1>3. Quote \notin Blank /\ Quote # Nul
  BY DEF Quote, Blank, Nul
<1> QED
  BY <1>1, <1>2, <1>3

\* A token of a line is at a position, or behind the blank there.
Ready(line, c, b, t) ==
  /\ c \in Nat /\ c > 0 /\ b \in {0, 1} /\ (b = 1 => line[c] = 32)
  /\ TokenFits(t) /\ TokenAt(PrintToken(t), line, c + b)

\* A turn skips the blank in front of a token and takes the token.
LEMMA TurnIs ==
  ASSUME NEW line \in Seq(Int), NEW c, NEW b, NEW t, Ready(line, c, b, t),
         NEW ts, Len(ts) \in Nat, Len(ts) < MaxTok
  PROVE  LexTurn(line, LexAt(c, ts)) = LexAt(c + b + Len(PrintToken(t)), Append(ts, t))
<1> DEFINE s == c + b
           n == Len(PrintToken(t))
           e == s + n
           lex == LexAt(c, ts)
           next == Take(line, s)
<1>1. /\ c \in Nat /\ c > 0 /\ b \in {0, 1} /\ (b = 1 => line[c] = 32)
      /\ TokenFits(t) /\ TokenAt(PrintToken(t), line, c + b)
  BY DEF Ready
<1>2. s \in Nat /\ s > 0 /\ c <= s
  BY <1>1
<1>3. n \in Nat /\ n > 0
  BY <1>1, PrintIs
<1> HIDE DEF n
<1>4. e <= Len(line) /\ s <= Len(line) /\ Len(line) \in Nat
  <2>1. s + Len(PrintToken(t)) <= Len(line)
    BY <1>1 DEF TokenAt
  <2>2. Len(line) \in Nat
    OBVIOUS
  <2> QED
    BY <1>2, <1>3, <2>1, <2>2 DEF n
<1>5. Starts(line, s) /\ next = [token |-> t, c |-> e]
  <2> HIDE DEF s
  <2>1. TokenAt(PrintToken(t), line, s)
    BY <1>1 DEF s
  <2> QED
    BY <1>1, <1>2, <2>1, TokenTaken DEF n
<1>6. line[s] \notin Blank /\ line[s] # Nul
  BY <1>5, Starters DEF Starts
<1>7. line[c] # Nul /\ \A j \in c..s - 1 : line[j] \in Blank
  <2>1. CASE b = 0
    BY <1>1, <1>6, <2>1
  <2>2. CASE b = 1
    BY <1>1, <2>2 DEF Nul, Blank
  <2> QED
    BY <1>1, <2>1, <2>2
<1> HIDE DEF s
<1>8. After(line, c, Blank) = s
  BY <1>1, <1>2, <1>4, <1>6, <1>7, AfterIs
<1>9. /\ lex.c = c /\ lex.tokens = ts /\ ~lex.done
  BY DEF LexAt
<1> HIDE DEF lex, next
<1>10. LexTurn(line, lex) =
        [c |-> next.c, tokens |-> Append(ts, next.token), null |-> Len(ts) >= MaxTok,
         beyond |-> next.c > Len(line), done |-> Len(ts) >= MaxTok \/ next.c > Len(line)]
  BY <1>5, <1>7, <1>8, <1>9 DEF LexTurn, next
<1>11. next.c = e /\ next.token = t
  BY <1>5
<1>12. (Len(ts) >= MaxTok) = FALSE /\ (e > Len(line)) = FALSE
  BY <1>2, <1>3, <1>4, TokensAssumption
<1> QED
  BY <1>10, <1>11, <1>12 DEF LexAt, lex, s, n

\* At the end it stays.
LEMMA EndIs ==
  ASSUME NEW line, NEW c, NEW ts, line[c] = Nul
  PROVE  LexTurn(line, LexAt(c, ts)) = LexAt(c, ts)
<1> DEFINE lex == LexAt(c, ts)
<1>1. lex.c = c
  BY DEF LexAt
<1> HIDE DEF lex
<1>2. line[lex.c] = Nul
  BY <1>1
<1>3. LexTurn(line, lex) = lex
  BY <1>2 DEF LexTurn
<1> QED
  BY <1>3 DEF lex

\* How a line is laid out: "off" are the ends of the tokens.
LaidOut(line, tokens, off) ==
  /\ off \in [0..Len(tokens) -> Nat] /\ off[0] = 0
  /\ off[Len(tokens)] + 1 = Len(line) /\ line[Len(line)] = Nul
  /\ \A i \in 1..Len(tokens) :
       LET b == IF i > 1 THEN 1 ELSE 0
       IN  /\ off[i] = off[i - 1] + b + Len(PrintToken(tokens[i]))
           /\ b = 1 => line[off[i - 1] + 1] = 32
           /\ TokenAt(PrintToken(tokens[i]), line, off[i - 1] + 1 + b)
CommandLine(tokens) ==
  /\ Len(tokens) \in Nat \ {0} /\ tokens = [i \in 1..Len(tokens) |-> tokens[i]]
  /\ \A i \in 1..Len(tokens) : TokenFits(tokens[i])

\* A printed line holds its tokens, one blank between them and a NUL at its end.
LEMMA LineIs ==
  ASSUME NEW tokens, CommandLine(tokens), job.behind = <<>>
  PROVE  PrintLine(tokens) \in Seq(Int) /\ \E off : LaidOut(PrintLine(tokens), tokens, off)
<1> DEFINE n == Len(tokens)
           front(i) == IF i > 1 THEN <<32>> ELSE <<>>
           w(i) == PrintToken(tokens[i])
           parts == [i \in 1..n |-> (IF i > 1 THEN <<32>> ELSE <<>>) \o PrintToken(tokens[i])]
           flat == FlattenSeq(parts)
           end == <<Nul>>
           line == PrintLine(tokens)
<1>1. n \in Nat /\ n > 0 /\ \A i \in 1..n : w(i) \in Seq(Int) /\ Len(w(i)) \in Nat /\ Len(w(i)) > 0
  BY PrintIs DEF CommandLine
<1>2. ASSUME NEW i \in 1..n
      PROVE  front(i) \in Seq(Int) /\ Len(front(i)) = IF i > 1 THEN 1 ELSE 0
  OBVIOUS
<1>3. ASSUME NEW i \in 1..n
      PROVE  /\ parts[i] = front(i) \o w(i) /\ parts[i] \in Seq(Int)
             /\ Len(parts[i]) = Len(front(i)) + Len(w(i))
  <2>1. parts[i] = front(i) \o w(i)
    OBVIOUS
  <2>2. front(i) \in Seq(Int) /\ w(i) \in Seq(Int)
    BY <1>1, <1>2
  <2> HIDE DEF parts, front, w
  <2> QED
    BY <2>1, <2>2, ConcatProperties
<1>4. parts = [i \in 1..n |-> parts[i]]
  OBVIOUS
<1>5. line = flat \o <<>> \o end
  BY DEF PrintLine
<1>6. end \in Seq(Int) /\ Len(end) = 1 /\ end[1] = Nul
  BY DEF Nul
<1> HIDE DEF parts, flat, end, line, n, w, front
<1>7. parts \in Seq(Seq(Int)) /\ Len(parts) = n
  <2>1. \A i \in 1..n : parts[i] \in Seq(Int)
    BY <1>3
  <2> QED
    BY <1>1, <1>4, <2>1, IsSeq
<1>8. flat \in Seq(Int)
  BY <1>7, PartsStand DEF flat
<1>9. line = flat \o end
  <2>1. flat \o <<>> = flat
    BY <1>8, ConcatEmptySeq
  <2> QED
    BY <1>5, <2>1
<1> DEFINE lf == Len(flat)
           ll == Len(line)
<1>10. line \in Seq(Int) /\ ll = lf + Len(end) /\ lf \in Nat /\ ll \in Nat /\ ll = lf + 1
  <2>1. flat \o end \in Seq(Int) /\ Len(flat \o end) = Len(flat) + Len(end)
    BY <1>6, <1>8, ConcatProperties, Zenon
  <2>2. line \in Seq(Int) /\ ll = lf + Len(end)
    BY <1>9, <2>1
  <2>3. lf \in Nat
    BY <1>8
  <2> HIDE DEF ll, lf
  <2> QED
    BY <1>6, <2>2, <2>3
<1>11. line[ll] = Nul
  <2>1. Stands(end, line, lf)
    <3>1. Stands(line, line, 0)
      BY <1>10, StandsWhole
    <3>2. Stands(flat \o end, line, 0)
      BY <1>9, <3>1
    <3> QED
      BY <1>6, <1>8, <1>10, <3>2, StandsBegin
  <2> HIDE DEF ll, lf
  <2>2. line[lf + 1] = end[1]
    BY <1>6, <1>10, <2>1 DEF Stands
  <2> QED
    BY <1>6, <1>10, <2>2
<1>12. PICK off : Places(off, parts)
  BY <1>7, PartsStand
<1>13. /\ off \in [0..n -> Nat] /\ off[0] = 0 /\ off[n] = lf
       /\ \A i \in 1..n : off[i] = off[i - 1] + Len(parts[i]) /\ Stands(parts[i], flat, off[i - 1])
  BY <1>7, <1>12 DEF Places, flat
<1> HIDE DEF ll, lf
<1>14. ASSUME NEW i \in 1..n
       PROVE  /\ off[i - 1] \in Nat /\ off[i] \in Nat
              /\ off[i] = off[i - 1] + Len(front(i)) + Len(w(i))
              /\ Stands(front(i), line, off[i - 1])
              /\ Stands(w(i), line, off[i - 1] + Len(front(i)))
              /\ off[i] <= lf
  <2>1. off[i - 1] \in Nat /\ off[i] \in Nat
    BY <1>1, <1>13
  <2>2. /\ off[i] = off[i - 1] + Len(parts[i]) /\ Stands(parts[i], flat, off[i - 1])
        /\ parts[i] = front(i) \o w(i) /\ parts[i] \in Seq(Int) /\ front(i) \in Seq(Int)
        /\ Len(parts[i]) = Len(front(i)) + Len(w(i)) /\ w(i) \in Seq(Int) /\ Len(parts[i]) \in Nat
    <3>1. off[i] = off[i - 1] + Len(parts[i]) /\ Stands(parts[i], flat, off[i - 1])
      BY <1>13
    <3>2. parts[i] = front(i) \o w(i) /\ parts[i] \in Seq(Int) /\ Len(parts[i]) = Len(front(i)) + Len(w(i))
      BY <1>3
    <3>3. front(i) \in Seq(Int) /\ w(i) \in Seq(Int)
      BY <1>1, <1>2
    <3>4. Len(parts[i]) \in Nat
      BY <3>2
    <3> QED
      BY <3>1, <3>2, <3>3, <3>4
  <2>3. Stands(parts[i], line, off[i - 1])
    BY <1>6, <1>8, <1>9, <2>1, <2>2, StandsLonger
  <2>4. Stands(front(i) \o w(i), line, off[i - 1])
    BY <2>2, <2>3
  <2>5. Stands(front(i), line, off[i - 1]) /\ Stands(w(i), line, off[i - 1] + Len(front(i)))
    BY <1>10, <2>1, <2>2, <2>4, StandsParts
  <2>6. off[i] <= lf
    BY <2>1, <2>2 DEF Stands, lf
  <2> DEFINE l == Len(front(i))
             m == Len(w(i))
  <2>7. off[i] = off[i - 1] + (l + m) /\ l \in Nat /\ m \in Nat
    BY <2>2
  <2> HIDE DEF l, m
  <2>8. off[i] = off[i - 1] + l + m
    BY <2>1, <2>7
  <2> QED
    BY <2>1, <2>5, <2>6, <2>8 DEF l, m
<1>15. ASSUME NEW i \in 1..n, i > 1 PROVE line[off[i - 1] + 1] = 32
  <2>1. front(i) = <<32>> /\ Len(front(i)) = 1 /\ front(i)[1] = 32
    BY <1>15 DEF front
  <2>2. Stands(front(i), line, off[i - 1]) /\ 1 \in 1..Len(front(i))
    BY <1>14, <2>1
  <2>3. line[off[i - 1] + 1] = front(i)[1]
    BY <2>2 DEF Stands
  <2> QED
    BY <2>1, <2>3
<1>16. ASSUME NEW i \in 1..n
       PROVE  LET b == IF i > 1 THEN 1 ELSE 0
              IN  /\ off[i] = off[i - 1] + b + Len(w(i))
                  /\ b = 1 => line[off[i - 1] + 1] = 32
                  /\ TokenAt(w(i), line, off[i - 1] + 1 + b)
  <2> DEFINE b == IF i > 1 THEN 1 ELSE 0
             l == Len(w(i))
  <2>1. b = Len(front(i)) /\ b \in {0, 1} /\ (b = 1 => i > 1)
    BY <1>2
  <2>2. off[i] = off[i - 1] + b + l /\ Stands(w(i), line, off[i - 1] + b) /\ off[i - 1] \in Nat /\ off[i] <= lf
    BY <1>14, <2>1
  <2>3. b = 1 => line[off[i - 1] + 1] = 32
    BY <1>15, <2>1
  <2>4. l \in Nat
    BY <1>1
  <2> HIDE DEF b, l
  <2>5. /\ off[i - 1] + 1 + b - 1 = off[i - 1] + b
        /\ off[i - 1] + 1 + b + l = off[i] + 1
    <3> DEFINE p == off[i - 1]
               e == off[i]
    <3>1. e = p + b + l /\ p \in Nat /\ e \in Nat /\ b \in Int /\ l \in Nat
      BY <1>14, <2>1, <2>2, <2>4
    <3> HIDE DEF p, e
    <3>2. p + 1 + b - 1 = p + b /\ p + 1 + b + l = e + 1
      BY <3>1
    <3> QED
      BY <3>2 DEF p, e
  <2>6. off[i] + 1 <= ll
    BY <1>10, <1>14, <2>2
  <2>7. line[off[i] + 1] \in {32, 0}
    <3>1. CASE i = n
      BY <1>10, <1>11, <1>13, <3>1 DEF Nul
    <3>2. CASE i # n
      <4>1. i + 1 \in 1..n /\ i + 1 > 1 /\ (i + 1) - 1 = i
        BY <1>1, <3>2
      <4>2. line[off[(i + 1) - 1] + 1] = 32
        BY <1>15, <4>1
      <4> QED
        BY <4>1, <4>2
    <3> QED
      BY <3>1, <3>2
  <2>8. TokenAt(w(i), line, off[i - 1] + 1 + b)
    <3> DEFINE s == off[i - 1] + 1 + b
    <3>1. s - 1 = off[i - 1] + b /\ s + l = off[i] + 1
      <4> DEFINE p == off[i - 1]
                 e == off[i]
      <4>1. s = p + 1 + b /\ e = p + b + l /\ p \in Nat /\ e \in Nat /\ b \in Int /\ l \in Nat
        BY <1>14, <2>1, <2>2, <2>4
      <4> HIDE DEF p, e, s
      <4>2. s - 1 = p + b /\ s + l = e + 1
        BY <4>1
      <4> QED
        BY <4>2 DEF p, e
    <3> HIDE DEF s
    <3>2. Stands(w(i), line, s - 1) /\ s + l <= ll /\ line[s + l] \in {32, 0}
      BY <2>2, <2>6, <2>7, <3>1
    <3> QED
      BY <3>2 DEF TokenAt, l, ll, s
  <2> QED
    BY <2>2, <2>3, <2>8 DEF b, l
<1>17. LaidOut(line, tokens, off)
  BY <1>10, <1>11, <1>13, <1>16 DEF LaidOut, n, w, ll
<1> QED
  BY <1>10, <1>17 DEF line

\* The first tokens of a line.
FirstTokens(tokens, k) == [j \in 1..k |-> tokens[j]]

\* One token more makes the next beginning.
LEMMA OneMoreToken ==
  ASSUME NEW tokens, NEW k \in Nat
  PROVE  /\ Append(FirstTokens(tokens, k), tokens[k + 1]) = FirstTokens(tokens, k + 1)
         /\ Len(FirstTokens(tokens, k)) = k
<1> DEFINE T == {tokens[j] : j \in 1..k + 1}
           a == FirstTokens(tokens, k)
           b == FirstTokens(tokens, k + 1)
<1>1. a = [j \in 1..k |-> a[j]] /\ \A j \in 1..k : a[j] = tokens[j] /\ a[j] \in T
  BY DEF FirstTokens
<1>2. b = [j \in 1..k + 1 |-> b[j]] /\ \A j \in 1..k + 1 : b[j] = tokens[j] /\ b[j] \in T
  BY DEF FirstTokens
<1>3. tokens[k + 1] \in T
  OBVIOUS
<1> HIDE DEF T, a, b
<1>4. a \in Seq(T) /\ Len(a) = k
  BY <1>1, IsSeq
<1>5. b \in Seq(T) /\ Len(b) = k + 1
  BY <1>2, IsSeq
<1> DEFINE c == Append(a, tokens[k + 1])
<1>6. /\ c \in Seq(T) /\ Len(c) = k + 1
      /\ \A j \in 1..k + 1 : c[j] = IF j <= k THEN a[j] ELSE tokens[k + 1]
  BY <1>3, <1>4, AppendProperties
<1>7. \A j \in 1..k + 1 : c[j] = b[j]
  <2> HIDE DEF c
  <2> SUFFICES ASSUME NEW j \in 1..k + 1 PROVE c[j] = b[j]
    OBVIOUS
  <2>1. CASE j <= k
    BY <1>1, <1>2, <1>6, <2>1
  <2>2. CASE ~(j <= k)
    <3>1. j = k + 1
      BY <2>2
    <3> QED
      BY <1>2, <1>6, <2>2, <3>1
  <2> QED
    BY <2>1, <2>2
<1> HIDE DEF c
<1>8. c = b
  BY <1>5, <1>6, <1>7, SeqEqual
<1> QED
  BY <1>4, <1>8 DEF a, b, c

\* A printed line is lexed into its tokens, one in each turn.
LEMMA LexIs ==
  ASSUME NEW tokens, CommandLine(tokens), Len(tokens) <= MaxTok, job.behind = <<>>
  PROVE  Lex(PrintLine(tokens)) = LexAt(Len(PrintLine(tokens)), tokens)
<1> DEFINE line == PrintLine(tokens)
           N == Len(line)
           n == Len(tokens)
<1>1. line \in Seq(Int) /\ N \in Nat /\ n \in Nat /\ n > 0 /\ n <= MaxTok
      /\ tokens = [i \in 1..n |-> tokens[i]] /\ \A i \in 1..n : TokenFits(tokens[i])
  <2>1. line \in Seq(Int)
    BY LineIs
  <2> HIDE DEF line
  <2> QED
    BY <2>1 DEF CommandLine
<1>2. PICK off : LaidOut(line, tokens, off)
  BY LineIs
<1> DEFINE D(g) == g = [i \in 0..N |-> IF i = 0 THEN LexAt(1, <<>>) ELSE LexTurn(line, g[i - 1])]
           c == CHOOSE g : D(g)
           S(k) == LexAt(off[k] + 1, FirstTokens(tokens, k))
           v == [i \in 0..N |-> IF i <= n THEN S(i) ELSE S(n)]
<1>3. Lex(line) = c[N]
  BY DEF Lex, LexAt
<1> HIDE DEF line, N, n
<1>4. /\ off \in [0..n -> Nat] /\ off[0] = 0 /\ off[n] + 1 = N /\ line[N] = Nul
      /\ \A i \in 1..n :
           LET b == IF i > 1 THEN 1 ELSE 0
           IN  /\ off[i] = off[i - 1] + b + Len(PrintToken(tokens[i]))
               /\ b = 1 => line[off[i - 1] + 1] = 32
               /\ TokenAt(PrintToken(tokens[i]), line, off[i - 1] + 1 + b)
  BY <1>2 DEF LaidOut, N, n
<1>5. ASSUME NEW i \in 1..n
      PROVE  LexTurn(line, S(i - 1)) = S(i) /\ off[i - 1] < off[i]
  <2> DEFINE b == IF i > 1 THEN 1 ELSE 0
             p == off[i - 1] + 1
             t == tokens[i]
             l == Len(PrintToken(t))
             ts == FirstTokens(tokens, i - 1)
  <2>1. i - 1 \in Nat /\ (i - 1) + 1 = i /\ i - 1 < MaxTok /\ i - 1 \in 0..n /\ i \in 0..n
    BY <1>1, TokensAssumption
  <2>2. Len(ts) = i - 1 /\ Append(ts, t) = FirstTokens(tokens, i)
    BY <2>1, OneMoreToken
  <2>3. TokenFits(t) /\ l \in Nat /\ l > 0
    BY <1>1, PrintIs
  <2>4. b \in {0, 1} /\ p \in Nat /\ p > 0 /\ off[i - 1] \in Nat
    BY <1>4, <2>1
  <2>5. (b = 1 => line[p] = 32) /\ TokenAt(PrintToken(t), line, p + b)
    BY <1>4
  <2>6. off[i] = off[i - 1] + b + l
    BY <1>4
  <2> HIDE DEF b, p, ts, t
  <2>7. LexTurn(line, LexAt(p, ts)) = LexAt(p + b + Len(PrintToken(t)), Append(ts, t))
    <3>1. Len(ts) \in Nat /\ Len(ts) < MaxTok
      BY <2>1, <2>2
    <3>2. Ready(line, p, b, t)
      BY <2>3, <2>4, <2>5 DEF Ready
    <3> HIDE DEF S, v, D, c, l
    <3> QED
      BY <1>1, <3>1, <3>2, TurnIs
  <2> HIDE DEF l
  <2>8. p + b + l = off[i] + 1 /\ off[i - 1] < off[i]
    BY <2>3, <2>4, <2>6 DEF p
  <2>9. LexTurn(line, LexAt(p, ts)) = LexAt(off[i] + 1, FirstTokens(tokens, i))
    BY <2>2, <2>7, <2>8 DEF l
  <2> QED
    BY <2>8, <2>9 DEF p, ts
<1> DEFINE R == {k \in 0..n : off[k] >= k}
<1>6. n <= N
  <2>1. 0 \in R
    BY <1>1, <1>4
  <2>2. ASSUME NEW k \in 0..n - 1, k \in R PROVE k + 1 \in R
    <3>1. k + 1 \in 1..n /\ (k + 1) - 1 = k /\ k + 1 \in 0..n /\ k \in 0..n
      BY <1>1
    <3>2. off[k] < off[k + 1]
      BY <1>5, <3>1
    <3>3. off[k] \in Nat /\ off[k + 1] \in Nat /\ off[k] >= k
      BY <1>4, <2>2, <3>1
    <3> QED
      BY <3>1, <3>2, <3>3
  <2> HIDE DEF R
  <2>3. \A k \in 0..n : k \in R
    BY <1>1, <2>1, <2>2, UpTo
  <2>4. n \in 0..n
    BY <1>1
  <2>5. off[n] >= n /\ off[n] \in Nat
    BY <1>4, <2>3, <2>4 DEF R
  <2> QED
    BY <1>1, <1>4, <2>5
<1>7. LexTurn(line, S(n)) = S(n)
  <2>1. line[off[n] + 1] = Nul
    BY <1>4
  <2> QED
    BY <2>1, EndIs
<1>8. S(0) = LexAt(1, <<>>) /\ S(n) = LexAt(N, tokens)
  <2>1. FirstTokens(tokens, 0) = <<>> /\ FirstTokens(tokens, n) = tokens
    BY <1>1 DEF FirstTokens
  <2>2. off[0] + 1 = 1 /\ off[n] + 1 = N
    BY <1>4
  <2> QED
    BY <2>1, <2>2
<1> HIDE DEF c
<1>9. ASSUME NEW i \in 0..N PROVE v[i] = IF i = 0 THEN LexAt(1, <<>>) ELSE LexTurn(line, v[i - 1])
  <2> DEFINE s(k) == S(k)
  <2>1. v[i] = IF i <= n THEN s(i) ELSE s(n)
    OBVIOUS
  <2>2. i # 0 => v[i - 1] = IF i - 1 <= n THEN s(i - 1) ELSE s(n)
    <3>1. i # 0 => i - 1 \in 0..N
      BY <1>1
    <3> QED
      BY <3>1
  <2>3. /\ \A k \in 1..n : LexTurn(line, s(k - 1)) = s(k)
        /\ LexTurn(line, s(n)) = s(n) /\ s(0) = LexAt(1, <<>>)
    BY <1>5, <1>7, <1>8
  <2> HIDE DEF s, v, S
  <2>4. CASE i = 0
    BY <1>1, <2>1, <2>3, <2>4
  <2>5. CASE i \in 1..n
    BY <1>1, <2>1, <2>2, <2>3, <2>5
  <2>6. CASE i # 0 /\ i \notin 1..n
    <3>1. ~(i <= n) /\ v[i - 1] = s(n)
      BY <1>1, <2>2, <2>6
    <3> QED
      BY <2>1, <2>3, <2>6, <3>1
  <2> QED
    BY <2>4, <2>5, <2>6
<1>10. D(v)
  BY <1>9
<1>11. D(c)
  BY <1>10 DEF c
<1>12. v[N] = S(n) /\ v[0] = LexAt(1, <<>>)
  <2>1. N \in 0..N /\ 0 \in 0..N /\ (N <= n => N = n)
    BY <1>1, <1>6
  <2>2. v[N] = S(n)
    BY <2>1
  <2> QED
    BY <1>9, <2>1, <2>2
<1> HIDE DEF v, S
<1>13. c[0] = v[0]
  <2>1. 0 \in 0..N
    BY <1>1
  <2> QED
    BY <1>11, <1>12, <2>1
<1>14. ASSUME NEW k \in 0..N - 1, c[k] = v[k] PROVE c[k + 1] = v[k + 1]
  <2>1. k + 1 \in 0..N /\ k + 1 # 0 /\ (k + 1) - 1 = k
    BY <1>1
  <2>2. c[k + 1] = LexTurn(line, c[k])
    BY <1>11, <2>1
  <2>3. v[k + 1] = LexTurn(line, v[k])
    BY <1>9, <2>1
  <2> QED
    BY <1>14, <2>2, <2>3
<1> HIDE DEF D
<1>15. c[N] = v[N]
  <2>1. \A k \in 0..N : c[k] = v[k]
    BY <1>1, <1>13, <1>14, Alike
  <2>2. N \in 0..N
    BY <1>1
  <2> QED
    BY <2>1, <2>2
<1> QED
  BY <1>3, <1>8, <1>12, <1>15 DEF line, N

\* The arguments of a line and the strings among them.
Arglist(args, types) ==
  /\ Len(args) \in Nat /\ args = [i \in 1..Len(args) |-> args[i]] /\ Fits(4, Len(args))
  /\ \A i \in 1..Len(args) : TokenFits(args[i]) /\ args[i].type \in types

\* A choice of tokens that fit is one, and an empty choice leaves none.
LEMMA WhichFit ==
  ASSUME NEW tokens, Arglist(tokens, {"TEXT", "INT", "STR"}), NEW types
  PROVE  /\ Arglist(Which(tokens, types), types)
         /\ Which(tokens, types) = <<>> => \A i \in 1..Len(tokens) : tokens[i].type \notin types
<1> DEFINE n == Len(tokens)
           T == {tokens[i] : i \in 1..n}
           U == {t \in T : t.type \in types}
           w == Which(tokens, types)
           k == Len(w)
<1>1. n \in Nat /\ tokens = [i \in 1..n |-> tokens[i]] /\ Fits(4, n) /\ \A i \in 1..n : TokenFits(tokens[i])
  BY DEF Arglist
<1>2. \A t \in T : TokenFits(t)
  BY <1>1
<1>3. \A i \in 1..n : tokens[i] \in T
  OBVIOUS
<1> HIDE DEF n, T
<1>4. tokens \in Seq(T)
  BY <1>1, <1>3, IsSeq
<1>5. w \in Seq(U) /\ k \in Nat /\ k <= n /\ (w = <<>> => \A i \in 1..n : tokens[i].type \notin types)
  BY <1>4, WhichIs DEF n
<1> HIDE DEF w
<1>6. w = [i \in 1..k |-> w[i]] /\ \A i \in 1..k : w[i] \in U
  BY <1>5
<1>7. Fits(4, k)
  <2> HIDE DEF k
  <2> QED
    BY <1>1, <1>5, SMT DEF Fits
<1>8. Arglist(w, types)
  BY <1>2, <1>5, <1>6, <1>7 DEF Arglist
<1> QED
  BY <1>5, <1>8 DEF w, n

\* What is packed of a line fits; without strings it is numbers only.
LEMMA ArgumentsFit ==
  ASSUME NEW tokens, CommandLine(tokens), Fits(4, Len(tokens))
  PROVE  /\ Arglist(Arguments(tokens), {"INT", "STR"}) /\ Arglist(Strings(tokens), {"STR"})
         /\ Strings(tokens) = <<>> => Arglist(Arguments(tokens), {"INT"})
<1> DEFINE n == Len(tokens)
           T == {tokens[i] : i \in 1..n}
           rest == Tail(tokens)
           args == Arguments(tokens)
           k == Len(rest)
<1>1. n \in Nat /\ n > 0 /\ tokens = [i \in 1..n |-> tokens[i]] /\ Fits(4, n) /\ \A i \in 1..n : TokenFits(tokens[i])
  BY DEF CommandLine
<1>2. \A t \in T : TokenFits(t)
  BY <1>1
<1>3. \A i \in 1..n : tokens[i] \in T
  OBVIOUS
<1> HIDE DEF n, T
<1>4. tokens \in Seq(T) /\ Len(tokens) = n
  BY <1>1, <1>3, IsSeq
<1>5. tokens # <<>>
  BY <1>1, <1>4
<1>6. rest \in Seq(T) /\ k = n - 1
  BY <1>4, <1>5, HeadTailProperties
<1> HIDE DEF rest
<1>7. k \in Nat /\ rest = [i \in 1..k |-> rest[i]] /\ \A i \in 1..k : rest[i] \in T
  BY <1>6
<1>8. Fits(4, k)
  <2> HIDE DEF k
  <2> QED
    BY <1>1, <1>6, <1>7, SMT DEF Fits
<1>9. Arglist(rest, {"TEXT", "INT", "STR"})
  BY <1>2, <1>7, <1>8 DEF Arglist, TokenFits
<1>10. args = Which(rest, {"INT", "STR"}) /\ Strings(tokens) = Which(args, {"STR"})
  BY DEF Arguments, Strings, rest
<1> HIDE DEF args
<1>11. Arglist(args, {"INT", "STR"})
  BY <1>9, <1>10, WhichFit
<1>12. Arglist(args, {"TEXT", "INT", "STR"})
  BY <1>11 DEF Arglist
<1>13. /\ Arglist(Which(args, {"STR"}), {"STR"})
       /\ Which(args, {"STR"}) = <<>> => \A i \in 1..Len(args) : args[i].type \notin {"STR"}
  BY <1>12, WhichFit
<1>14. Strings(tokens) = <<>> => Arglist(args, {"INT"})
  BY <1>10, <1>11, <1>13 DEF Arglist
<1> QED
  BY <1>10, <1>11, <1>13, <1>14 DEF args

\* Five numbers behind one another.
Five(a, b, f) == Le(4, a) \o Le(4, b) \o Le(4, 0) \o Le(4, 0) \o Le(4, f)

\* Each is read back from its place.
LEMMA FiveNumbers ==
  ASSUME NEW a, NEW b, NEW f, Fits(4, a), Fits(4, b), Fits(4, f)
  PROVE  /\ Five(a, b, f) \in Seq(Int) /\ Len(Five(a, b, f)) = 20
         /\ \A d \in Seq(Int) : \A of \in Nat :
              Stands(Five(a, b, f), d, of) =>
                Unsigned(d, of, 4) = a /\ Unsigned(d, of + 4, 4) = b /\ Unsigned(d, of + 16, 4) = f
<1> DEFINE p(v) == Le(4, v)
           c == 0
           e == 0
           w2 == p(a) \o p(b)
           w3 == w2 \o p(c)
           w4 == w3 \o p(e)
           w5 == w4 \o p(f)
<1>1. a \in Int /\ b \in Int /\ c \in Int /\ e \in Int /\ f \in Int
  BY SMT DEF Fits
<1>2. \A v \in Int : p(v) \in Seq(Int) /\ Len(p(v)) = 4
  <2> SUFFICES ASSUME NEW v \in Int PROVE p(v) \in Seq(Int) /\ Len(p(v)) = 4
    OBVIOUS
  <2>1. 4 \in 1..8
    OBVIOUS
  <2> QED
    BY <2>1, LeBytes
<1>3. Five(a, b, f) = w5
  BY DEF Five
<1> HIDE DEF p, c, e
<1>4. p(a) \in Seq(Int) /\ p(b) \in Seq(Int) /\ p(c) \in Seq(Int) /\ p(e) \in Seq(Int) /\ p(f) \in Seq(Int)
  BY <1>1, <1>2
<1>5. Len(p(a)) = 4 /\ Len(p(b)) = 4 /\ Len(p(c)) = 4 /\ Len(p(e)) = 4 /\ Len(p(f)) = 4
  BY <1>1, <1>2
<1>6. w2 \in Seq(Int) /\ Len(w2) = 8
  <2>1. w2 \in Seq(Int) /\ Len(w2) = Len(p(a)) + Len(p(b))
    BY <1>4, ConcatProperties
  <2> HIDE DEF w2
  <2> QED
    BY <1>5, <2>1
<1> HIDE DEF w2
<1>7. w3 \in Seq(Int) /\ Len(w3) = 12
  <2>1. w3 \in Seq(Int) /\ Len(w3) = Len(w2) + Len(p(c))
    BY <1>4, <1>6, ConcatProperties
  <2> HIDE DEF w3
  <2> QED
    BY <1>5, <1>6, <2>1
<1> HIDE DEF w3
<1>8. w4 \in Seq(Int) /\ Len(w4) = 16
  <2>1. w4 \in Seq(Int) /\ Len(w4) = Len(w3) + Len(p(e))
    BY <1>4, <1>7, ConcatProperties
  <2> HIDE DEF w4
  <2> QED
    BY <1>5, <1>7, <2>1
<1> HIDE DEF w4
<1>9. w5 \in Seq(Int) /\ Len(w5) = 20
  <2>1. w5 \in Seq(Int) /\ Len(w5) = Len(w4) + Len(p(f))
    BY <1>4, <1>8, ConcatProperties
  <2> HIDE DEF w5
  <2> QED
    BY <1>5, <1>8, <2>1
<1>10. ASSUME NEW d \in Seq(Int), NEW of \in Nat, Stands(w5, d, of)
       PROVE  Unsigned(d, of, 4) = a /\ Unsigned(d, of + 4, 4) = b /\ Unsigned(d, of + 16, 4) = f
  <2>1. Stands(w4, d, of) /\ Stands(p(f), d, of + 16)
    BY <1>4, <1>8, <1>10, StandsParts
  <2>2. Stands(w3 \o p(e), d, of)
    BY <2>1 DEF w4
  <2>3. Stands(w3, d, of)
    BY <1>4, <1>7, <2>2, StandsParts
  <2>4. Stands(w2 \o p(c), d, of)
    BY <2>3 DEF w3
  <2>5. Stands(w2, d, of)
    BY <1>4, <1>6, <2>4, StandsParts
  <2>6. Stands(p(a) \o p(b), d, of)
    BY <2>5 DEF w2
  <2>7. Stands(p(a), d, of) /\ Stands(p(b), d, of + 4)
    BY <1>4, <1>5, <2>6, StandsParts
  <2>8. of + 4 \in Nat /\ of + 16 \in Nat /\ 4 \in {1, 2, 3, 4, 8}
    OBVIOUS
  <2>9. Stands(Le(4, a), d, of) /\ Stands(Le(4, b), d, of + 4) /\ Stands(Le(4, f), d, of + 16)
    BY <2>1, <2>7 DEF p
  <2> QED
    BY <2>8, <2>9, ReadsNumber
<1> HIDE DEF w5
<1> QED
  BY <1>3, <1>9, <1>10

\* A parameter has 20 bytes, from which its argument is read.
LEMMA ParamIs ==
  ASSUME NEW t, TokenFits(t), t.type \in {"INT", "STR"}
  PROVE  /\ Param(t) \in Seq(Int) /\ Len(Param(t)) = 20
         /\ \A d \in Seq(Int) : \A of \in Nat :
              Stands(Param(t), d, of) =>
                /\ ReadsParam(d, of, t)
                /\ t.type = "INT" => DecodeParam(d, of) = [token |-> t, of |-> of + 20]
<1>1. Fits(4, TokInt) /\ Fits(4, TokStr) /\ Fits(4, 0)
  BY SMT DEF Fits, TokInt, TokStr
<1>2. CASE t.type = "INT"
  <2> DEFINE v == t.integer
             w == Five(TokInt, v, 0)
  <2>1. Fits(4, v) /\ t = IntToken(v)
    BY <1>2 DEF TokenFits
  <2>2. Param(t) = w
    BY <1>2 DEF Param, Five
  <2> HIDE DEF v
  <2>3. /\ w \in Seq(Int) /\ Len(w) = 20
        /\ \A d \in Seq(Int) : \A of \in Nat :
             Stands(w, d, of) => Unsigned(d, of, 4) = TokInt /\ Unsigned(d, of + 4, 4) = v
    BY <1>1, <2>1, FiveNumbers
  <2> HIDE DEF w
  <2>4. ASSUME NEW d \in Seq(Int), NEW of \in Nat, Stands(Param(t), d, of)
        PROVE  ReadsParam(d, of, t) /\ DecodeParam(d, of) = [token |-> t, of |-> of + 20]
    <3>1. Unsigned(d, of, 4) = TokInt /\ Unsigned(d, of + 4, 4) = v
      BY <2>2, <2>3, <2>4
    <3>2. ReadsParam(d, of, t)
      BY <1>2, <3>1 DEF ReadsParam, v
    <3>3. DecodeParam(d, of) = [token |-> IntToken(Unsigned(d, of + 4, 4)), of |-> of + 20]
      BY <3>1 DEF DecodeParam
    <3> QED
      BY <2>1, <3>1, <3>2, <3>3
  <2> QED
    BY <2>2, <2>3, <2>4
<1>3. CASE t.type = "STR"
  <2> DEFINE v == Len(t.string) + 1
             w == Five(TokStr, 0, v)
  <2>1. Fits(4, v)
    BY <1>3 DEF TokenFits
  <2>2. Param(t) = w
    BY <1>3 DEF Param, Five
  <2>3. v = Len(t.string) + 1
    OBVIOUS
  <2> HIDE DEF v
  <2>4. /\ w \in Seq(Int) /\ Len(w) = 20
        /\ \A d \in Seq(Int) : \A of \in Nat :
             Stands(w, d, of) => Unsigned(d, of, 4) = TokStr /\ Unsigned(d, of + 16, 4) = v
    BY <1>1, <2>1, FiveNumbers
  <2> HIDE DEF w
  <2>5. ASSUME NEW d \in Seq(Int), NEW of \in Nat, Stands(Param(t), d, of)
        PROVE  ReadsParam(d, of, t)
    <3>1. Unsigned(d, of, 4) = TokStr /\ Unsigned(d, of + 16, 4) = v
      BY <2>2, <2>4, <2>5
    <3> QED
      BY <1>3, <2>3, <3>1 DEF ReadsParam
  <2> QED
    BY <1>3, <2>2, <2>4, <2>5
<1> QED
  BY <1>2, <1>3

\* The parameters of a command, and the arguments read from them.
Packed(args) == FlattenSeq([i \in 1..Len(args) |-> Param(args[i])])

\* Parameters stand 20 bytes apart.
LEMMA ParamsStand ==
  ASSUME NEW args, Arglist(args, {"INT", "STR"})
  PROVE  /\ Packed(args) \in Seq(Int) /\ Len(Packed(args)) = 20 * Len(args)
         /\ \A i \in 1..Len(args) : Stands(Param(args[i]), Packed(args), 20 * (i - 1))
<1> DEFINE parts == [i \in 1..Len(args) |-> Param(args[i])]
           n == Len(args)
<1>1. n \in Nat /\ \A i \in 1..n : TokenFits(args[i]) /\ args[i].type \in {"INT", "STR"}
  BY DEF Arglist
<1>2. ASSUME NEW i \in 1..n PROVE parts[i] = Param(args[i]) /\ parts[i] \in Seq(Int) /\ Len(parts[i]) = 20
  BY <1>1, ParamIs
<1>3. parts = [i \in 1..n |-> parts[i]]
  OBVIOUS
<1>4. Packed(args) = FlattenSeq(parts)
  BY DEF Packed
<1> HIDE DEF parts, n
<1>5. parts \in Seq(Seq(Int)) /\ Len(parts) = n
  BY <1>1, <1>2, <1>3, IsSeq
<1>6. PICK off : Places(off, parts)
  BY <1>5, PartsStand
<1>7. /\ off[0] = 0 /\ off[n] = Len(FlattenSeq(parts))
      /\ \A i \in 1..n : off[i] = off[i - 1] + 20 /\ Stands(parts[i], FlattenSeq(parts), off[i - 1])
  BY <1>2, <1>5, <1>6 DEF Places
<1> DEFINE R == {k \in 0..n : off[k] = 20 * k}
<1>8. 0 \in R
  BY <1>1, <1>7
<1>9. ASSUME NEW k \in 0..n - 1, k \in R PROVE k + 1 \in R
  <2>1. k + 1 \in 1..n /\ (k + 1) - 1 = k /\ k + 1 \in 0..n
    BY <1>1
  <2>2. off[k + 1] = off[k] + 20
    BY <1>7, <2>1
  <2>3. off[k] = 20 * k
    BY <1>9
  <2> QED
    BY <2>1, <2>2, <2>3
<1> HIDE DEF R
<1>10. \A k \in 0..n : off[k] = 20 * k
  BY <1>1, <1>8, <1>9, UpTo DEF R
<1>11. Len(FlattenSeq(parts)) = 20 * n
  BY <1>1, <1>7, <1>10
<1>12. ASSUME NEW i \in 1..n PROVE Stands(Param(args[i]), FlattenSeq(parts), 20 * (i - 1))
  <2>1. i - 1 \in 0..n
    BY <1>1
  <2> QED
    BY <1>2, <1>7, <1>10, <2>1
<1>13. FlattenSeq(parts) \in Seq(Int)
  BY <1>5, PartsStand
<1> QED
  BY <1>4, <1>11, <1>12, <1>13 DEF n

\* A string of the footer: a 0 in front of it.
StringPart(s) == Le(4, 0) \o WriteUtf8String(s)

\* It has five bytes more than its characters.
LEMMA StringPartIs ==
  ASSUME NEW s \in Seq(Printable)
  PROVE  /\ StringPart(s) \in Seq(Int) /\ Len(StringPart(s)) = Len(s) + 5
         /\ \A d \in Seq(Int) : \A of \in Nat :
              Stands(StringPart(s), d, of) => Stands(WriteUtf8String(s), d, of + 4)
<1> DEFINE a == Le(4, 0)
           w == WriteUtf8String(s)
           l == Len(s)
<1>1. a \in Seq(Int) /\ Len(a) = 4
  <2>1. 4 \in 1..8 /\ 0 \in Int
    OBVIOUS
  <2> QED
    BY <2>1, LeBytes
<1>2. l \in Nat /\ w \in Seq(Int) /\ Len(w) = l + 1
  BY PrintableText DEF WriteUtf8String
<1>3. StringPart(s) = a \o w
  BY DEF StringPart
<1> HIDE DEF a, w, l
<1>4. a \o w \in Seq(Int) /\ Len(a \o w) = Len(a) + Len(w)
  BY <1>1, <1>2, ConcatProperties, Zenon
<1>5. Len(a \o w) = l + 5
  <2> DEFINE m == Len(a \o w)
             k == Len(w)
             h == Len(a)
  <2>1. m = h + k /\ h = 4 /\ k = l + 1
    BY <1>1, <1>2, <1>4
  <2> HIDE DEF m, k, h
  <2>2. m = l + 5
    BY <1>2, <2>1
  <2> QED
    BY <2>2 DEF m
<1>6. ASSUME NEW d \in Seq(Int), NEW of \in Nat, Stands(a \o w, d, of) PROVE Stands(w, d, of + 4)
  <2>1. Stands(w, d, of + Len(a))
    BY <1>1, <1>2, <1>6, StandsParts
  <2> QED
    BY <1>1, <2>1
<1> QED
  BY <1>3, <1>4, <1>5, <1>6 DEF w, l

\* The bytes of the strings: their number, then each of them.
StringBytes(ss) == Le(4, Len(ss)) \o FlattenSeq([i \in 1..Len(ss) |-> StringPart(ss[i].string)])

\* Every string of the footer stands where it is looked for.
LEMMA FooterReads ==
  ASSUME NEW ss, Arglist(ss, {"STR"})
  PROVE  /\ StringBytes(ss) \in Seq(Int) /\ Len(StringBytes(ss)) = StringsLength(ss)
         /\ \A d \in Seq(Int) : \A of \in Nat : Stands(StringBytes(ss), d, of) => ReadsFooter(d, of, ss)
<1> DEFINE n == Len(ss)
           s(i) == ss[i].string
           parts == [i \in 1..Len(ss) |-> StringPart(ss[i].string)]
           flat == FlattenSeq(parts)
           a == Le(4, n)
<1>1. n \in Nat /\ Fits(4, n) /\ \A i \in 1..n : TokenFits(ss[i]) /\ ss[i].type = "STR"
  BY DEF Arglist
<1>2. ASSUME NEW i \in 1..n
      PROVE  s(i) \in Seq(Printable) /\ Len(s(i)) \in Nat /\ Len(s(i)) <= MaxStr
  <2>1. ss[i].string \in Seq(Printable \ {Quote}) /\ Len(ss[i].string) <= MaxStr
    BY <1>1 DEF TokenFits
  <2>2. \A c \in Printable \ {Quote} : c \in Printable
    OBVIOUS
  <2> QED
    BY <2>1, <2>2, SeqWider
<1>3. ASSUME NEW i \in 1..n PROVE parts[i] = StringPart(s(i)) /\ parts[i] \in Seq(Int) /\ Len(parts[i]) = Len(s(i)) + 5
  <2>1. parts[i] = StringPart(s(i))
    OBVIOUS
  <2> HIDE DEF parts, s
  <2> QED
    BY <1>2, <2>1, StringPartIs
<1>4. parts = [i \in 1..n |-> parts[i]]
  OBVIOUS
<1>5. StringBytes(ss) = a \o flat
  BY DEF StringBytes
<1>6. a \in Seq(Int) /\ Len(a) = 4
  <2>1. 4 \in 1..8 /\ n \in Int
    BY <1>1
  <2> QED
    BY <2>1, LeBytes
<1> HIDE DEF parts, n, s
<1>7. parts \in Seq(Seq(Int)) /\ Len(parts) = n
  <2>1. \A i \in 1..n : parts[i] \in Seq(Int)
    BY <1>3
  <2> QED
    BY <1>1, <1>4, <2>1, IsSeq
<1>8. flat \in Seq(Int) /\ \E off : Places(off, parts)
  BY <1>7, PartsStand
<1>9. PICK off : Places(off, parts)
  BY <1>8
<1>10. /\ off \in [0..n -> Nat] /\ off[0] = 0 /\ off[n] = Len(flat)
       /\ \A i \in 1..n : off[i] = off[i - 1] + Len(parts[i]) /\ Stands(parts[i], flat, off[i - 1])
  BY <1>7, <1>9 DEF Places
<1> HIDE DEF flat, a
<1>11. ASSUME NEW i \in 1..n PROVE off[i] = off[i - 1] + (Len(s(i)) + 5) /\ off[i - 1] \in Nat
  <2>1. i - 1 \in 0..n
    BY <1>1
  <2> QED
    BY <1>3, <1>10, <2>1
<1>12. ASSUME NEW d \in Seq(Int), NEW of \in Nat, Stands(a \o flat, d, of) PROVE ReadsFooter(d, of, ss)
  <2> DEFINE D(g) == g = [k \in 1..n |-> IF k = 1 THEN of + 8 ELSE g[k - 1] + Len(ss[k - 1].string) + 5]
             v == [k \in 1..n |-> of + off[k - 1] + 8]
             c == CHOOSE g : D(g)
  <2>1. Stands(a, d, of) /\ Stands(flat, d, of + 4)
    BY <1>6, <1>8, <1>12, StandsParts
  <2>2. Unsigned(d, of, 4) = n
    <3>1. Stands(Le(4, n), d, of) /\ 4 \in {1, 2, 3, 4, 8}
      BY <2>1 DEF a
    <3> QED
      BY <1>1, <3>1, ReadsNumber
  <2>3. ASSUME NEW k \in 1..n
        PROVE  v[k] = IF k = 1 THEN of + 8 ELSE v[k - 1] + Len(ss[k - 1].string) + 5
    <3>1. CASE k = 1
      <4>1. off[k - 1] = 0 /\ v[k] = of + off[k - 1] + 8
        BY <1>10, <3>1
      <4> HIDE DEF v
      <4> QED
        BY <3>1, <4>1
    <3>2. CASE k # 1
      <4> DEFINE p == off[k - 2]
                 q == off[k - 1]
                 l == Len(s(k - 1))
      <4>1. k - 1 \in 1..n /\ (k - 1) - 1 = k - 2
        BY <1>1, <3>2
      <4>2. q = p + (l + 5) /\ p \in Nat /\ l \in Nat
        BY <1>2, <1>11, <4>1
      <4>3. v[k] = of + q + 8 /\ v[k - 1] = of + p + 8
        BY <4>1
      <4> HIDE DEF v, p, q
      <4>4. v[k] = v[k - 1] + l + 5
        <5> HIDE DEF l
        <5> QED
          BY <4>2, <4>3
      <4> QED
        BY <3>2, <4>4 DEF s
    <3> QED
      BY <3>1, <3>2
  <2>4. D(c)
    <3>1. D(v)
      BY <2>3
    <3> QED
      BY <3>1
  <2>5. \A k \in 1..n : v[k] = of + off[k - 1] + 8
    OBVIOUS
  <2> HIDE DEF c, v
  <2>6. ASSUME NEW k \in 1..n PROVE c[k] = IF k = 1 THEN of + 8 ELSE c[k - 1] + Len(ss[k - 1].string) + 5
    BY <2>4
  <2> HIDE DEF D
  <2> DEFINE R == {k \in 0..n : k = 0 \/ c[k] = v[k]}
  <2>7. 0 \in R
    BY <1>1
  <2>8. ASSUME NEW k \in 0..n - 1, k \in R PROVE k + 1 \in R
    <3>1. k + 1 \in 1..n /\ (k + 1) - 1 = k /\ k + 1 \in 0..n
      BY <1>1
    <3>2. c[k + 1] = IF k + 1 = 1 THEN of + 8 ELSE c[k] + Len(ss[k].string) + 5
      BY <2>6, <3>1
    <3>3. v[k + 1] = IF k + 1 = 1 THEN of + 8 ELSE v[k] + Len(ss[k].string) + 5
      BY <2>3, <3>1
    <3>4. k = 0 \/ c[k] = v[k]
      BY <2>8
    <3>5. c[k + 1] = v[k + 1]
      BY <3>2, <3>3, <3>4
    <3> QED
      BY <3>1, <3>5
  <2>9. \A k \in 0..n : k \in R
    <3> HIDE DEF R
    <3> QED
      BY <1>1, <2>7, <2>8, UpTo
  <2>10. ASSUME NEW i \in 1..n PROVE ReadUtf8String(d, c[i], MaxStr).str = ss[i].string
    <3> DEFINE p == off[i - 1]
               t == s(i)
               r == ReadUtf8String(d, c[i], MaxStr)
    <3>1. i \in 0..n /\ i # 0
      BY <1>1
    <3>2. c[i] = v[i]
      BY <2>9, <3>1
    <3>3. p \in Nat /\ v[i] = of + p + 8
      BY <1>11, <2>5
    <3>4. Stands(parts[i], flat, p) /\ parts[i] \in Seq(Int) /\ parts[i] = StringPart(t)
      BY <1>3, <1>10
    <3> HIDE DEF p, t, r
    <3>5. of + 4 \in Nat
      OBVIOUS
    <3>6. Stands(parts[i], d, (of + 4) + p)
      BY <1>8, <2>1, <3>3, <3>4, <3>5, StandsWithin
    <3>7. Stands(StringPart(t), d, (of + 4) + p) /\ (of + 4) + p \in Nat
      BY <3>3, <3>4, <3>6
    <3>8. t \in Seq(Printable) /\ Len(t) \in Nat /\ Len(t) <= MaxStr
      BY <1>2 DEF t
    <3>9. Stands(WriteUtf8String(t), d, ((of + 4) + p) + 4)
      BY <3>7, <3>8, StringPartIs
    <3>10. ((of + 4) + p) + 4 = c[i] /\ c[i] \in Nat
      BY <3>2, <3>3
    <3>11. Stands(WriteUtf8String(t), d, c[i])
      BY <3>9, <3>10
    <3>12. Len(t) <= LargerOf(MaxStr, 1) /\ MaxStr \in Nat
      BY <3>8, TokensAssumption DEF LargerOf
    <3>13. r.str = t
      BY <3>8, <3>10, <3>11, <3>12, ReadUtf8Is DEF r
    <3> QED
      BY <3>13 DEF r, t, s
  <2> HIDE DEF R
  <2> QED
    BY <2>2, <2>10 DEF ReadsFooter, c, D, n
<1>13. a \o flat \in Seq(Int)
  BY <1>6, <1>8, ConcatProperties, Zenon
<1>14. Len(a \o flat) = StringsLength(ss)
  <2> DEFINE D(g) == g = [k \in 0..n |-> IF k = 0 THEN 4 ELSE g[k - 1] + Len(ss[k].string) + 5]
             v == [k \in 0..n |-> 4 + off[k]]
             c == CHOOSE g : D(g)
  <2>1. \A k \in 0..n : v[k] = 4 + off[k]
    OBVIOUS
  <2>2. ASSUME NEW k \in 0..n
        PROVE  v[k] = IF k = 0 THEN 4 ELSE v[k - 1] + Len(ss[k].string) + 5
    <3> HIDE DEF v
    <3>1. CASE k = 0
      BY <1>10, <2>1, <3>1
    <3>2. CASE k # 0
      <4>1. k \in 1..n /\ k - 1 \in 0..n
        BY <1>1, <3>2
      <4> DEFINE l == Len(s(k))
                 x == off[k - 1]
      <4>2. off[k] = x + (l + 5) /\ x \in Nat /\ l \in Nat
        BY <1>2, <1>11, <4>1
      <4>3. v[k] = 4 + off[k] /\ v[k - 1] = 4 + x
        BY <2>1, <4>1
      <4> HIDE DEF l, x
      <4>4. v[k] = v[k - 1] + l + 5
        BY <4>2, <4>3
      <4> QED
        BY <3>2, <4>4 DEF l, s
    <3> QED
      BY <3>1, <3>2
  <2>3. D(v)
    BY <2>2
  <2> HIDE DEF v
  <2>4. D(c)
    BY <2>3
  <2> HIDE DEF c
  <2>5. ASSUME NEW k \in 0..n PROVE c[k] = IF k = 0 THEN 4 ELSE c[k - 1] + Len(ss[k].string) + 5
    BY <2>4
  <2> HIDE DEF D
  <2>6. c[0] = v[0]
    <3>1. 0 \in 0..n
      BY <1>1
    <3> QED
      BY <2>2, <2>5, <3>1
  <2>7. ASSUME NEW k \in 0..n - 1, c[k] = v[k] PROVE c[k + 1] = v[k + 1]
    <3>1. k + 1 \in 0..n /\ k + 1 # 0 /\ (k + 1) - 1 = k
      BY <1>1
    <3> QED
      BY <2>2, <2>5, <2>7, <3>1
  <2>8. c[n] = v[n]
    <3>1. \A k \in 0..n : c[k] = v[k]
      BY <1>1, <2>6, <2>7, Alike
    <3>2. n \in 0..n
      BY <1>1
    <3> QED
      BY <3>1, <3>2
  <2>9. v[n] = 4 + Len(flat)
    <3>1. n \in 0..n
      BY <1>1
    <3> QED
      BY <1>10, <2>1, <3>1
  <2>10. Len(a \o flat) = Len(a) + Len(flat)
    BY <1>6, <1>8, ConcatProperties, Zenon
  <2>11. Len(a \o flat) = c[n]
    BY <1>6, <2>8, <2>9, <2>10
  <2>12. StringsLength(ss) = c[n]
    BY DEF StringsLength, c, D, n
  <2> QED
    BY <2>11, <2>12
<1> QED
  BY <1>5, <1>12, <1>13, <1>14

\* Where the name, the number of arguments, the parameters and the strings of a packed command stand.
CommandAt(d, name, args, ss) ==
  /\ d \in Seq(Int) /\ name \in Seq(Printable) /\ Len(name) \in Nat
  /\ Stands(WriteUtf8String(name), d, 0) /\ Stands(Le(4, Len(args)), d, Len(name) + 1)
  /\ Stands(Packed(args), d, Len(name) + 5) /\ Stands(StringBytes(ss), d, Len(name) + 5 + 20 * Len(args))

\* A packed command is laid out like that.
LEMMA PackIs ==
  ASSUME NEW tokens, CommandLine(tokens), Fits(4, Len(tokens)), tokens[1].type = "TEXT"
  PROVE  LET d == Pack(tokens)
             name == tokens[1].string
             args == Arguments(tokens)
             ss == Strings(tokens)
         IN  /\ d \notin {Null, Crash}
             /\ d = Overrun <=> CommandLength(name, args, ss) > PackBuffer
             /\ d # Overrun => CommandAt(d, name, args, ss)
<1> DEFINE name == tokens[1].string
           args == Arguments(tokens)
           ss == Strings(tokens)
           k == Len(args)
           l == Len(name)
           a == WriteUtf8String(name)
           b == Le(4, k)
           p == Packed(args)
           f == StringBytes(ss)
           ab == a \o b
           abp == ab \o p
           d == abp \o f
<1>1. Len(tokens) \in Nat \ {0} /\ tokens = [i \in 1..Len(tokens) |-> tokens[i]] /\ TokenFits(tokens[1])
  <2>1. Len(tokens) \in Nat \ {0} /\ tokens = [i \in 1..Len(tokens) |-> tokens[i]]
        /\ \A i \in 1..Len(tokens) : TokenFits(tokens[i])
    BY DEF CommandLine
  <2>2. 1 \in 1..Len(tokens)
    BY <2>1
  <2> QED
    BY <2>1, <2>2
<1>2. Arglist(args, {"INT", "STR"}) /\ Arglist(ss, {"STR"})
  BY ArgumentsFit
<1>3. name \in Seq(Printable) /\ l \in Nat
  <2>1. tokens[1].string \in Seq(Alpha)
    BY <1>1 DEF TokenFits
  <2>2. \A c \in Alpha : c \in Printable
    BY DEF Alpha, Printable
  <2> QED
    BY <2>1, <2>2, SeqWider
<1>4. tokens # <<>>
  <2>1. Len(<<>>) = 0
    OBVIOUS
  <2> QED
    BY <1>1, <2>1
<1>5. Pack(tokens) = Written(d)
  BY <1>4 DEF Pack, Footer, Params, Packed, StringBytes, StringPart
<1>6. a \in Seq(Int) /\ Len(a) = l + 1
  <2> HIDE DEF name
  <2> QED
    BY <1>3, PrintableText DEF WriteUtf8String
<1>7. b \in Seq(Int) /\ Len(b) = 4 /\ k \in Nat
  <2>1. 4 \in 1..8 /\ k \in Int /\ k \in Nat
    BY <1>2 DEF Arglist
  <2> QED
    BY <2>1, LeBytes
<1>8. p \in Seq(Int) /\ Len(p) = 20 * k
  BY <1>2, ParamsStand
<1>9. f \in Seq(Int) /\ Len(f) = StringsLength(ss)
  BY <1>2, FooterReads
<1> HIDE DEF name, args, ss, k, l, a, b, p, f
<1>10. ab \in Seq(Int) /\ Len(ab) = Len(a) + Len(b)
  BY <1>6, <1>7, ConcatProperties, Zenon
<1> HIDE DEF ab
<1>11. abp \in Seq(Int) /\ Len(abp) = Len(ab) + Len(p)
  BY <1>8, <1>10, ConcatProperties, Zenon
<1> HIDE DEF abp
<1>12. d \in Seq(Int) /\ Len(d) = Len(abp) + Len(f)
  BY <1>9, <1>11, ConcatProperties, Zenon
<1>13. Stands(d, d, 0)
  BY <1>12, StandsWhole
<1>14. Stands(abp \o f, d, 0)
  BY <1>13
<1> HIDE DEF d
<1>15. Stands(abp, d, 0) /\ Stands(f, d, Len(abp))
  BY <1>9, <1>11, <1>12, <1>14, StandsBegin
<1>16. Stands(ab, d, 0) /\ Stands(p, d, Len(ab))
  BY <1>8, <1>10, <1>12, <1>15, StandsBegin DEF abp
<1>17. Stands(a, d, 0) /\ Stands(b, d, Len(a))
  BY <1>6, <1>7, <1>12, <1>16, StandsBegin DEF ab
<1>18. Len(ab) = l + 5
  <2> DEFINE x == Len(ab)
             y == Len(a)
             z == Len(b)
  <2>1. x = y + z /\ y = l + 1 /\ z = 4
    BY <1>6, <1>7, <1>10
  <2> HIDE DEF x, y, z
  <2>2. x = l + 5
    BY <1>3, <2>1
  <2> QED
    BY <2>2 DEF x
<1>19. Len(abp) = l + 5 + 20 * k
  BY <1>8, <1>11, <1>18
<1>20. /\ Len(d) = CommandLength(name, args, ss) /\ Len(d) \in Nat
       /\ d \notin {Null, Crash, Overrun}
  <2> DEFINE x == Len(d)
             y == Len(abp)
             z == Len(f)
  <2>1. x = y + z /\ y = l + 5 + 20 * k /\ z \in Nat
    BY <1>9, <1>12, <1>19
  <2>2. CommandLength(name, args, ss) = l + 5 + 20 * k + z
    BY <1>9 DEF CommandLength, l, k
  <2> HIDE DEF x, y, z
  <2>3. x # 0 /\ x # 1 /\ x = l + 5 + 20 * k + z /\ x \in Nat
    BY <1>3, <1>7, <2>1
  <2>4. Len(Null) = 0 /\ Len(Crash) = 1 /\ Len(Overrun) = 1
    BY DEF Null, Crash, Overrun
  <2>5. Len(d) # Len(Null) /\ Len(d) # Len(Crash) /\ Len(d) # Len(Overrun)
    BY <2>3, <2>4 DEF x
  <2> QED
    BY <2>2, <2>3, <2>5 DEF x
<1>21. CommandAt(d, name, args, ss)
  <2>1. Stands(a, d, 0) /\ Stands(b, d, l + 1) /\ Stands(p, d, l + 5) /\ Stands(f, d, l + 5 + 20 * k)
    BY <1>6, <1>15, <1>16, <1>17, <1>18, <1>19
  <2> QED
    BY <1>3, <1>12, <2>1 DEF CommandAt, a, b, p, f, k, l
<1>22. Overrun \notin {Null, Crash}
  BY DEF Overrun, Null, Crash
<1> DEFINE w == Written(d)
<1>23. w = IF Len(d) > PackBuffer THEN Overrun ELSE d
  BY DEF Written
<1> HIDE DEF w
<1>24. /\ w \notin {Null, Crash} /\ (w = Overrun <=> CommandLength(name, args, ss) > PackBuffer)
       /\ w # Overrun => CommandAt(w, name, args, ss)
  BY <1>20, <1>21, <1>22, <1>23
<1> QED
  BY <1>5, <1>24 DEF w, d, name, args, ss

\* What the properties ask of a packed command.
LEMMA CommandReads ==
  ASSUME NEW d, NEW name, NEW args, NEW ss, Arglist(args, {"INT", "STR"}), Arglist(ss, {"STR"}),
         CommandAt(d, name, args, ss), Len(name) <= MaxStr
  PROVE  /\ ReadUtf8String(d, 0, MaxStr).str = name
         /\ Unsigned(d, Len(name) + 1, 4) = Len(args)
         /\ \A i \in 1..Len(args) : ReadsParam(d, Len(name) + 5 + 20 * (i - 1), args[i])
         /\ ReadsFooter(d, Len(name) + 5 + 20 * Len(args), ss)
<1> DEFINE l == Len(name)
           k == Len(args)
           p == Packed(args)
<1>1. d \in Seq(Int) /\ name \in Seq(Printable) /\ l \in Nat /\ k \in Nat /\ Fits(4, k)
  BY DEF CommandAt, Arglist
<1>2. Stands(WriteUtf8String(name), d, 0) /\ Stands(Le(4, k), d, l + 1) /\ Stands(p, d, l + 5)
      /\ Stands(StringBytes(ss), d, l + 5 + 20 * k)
  BY DEF CommandAt
<1>3. l <= MaxStr
  OBVIOUS
<1> HIDE DEF l, k, p
<1>4. ReadUtf8String(d, 0, MaxStr).str = name
  <2>1. Len(name) <= LargerOf(MaxStr, 1) /\ MaxStr \in Nat /\ 0 \in Nat
    BY <1>1, <1>3, TokensAssumption DEF LargerOf, l
  <2> QED
    BY <1>1, <1>2, <2>1, ReadUtf8Is
<1>5. Unsigned(d, l + 1, 4) = k
  <2>1. l + 1 \in Nat /\ 4 \in {1, 2, 3, 4, 8}
    BY <1>1
  <2> QED
    BY <1>1, <1>2, <2>1, ReadsNumber
<1>6. ASSUME NEW i \in 1..k PROVE ReadsParam(d, l + 5 + 20 * (i - 1), args[i])
  <2> DEFINE w == Param(args[i])
             at == 20 * (i - 1)
  <2>1. p \in Seq(Int) /\ Stands(w, p, at)
    BY <1>6, ParamsStand DEF p, k
  <2>2. TokenFits(args[i]) /\ args[i].type \in {"INT", "STR"}
    BY <1>6 DEF Arglist, k
  <2>3. w \in Seq(Int)
    BY <2>2, ParamIs
  <2>4. l + 5 \in Nat /\ at \in Nat /\ (l + 5) + at \in Nat
    BY <1>1
  <2> HIDE DEF w, at
  <2>5. Stands(w, d, (l + 5) + at)
    BY <1>1, <1>2, <2>1, <2>3, <2>4, StandsWithin
  <2>6. ReadsParam(d, (l + 5) + at, args[i])
    BY <1>1, <2>2, <2>4, <2>5, ParamIs DEF w
  <2> QED
    BY <2>6 DEF at
<1>7. ReadsFooter(d, l + 5 + 20 * k, ss)
  <2>1. l + 5 + 20 * k \in Nat
    BY <1>1
  <2> QED
    BY <1>1, <1>2, <2>1, FooterReads
<1> QED
  BY <1>4, <1>5, <1>6, <1>7 DEF l, k

\* A command of numbers is decoded into them.
LEMMA DecodedIs ==
  ASSUME NEW d, NEW name, NEW args, NEW ss, Arglist(args, {"INT"}),
         CommandAt(d, name, args, ss), Len(name) <= DecodeBuffer
  PROVE  DecodeEvproc(d).name = name /\ DecodeEvproc(d).params = args
<1> DEFINE l == Len(name)
           k == Len(args)
           p == Packed(args)
           head == ReadUtf8String(d, 0, DecodeBuffer)
           D(g) == g = [i \in 0..k |-> IF i = 0 THEN [of |-> head.of + 4, values |-> <<>>]
                          ELSE LET q == DecodeParam(d, g[i - 1].of)
                               IN  [of |-> q.of, values |-> Append(g[i - 1].values, q.token)]]
           c == CHOOSE g : D(g)
           S(i) == [of |-> l + 5 + 20 * i, values |-> FirstTokens(args, i)]
           v == [i \in 0..k |-> S(i)]
<1>1. d \in Seq(Int) /\ name \in Seq(Printable) /\ l \in Nat /\ k \in Nat /\ Fits(4, k)
  BY DEF CommandAt, Arglist
<1>2. Stands(WriteUtf8String(name), d, 0) /\ Stands(Le(4, k), d, l + 1) /\ Stands(p, d, l + 5)
  BY DEF CommandAt
<1>3. l <= DecodeBuffer
  OBVIOUS
<1>4. Arglist(args, {"INT", "STR"})
  BY DEF Arglist
<1>5. p \in Seq(Int) /\ \A i \in 1..k : Stands(Param(args[i]), p, 20 * (i - 1))
  BY <1>4, ParamsStand
<1>6. \A i \in 1..k : TokenFits(args[i]) /\ args[i].type = "INT"
  BY DEF Arglist
<1>7. FirstTokens(args, k) = args /\ FirstTokens(args, 0) = <<>>
  BY DEF Arglist, FirstTokens
<1> HIDE DEF p, l
<1>8. head.str = name /\ head.of = l + 1
  <2>1. Len(name) <= LargerOf(DecodeBuffer, 1) /\ DecodeBuffer \in Nat /\ 0 \in Nat
    BY <1>1, <1>3 DEF LargerOf, l, DecodeBuffer
  <2>2. head.str = name /\ head.of = 0 + Len(WriteUtf8String(name))
    BY <1>1, <1>2, <2>1, ReadUtf8Is
  <2>3. Len(WriteUtf8String(name)) = l + 1
    BY <1>1, PrintableText DEF WriteUtf8String, l
  <2> HIDE DEF head
  <2> QED
    BY <1>1, <2>2, <2>3
<1>9. Unsigned(d, head.of, 4) = k
  <2>1. l + 1 \in Nat /\ 4 \in {1, 2, 3, 4, 8}
    BY <1>1
  <2>2. Unsigned(d, l + 1, 4) = k
    BY <1>1, <1>2, <2>1, ReadsNumber
  <2> HIDE DEF head
  <2> QED
    BY <1>8, <2>2
<1>10. DecodeEvproc(d).name = head.str /\ DecodeEvproc(d).params = c[k].values
  <2> HIDE DEF k
  <2> QED
    BY <1>9 DEF DecodeEvproc
<1> HIDE DEF head, k
<1>11. ASSUME NEW i \in 1..k
       PROVE  LET q == DecodeParam(d, l + 5 + 20 * (i - 1))
              IN  q.token = args[i] /\ q.of = l + 5 + 20 * i
  <2> DEFINE w == Param(args[i])
             at == 20 * (i - 1)
             q == DecodeParam(d, (l + 5) + at)
  <2>1. TokenFits(args[i]) /\ args[i].type = "INT" /\ args[i].type \in {"INT", "STR"}
    BY <1>6
  <2>2. w \in Seq(Int)
    BY <2>1, ParamIs
  <2>3. l + 5 \in Nat /\ at \in Nat /\ (l + 5) + at \in Nat /\ (l + 5) + at + 20 = l + 5 + 20 * i
    BY <1>1
  <2>4. Stands(w, p, at)
    BY <1>5
  <2> HIDE DEF w, at, q
  <2>5. Stands(w, d, (l + 5) + at)
    BY <1>1, <1>2, <1>5, <2>2, <2>3, <2>4, StandsWithin
  <2>6. q = [token |-> args[i], of |-> (l + 5) + at + 20]
    BY <1>1, <2>1, <2>3, <2>5, ParamIs DEF w, q
  <2>7. q.token = args[i] /\ q.of = l + 5 + 20 * i
    BY <2>3, <2>6
  <2> QED
    BY <2>7 DEF q, at
<1>12. S(0) = [of |-> head.of + 4, values |-> <<>>]
  BY <1>1, <1>7, <1>8
<1>13. ASSUME NEW i \in 1..k
       PROVE  S(i) = LET q == DecodeParam(d, S(i - 1).of)
                     IN  [of |-> q.of, values |-> Append(S(i - 1).values, q.token)]
  <2>1. i - 1 \in Nat /\ (i - 1) + 1 = i
    BY <1>1
  <2>2. Append(FirstTokens(args, i - 1), args[i]) = FirstTokens(args, i)
    BY <2>1, OneMoreToken
  <2>3. S(i - 1).of = l + 5 + 20 * (i - 1) /\ S(i - 1).values = FirstTokens(args, i - 1)
    OBVIOUS
  <2>4. S(i) = [of |-> l + 5 + 20 * i, values |-> FirstTokens(args, i)]
    OBVIOUS
  <2> HIDE DEF S
  <2> QED
    BY <1>11, <2>2, <2>3, <2>4
<1>14. \A i \in 0..k : v[i] = S(i)
  OBVIOUS
<1> HIDE DEF S
<1>15. D(v)
  <2>1. ASSUME NEW i \in 0..k
        PROVE  v[i] = IF i = 0 THEN [of |-> head.of + 4, values |-> <<>>]
                      ELSE LET q == DecodeParam(d, v[i - 1].of)
                           IN  [of |-> q.of, values |-> Append(v[i - 1].values, q.token)]
    <3> HIDE DEF v
    <3>1. CASE i = 0
      BY <1>12, <1>14, <3>1
    <3>2. CASE i # 0
      <4>1. i \in 1..k /\ i - 1 \in 0..k
        BY <1>1, <3>2
      <4>2. v[i] = S(i) /\ v[i - 1] = S(i - 1)
        BY <1>14, <4>1
      <4> QED
        BY <1>13, <3>2, <4>1, <4>2
    <3> QED
      BY <3>1, <3>2
  <2> QED
    BY <2>1
<1> HIDE DEF v
<1>16. D(c)
  <2> HIDE DEF D
  <2> QED
    BY <1>15
<1> HIDE DEF c
<1>17. ASSUME NEW i \in 0..k
       PROVE  c[i] = IF i = 0 THEN [of |-> head.of + 4, values |-> <<>>]
                     ELSE LET q == DecodeParam(d, c[i - 1].of)
                          IN  [of |-> q.of, values |-> Append(c[i - 1].values, q.token)]
  BY <1>16
<1> HIDE DEF D
<1>18. c[0] = v[0]
  <2>1. 0 \in 0..k
    BY <1>1
  <2> QED
    BY <1>12, <1>14, <1>17, <2>1
<1>19. ASSUME NEW j \in 0..k - 1, c[j] = v[j] PROVE c[j + 1] = v[j + 1]
  <2>1. j + 1 \in 1..k /\ j + 1 \in 0..k /\ (j + 1) - 1 = j /\ j \in 0..k /\ j + 1 # 0
    BY <1>1
  <2>2. c[j + 1] = LET q == DecodeParam(d, c[j].of)
                   IN  [of |-> q.of, values |-> Append(c[j].values, q.token)]
    BY <1>17, <2>1
  <2>3. S(j + 1) = LET q == DecodeParam(d, S(j).of)
                   IN  [of |-> q.of, values |-> Append(S(j).values, q.token)]
    BY <1>13, <2>1
  <2>4. v[j + 1] = S(j + 1) /\ v[j] = S(j)
    BY <1>14, <2>1
  <2> QED
    BY <1>19, <2>2, <2>3, <2>4
<1>20. c[k] = S(k)
  <2>1. \A j \in 0..k : c[j] = v[j]
    BY <1>1, <1>18, <1>19, Alike
  <2>2. k \in 0..k
    BY <1>1
  <2> QED
    BY <1>14, <2>1, <2>2
<1>21. c[k].values = args
  BY <1>7, <1>20 DEF S
<1> QED
  BY <1>8, <1>10, <1>21 DEF c, D, k

\* What an event procedure's job ends with.
LEMMA EvprocIs ==
  ASSUME NEW j, EvprocJob(j), job = j
  PROVE  LET lex == Lex(PrintLine(j.tokens))
             d == PackLine(lex)
             name == j.tokens[1].string
             args == Arguments(j.tokens)
             strings == Strings(j.tokens)
         IN  /\ lex.tokens = j.tokens /\ d \notin {Null, Crash}
             /\ d = Overrun <=> CommandLength(name, args, strings) > PackBuffer
             /\ d # Overrun =>
                  /\ ReadUtf8String(d, 0, MaxStr).str = name
                  /\ Unsigned(d, Len(name) + 1, 4) = Len(args)
                  /\ \A i \in 1..Len(args) : ReadsParam(d, Len(name) + 5 + 20 * (i - 1), args[i])
                  /\ ReadsFooter(d, Len(name) + 5 + 20 * Len(args), strings)
                  /\ strings = <<>> => DecodeEvproc(d).name = name /\ DecodeEvproc(d).params = args
<1> DEFINE tokens == j.tokens
           lex == Lex(PrintLine(tokens))
           d == Pack(tokens)
           name == tokens[1].string
           args == Arguments(tokens)
           ss == Strings(tokens)
<1>1. /\ tokens = [i \in 1..Len(tokens) |-> tokens[i]] /\ Len(tokens) \in 1..MaxTok /\ Fits(4, Len(tokens))
      /\ \A i \in 1..Len(tokens) : TokenFits(tokens[i])
      /\ tokens[1].type = "TEXT" /\ job.behind = <<>>
      /\ ss = <<>> => Len(name) <= DecodeBuffer
  BY DEF EvprocJob
<1> HIDE DEF tokens
<1>2. CommandLine(tokens) /\ Len(tokens) <= MaxTok /\ 1 \in 1..Len(tokens)
  BY <1>1, TokensAssumption DEF CommandLine
<1>3. lex = LexAt(Len(PrintLine(tokens)), tokens)
  BY <1>1, <1>2, LexIs
<1>4. lex.tokens = tokens /\ ~lex.null
  <2> HIDE DEF lex
  <2> QED
    BY <1>3 DEF LexAt
<1>5. PackLine(lex) = d
  <2> HIDE DEF lex
  <2> QED
    BY <1>4 DEF PackLine
<1>6. /\ d \notin {Null, Crash} /\ (d = Overrun <=> CommandLength(name, args, ss) > PackBuffer)
      /\ d # Overrun => CommandAt(d, name, args, ss)
  BY <1>1, <1>2, PackIs
<1>7. Arglist(args, {"INT", "STR"}) /\ Arglist(ss, {"STR"}) /\ (ss = <<>> => Arglist(args, {"INT"}))
  BY <1>1, <1>2, ArgumentsFit
<1>8. Len(name) <= MaxStr
  BY <1>1, <1>2 DEF TokenFits
<1> HIDE DEF lex, d, name, args, ss
<1>9. ASSUME d # Overrun
      PROVE  /\ ReadUtf8String(d, 0, MaxStr).str = name
             /\ Unsigned(d, Len(name) + 1, 4) = Len(args)
             /\ \A i \in 1..Len(args) : ReadsParam(d, Len(name) + 5 + 20 * (i - 1), args[i])
             /\ ReadsFooter(d, Len(name) + 5 + 20 * Len(args), ss)
  BY <1>6, <1>7, <1>8, <1>9, CommandReads
<1>10. d # Overrun /\ ss = <<>> => DecodeEvproc(d).name = name /\ DecodeEvproc(d).params = args
  BY <1>1, <1>6, <1>7, DecodedIs
<1> QED
  BY <1>4, <1>5, <1>6, <1>9, <1>10 DEF tokens, lex, d, name, args, ss

\* For command lines of any tokens within the limits of the lexer, in decimal or
\* hexadecimal: the lexer finds the printed tokens again, the packed command
\* holds the name, the number of arguments, a parameter for each and every string
\* where it is looked for, and one of numbers is decoded into what was given;
\* only a command longer than the packer's buffers is not followed
\* (canon_adv.c:97-266, dec/main.c:25-61).
THEOREM EvprocsReadBack ==
  ASSUME \A j \in AllJobs : j.kind = "evproc" => EvprocJob(j)
  PROVE  Spec => []EvprocReadsBack
<1> DEFINE Job == job \in AllJobs
<1>1. Init => Job /\ EvprocReadsBack
  BY DEF Init, AllJobs, EvprocReadsBack, Finished, Nothing
<1>2. Job /\ EvprocReadsBack /\ [Next]_vars => (Job /\ EvprocReadsBack)'
  <2> SUFFICES ASSUME Job, EvprocReadsBack, [Next]_vars PROVE (Job /\ EvprocReadsBack)'
    OBVIOUS
  <2>1. job' = job
    BY Steps
  <2>2. CASE job.kind # "evproc"
    BY <2>1, <2>2 DEF EvprocReadsBack, Finished
  <2>3. CASE result' = result
    BY <2>1, <2>3 DEF EvprocReadsBack, Finished
  <2>4. CASE job.kind = "evproc" /\ result' # result
    <3> DEFINE lex == Lex(PrintLine(job.tokens))
               d == PackLine(lex)
               decoded == DecodeEvproc(d)
               name == job.tokens[1].string
               args == Arguments(job.tokens)
               strings == Strings(job.tokens)
    <3>1. result'.value = [lex |-> lex, packed |-> d, decoded |-> IF d \in {Null, Crash, Overrun} THEN Null ELSE decoded]
      BY <2>4, Steps
    <3>2. EvprocJob(job)
      BY <2>4
    <3>3. /\ lex.tokens = job.tokens /\ d \notin {Null, Crash}
          /\ d = Overrun <=> CommandLength(name, args, strings) > PackBuffer
          /\ d # Overrun =>
               /\ ReadUtf8String(d, 0, MaxStr).str = name
               /\ Unsigned(d, Len(name) + 1, 4) = Len(args)
               /\ \A i \in 1..Len(args) : ReadsParam(d, Len(name) + 5 + 20 * (i - 1), args[i])
               /\ ReadsFooter(d, Len(name) + 5 + 20 * Len(args), strings)
               /\ strings = <<>> => decoded.name = name /\ decoded.params = args
      BY <3>2, EvprocIs
    <3> HIDE DEF lex, d, decoded, name, args, strings
    <3>4. /\ result'.value.lex = lex /\ result'.value.packed = d
          /\ d # Overrun => result'.value.decoded = decoded
      BY <3>1, <3>3
    <3> QED
      BY <2>1, <3>3, <3>4 DEF EvprocReadsBack, name, args, strings
  <2> QED
    BY <2>2, <2>3, <2>4
<1> QED
  BY <1>1, <1>2, PTL DEF Spec

-----------------------------------------------------------------------------
(* JSON: a text leads the reader from a wanted value to what comes behind it. *)

\* The tokens of a JSON text, and the states of its reader.
Closers == {"]", "}"}
Tokens == {"number", "string", ":", ",", "[", "]", "{", "}"}
Readers == [open : Seq(Closers), want : SUBSET {"value", "key", ":", ",", "]", "}"}]
\* The reader behind a value when "open" is to be closed.
Behind(open) == [open |-> open, want |-> IF open = <<>> THEN {} ELSE {",", Last(open)}]

LEMMA RecordOf ==
  ASSUME NEW A, NEW B, NEW r \in [open : A, want : B]
  PROVE  r = [open |-> r.open, want |-> r.want]
OBVIOUS

LEMMA ReaderWants ==
  ASSUME NEW r \in Readers, NEW w
  PROVE  [r EXCEPT !.want = w] = [open |-> r.open, want |-> w]
<1> DEFINE a == r.open
           b == r.want
<1>1. r = [open |-> a, want |-> b]
  BY RecordOf DEF Readers
<1> HIDE DEF a, b
<1>2. [r EXCEPT !.want = w] = [open |-> a, want |-> w]
  BY <1>1
<1> QED
  BY <1>2 DEF a

LEMMA AfterReader ==
  ASSUME NEW r \in Readers
  PROVE  AfterValue(r) = Behind(r.open) /\ Behind(r.open) \in Readers
<1>1. r.open \in Seq(Closers)
  BY DEF Readers
<1>2. r.open # <<>> => Last(r.open) \in Closers
  <2>1. r.open # <<>> => Len(r.open) \in 1..Len(r.open)
    BY <1>1, EmptySeq
  <2> QED
    BY <1>1, <2>1, ElementOfSeq DEF Last
<1>3. Behind(r.open) \in Readers
  <2> DEFINE u == IF r.open = <<>> THEN {} ELSE {",", Last(r.open)}
             W == SUBSET {"value", "key", ":", ",", "]", "}"}
  <2>1. u \in W
    BY <1>2 DEF Closers
  <2> HIDE DEF u, W
  <2>2. [open |-> r.open, want |-> u] \in [open : Seq(Closers), want : W]
    BY <1>1, <2>1
  <2>3. Behind(r.open) = [open |-> r.open, want |-> u]
    BY DEF Behind, u
  <2>4. Readers = [open : Seq(Closers), want : W]
    BY DEF Readers, W
  <2> QED
    BY <2>2, <2>3, <2>4
<1>4. AfterValue(r) = [open |-> r.open, want |-> IF r.open = <<>> THEN {} ELSE {",", Last(r.open)}]
  BY ReaderWants DEF AfterValue
<1> QED
  BY <1>3, <1>4 DEF Behind

\* Where each token leads the reader from.
LEMMA TokenSteps ==
  ASSUME NEW r \in Readers
  PROVE  /\ "value" \in r.want => JsonStep(r, "number") = Behind(r.open)
         /\ "value" \in r.want /\ "key" \notin r.want => JsonStep(r, "string") = Behind(r.open)
         /\ "key" \in r.want /\ "value" \notin r.want => JsonStep(r, "string") = [open |-> r.open, want |-> {":"}]
         /\ ":" \in r.want => JsonStep(r, ":") = [open |-> r.open, want |-> {"value"}]
         /\ "value" \in r.want => JsonStep(r, "[") = [open |-> Append(r.open, "]"), want |-> {"value", "]"}]
         /\ "value" \in r.want => JsonStep(r, "{") = [open |-> Append(r.open, "}"), want |-> {"key", "}"}]
         /\ "," \in r.want => JsonStep(r, ",") = [open |-> r.open, want |-> IF Last(r.open) = "]" THEN {"value"} ELSE {"key"}]
         /\ \A t \in Closers : t \in r.want => JsonStep(r, t) = AfterValue([r EXCEPT !.open = Front(@)])
<1>0. AfterValue(r) = Behind(r.open)
  BY AfterReader
<1>1. ASSUME "value" \in r.want PROVE JsonStep(r, "number") = Behind(r.open)
  BY <1>0, <1>1, SMT DEF JsonStep
<1>2. ASSUME "value" \in r.want, "key" \notin r.want PROVE JsonStep(r, "string") = Behind(r.open)
  BY <1>0, <1>2, SMT DEF JsonStep
<1>3. ASSUME "key" \in r.want, "value" \notin r.want PROVE JsonStep(r, "string") = [open |-> r.open, want |-> {":"}]
  <2>1. JsonStep(r, "string") = [r EXCEPT !.want = {":"}]
    BY <1>3, SMT DEF JsonStep
  <2> QED
    BY <2>1, ReaderWants
<1>4. ASSUME ":" \in r.want PROVE JsonStep(r, ":") = [open |-> r.open, want |-> {"value"}]
  <2>1. JsonStep(r, ":") = [r EXCEPT !.want = {"value"}]
    BY <1>4, SMT DEF JsonStep
  <2> QED
    BY <2>1, ReaderWants
<1>5. ASSUME "value" \in r.want PROVE JsonStep(r, "[") = [open |-> Append(r.open, "]"), want |-> {"value", "]"}]
  BY <1>5, SMT DEF JsonStep
<1>6. ASSUME "value" \in r.want PROVE JsonStep(r, "{") = [open |-> Append(r.open, "}"), want |-> {"key", "}"}]
  BY <1>6, SMT DEF JsonStep
<1>7. ASSUME "," \in r.want
      PROVE  JsonStep(r, ",") = [open |-> r.open, want |-> IF Last(r.open) = "]" THEN {"value"} ELSE {"key"}]
  <2>1. JsonStep(r, ",") = [r EXCEPT !.want = IF Last(r.open) = "]" THEN {"value"} ELSE {"key"}]
    BY <1>7, Zenon DEF JsonStep
  <2> QED
    BY <2>1, ReaderWants
<1>8. ASSUME NEW t \in Closers, t \in r.want PROVE JsonStep(r, t) = AfterValue([r EXCEPT !.open = Front(@)])
  <2>1. t \in {"]", "}"}
    BY DEF Closers
  <2>2. CASE t = "]"
    BY <1>8, <2>2, SMT DEF JsonStep
  <2>3. CASE t = "}"
    BY <1>8, <2>3, Zenon DEF JsonStep
  <2> QED
    BY <2>1, <2>2, <2>3
<1> QED
  BY <1>1, <1>2, <1>3, <1>4, <1>5, <1>6, <1>7, <1>8

\* The tokens lead the reader from r to q.
Leads(tokens, r, q) ==
  \E f \in [0..Len(tokens) -> Readers] :
    f[0] = r /\ f[Len(tokens)] = q /\ \A k \in 1..Len(tokens) : f[k] = JsonStep(f[k - 1], tokens[k])

LEMMA LeadsOne ==
  ASSUME NEW t \in Tokens, NEW r \in Readers, NEW q \in Readers, JsonStep(r, t) = q
  PROVE  Leads(<<t>>, r, q)
<1> DEFINE f == [k \in 0..1 |-> IF k = 0 THEN r ELSE q]
<1>1. f \in [0..1 -> Readers] /\ f[0] = r /\ f[1] = q
  OBVIOUS
<1> HIDE DEF f
<1>2. Len(<<t>>) = 1 /\ <<t>>[1] = t
  OBVIOUS
<1>3. \A k \in 1..1 : f[k] = JsonStep(f[k - 1], <<t>>[k])
  <2>1. \A k \in 1..1 : k = 1 /\ k - 1 = 0
    OBVIOUS
  <2>2. f[1] = JsonStep(f[0], <<t>>[1])
    BY <1>1, <1>2
  <2> QED
    BY <2>1, <2>2
<1> QED
  BY <1>1, <1>2, <1>3 DEF Leads

LEMMA LeadsNone == ASSUME NEW r \in Readers PROVE Leads(<<>>, r, r)
<1> DEFINE f == [k \in 0..0 |-> r]
<1>1. f \in [0..0 -> Readers] /\ f[0] = r
  OBVIOUS
<1> HIDE DEF f
<1>2. Len(<<>>) = 0 /\ 1..0 = {}
  OBVIOUS
<1> QED
  BY <1>1, <1>2 DEF Leads

\* Text behind text.
LEMMA LeadsOn ==
  ASSUME NEW a \in Seq(Tokens), NEW b \in Seq(Tokens), NEW r, NEW q, NEW p,
         Leads(a, r, q), Leads(b, q, p)
  PROVE  Leads(a \o b, r, p)
<1>1. PICK f \in [0..Len(a) -> Readers] :
        f[0] = r /\ f[Len(a)] = q /\ \A k \in 1..Len(a) : f[k] = JsonStep(f[k - 1], a[k])
  BY DEF Leads
<1>2. PICK g \in [0..Len(b) -> Readers] :
        g[0] = q /\ g[Len(b)] = p /\ \A k \in 1..Len(b) : g[k] = JsonStep(g[k - 1], b[k])
  BY DEF Leads
<1> DEFINE m == Len(a)
           n == Len(b)
           h == [k \in 0..m + n |-> IF k <= m THEN f[k] ELSE g[k - m]]
<1>3. /\ a \o b \in Seq(Tokens) /\ Len(a \o b) = m + n /\ m \in Nat /\ n \in Nat
      /\ \A i \in 1..m : (a \o b)[i] = a[i]
      /\ \A i \in 1..n : (a \o b)[m + i] = b[i]
  OBVIOUS
<1> HIDE DEF m, n
<1>4. f \in [0..m -> Readers] /\ g \in [0..n -> Readers]
  BY DEF m, n
<1>5. h \in [0..m + n -> Readers]
  <2>1. ASSUME NEW k \in 0..m + n PROVE (IF k <= m THEN f[k] ELSE g[k - m]) \in Readers
    <3>1. k <= m => k \in 0..m
      BY <1>3
    <3>2. ~(k <= m) => k - m \in 0..n
      BY <1>3
    <3> QED
      BY <1>4, <3>1, <3>2
  <2> QED
    BY <2>1
<1>6. h[0] = r /\ h[m + n] = p
  <2>1. 0 \in 0..m + n /\ 0 <= m /\ m + n \in 0..m + n
    BY <1>3
  <2>2. h[0] = r
    BY <1>1, <2>1
  <2>3. CASE n = 0
    <3>1. m + n <= m /\ m + n = m
      BY <1>3, <2>3
    <3>2. q = p
      BY <1>2, <2>3 DEF n
    <3> QED
      BY <1>1, <2>1, <2>2, <3>1, <3>2 DEF m
  <2>4. CASE n # 0
    <3>1. ~(m + n <= m) /\ (m + n) - m = n
      BY <1>3, <2>4
    <3> QED
      BY <1>2, <2>1, <2>2, <3>1 DEF n
  <2> QED
    BY <2>3, <2>4
<1>7. ASSUME NEW k \in 1..m + n PROVE h[k] = JsonStep(h[k - 1], (a \o b)[k])
  <2>1. k \in 0..m + n /\ k - 1 \in 0..m + n
    BY <1>3
  <2>2. CASE k <= m
    <3>1. k \in 1..m /\ k - 1 <= m
      BY <1>3, <2>2
    <3>2. h[k] = f[k] /\ h[k - 1] = f[k - 1]
      BY <2>1, <2>2, <3>1
    <3>3. (a \o b)[k] = a[k] /\ f[k] = JsonStep(f[k - 1], a[k])
      BY <1>1, <1>3, <3>1 DEF m
    <3> QED
      BY <3>2, <3>3
  <2>3. CASE k = m + 1
    <3>1. k - m = 1 /\ k - 1 = m /\ 1 \in 1..n /\ m + 1 = k /\ ~(k <= m) /\ m <= m
      BY <1>3, <2>3
    <3>2. h[k] = g[1] /\ h[k - 1] = f[m]
      BY <2>1, <3>1
    <3>3. (a \o b)[k] = b[1] /\ g[1] = JsonStep(g[0], b[1])
      <4>1. 1 - 1 = 0
        OBVIOUS
      <4> QED
        BY <1>2, <1>3, <3>1, <4>1 DEF n
    <3> QED
      BY <1>1, <1>2, <3>2, <3>3 DEF m
  <2>4. CASE k > m + 1
    <3>1. k - m \in 1..n /\ ~(k <= m) /\ ~(k - 1 <= m) /\ (k - 1) - m = (k - m) - 1 /\ m + (k - m) = k
      BY <1>3, <2>4
    <3>2. h[k] = g[k - m] /\ h[k - 1] = g[(k - m) - 1]
      BY <2>1, <3>1
    <3>3. (a \o b)[k] = b[k - m] /\ g[k - m] = JsonStep(g[(k - m) - 1], b[k - m])
      BY <1>2, <1>3, <3>1 DEF n
    <3> QED
      BY <3>2, <3>3
  <2> QED
    BY <1>3, <2>2, <2>3, <2>4
<1> HIDE DEF h
<1>8. Len(a \o b) = m + n
  BY <1>3
<1> QED
  BY <1>5, <1>6, <1>7, <1>8 DEF Leads

\* A list of texts, each leading on from where the one before stopped.
LEMMA LeadsList ==
  ASSUME NEW s \in Seq(Seq(Tokens)), NEW st \in [0..Len(s) -> Readers],
         \A i \in 1..Len(s) : Leads(s[i], st[i - 1], st[i])
  PROVE  FlattenSeq(s) \in Seq(Tokens) /\ Leads(FlattenSeq(s), st[0], st[Len(s)])
<1>1. CASE s = <<>>
  <2>1. FlattenSeq(s) = <<>> /\ Len(s) = 0
    BY <1>1, EmptySeq DEF FlattenSeq
  <2>2. st[0] \in Readers /\ <<>> \in Seq(Tokens)
    BY <2>1
  <2> QED
    BY <2>1, <2>2, LeadsNone
<1>2. CASE s # <<>>
  <2>1. PICK fl \in [1..Len(s) -> Seq(Tokens)] :
          /\ fl[1] = s[1]
          /\ \A i \in 2..Len(s) : fl[i] = fl[i - 1] \o s[i]
          /\ FlattenSeq(s) = fl[Len(s)]
    BY <1>2, FlattenSeqIs
  <2> DEFINE n == Len(s) - 1
             R == {k \in 0..n : Leads(fl[k + 1], st[0], st[k + 1])}
  <2>2. n \in Nat /\ Len(s) = n + 1 /\ Len(s) \in 1..Len(s) /\ \A i \in 1..Len(s) : s[i] \in Seq(Tokens)
    BY <1>2, EmptySeq
  <2>3. 0 \in R
    <3>1. 1 \in 1..Len(s) /\ 0 + 1 = 1 /\ 1 - 1 = 0 /\ 0 \in 0..n
      BY <2>2
    <3>2. Leads(s[1], st[0], st[1])
      BY <3>1
    <3> QED
      BY <2>1, <3>1, <3>2
  <2>4. ASSUME NEW k \in 0..n - 1, k \in R PROVE k + 1 \in R
    <3>1. /\ k + 2 \in 1..Len(s) /\ k + 2 \in 2..Len(s) /\ k + 1 \in 1..Len(s) /\ (k + 2) - 1 = k + 1
          /\ (k + 1) + 1 = k + 2 /\ k + 1 \in 0..n
      BY <2>2
    <3>2. Leads(s[k + 2], st[k + 1], st[k + 2])
      BY <3>1
    <3>3. Leads(fl[k + 1], st[0], st[k + 1])
      BY <2>4
    <3>4. fl[k + 2] = fl[k + 1] \o s[k + 2]
      BY <2>1, <3>1
    <3>5. fl[k + 1] \in Seq(Tokens) /\ s[k + 2] \in Seq(Tokens)
      BY <2>1, <2>2, <3>1
    <3>6. Leads(fl[k + 2], st[0], st[k + 2])
      BY <3>2, <3>3, <3>4, <3>5, LeadsOn
    <3> QED
      BY <3>1, <3>6
  <2> HIDE DEF R
  <2>5. \A k \in 0..n : k \in R
    BY <2>2, <2>3, <2>4, UpTo
  <2>6. n \in R
    BY <2>2, <2>5
  <2> QED
    BY <2>1, <2>2, <2>6 DEF R
<1> QED
  BY <1>1, <1>2

\* A value, wherever one is wanted; a field, wherever a key is.
IsValue(v) ==
  /\ v \in Seq(Tokens)
  /\ \A r \in Readers : "value" \in r.want /\ "key" \notin r.want => Leads(v, r, Behind(r.open))
IsField(v) ==
  /\ v \in Seq(Tokens)
  /\ \A r \in Readers : "key" \in r.want /\ "value" \notin r.want => Leads(v, r, Behind(r.open))
\* What stands between the brackets that c closes.
Kind(c) == IF c = "]" THEN "value" ELSE "key"
IsItem(v, c) == IF c = "]" THEN IsValue(v) ELSE IsField(v)

\* Behind an opening bracket, and behind a comma.
Opened(o, c) == [open |-> Append(o, c), want |-> {Kind(c), c}]
Between(o, c) == [open |-> Append(o, c), want |-> {Kind(c)}]

LEMMA ReaderIs ==
  ASSUME NEW o \in Seq(Closers), NEW w \in SUBSET {"value", "key", ":", ",", "]", "}"}
  PROVE  [open |-> o, want |-> w] \in Readers
BY DEF Readers

LEMMA Brackets ==
  ASSUME NEW o \in Seq(Closers), NEW c \in Closers
  PROVE  /\ Append(o, c) \in Seq(Closers) /\ Append(o, c) # <<>>
         /\ Last(Append(o, c)) = c /\ Front(Append(o, c)) = o
         /\ Behind(o) \in Readers /\ Behind(Append(o, c)) \in Readers
         /\ Behind(Append(o, c)) = [open |-> Append(o, c), want |-> {",", c}]
         /\ Opened(o, c) \in Readers /\ Between(o, c) \in Readers
<1>1. Append(o, c) \in Seq(Closers) /\ Len(Append(o, c)) = Len(o) + 1 /\ Len(o) \in Nat
  OBVIOUS
<1>2. Append(o, c) # <<>>
  BY <1>1, EmptySeq
<1>3. Last(Append(o, c)) = c
  BY <1>1 DEF Last
<1>4. Front(Append(o, c)) = o
  <2> DEFINE f == SubSeq(Append(o, c), 1, Len(Append(o, c)) - 1)
  <2>1. f \in Seq(Closers) /\ Len(f) = Len(o) /\ \A i \in 1..Len(o) : f[i] = o[i]
    BY <1>1
  <2> HIDE DEF f
  <2>2. f = o
    BY <2>1, SeqEqual
  <2> QED
    BY <2>2 DEF Front, f
<1>5. ASSUME NEW q \in Seq(Closers) PROVE Behind(q) \in Readers
  <2>1. [open |-> q, want |-> {}] \in Readers
    BY ReaderIs
  <2> QED
    BY <2>1, AfterReader
<1>6. Behind(Append(o, c)) = [open |-> Append(o, c), want |-> {",", c}]
  BY <1>2, <1>3 DEF Behind
<1>7. {Kind(c), c} \in SUBSET {"value", "key", ":", ",", "]", "}"} /\ {Kind(c)} \in SUBSET {"value", "key", ":", ",", "]", "}"}
  BY DEF Kind, Closers
<1>8. Opened(o, c) \in Readers /\ Between(o, c) \in Readers
  <2> DEFINE p == Append(o, c)
             v == {Kind(c), c}
             w == {Kind(c)}
  <2> HIDE DEF p, v, w
  <2>1. [open |-> p, want |-> v] \in Readers /\ [open |-> p, want |-> w] \in Readers
    BY <1>1, <1>7, ReaderIs DEF p, v, w
  <2> QED
    BY <2>1 DEF p, v, w, Opened, Between
<1> QED
  BY <1>1, <1>2, <1>3, <1>4, <1>5, <1>6, <1>8

\* An item leads to the place behind it, from both places it may stand at.
LEMMA ItemLeads ==
  ASSUME NEW o \in Seq(Closers), NEW c \in Closers, NEW v, IsItem(v, c)
  PROVE  /\ v \in Seq(Tokens)
         /\ Leads(v, Opened(o, c), Behind(Append(o, c)))
         /\ Leads(v, Between(o, c), Behind(Append(o, c)))
<1>1. Opened(o, c) \in Readers /\ Between(o, c) \in Readers
  BY Brackets
<1>2. /\ Opened(o, c).open = Append(o, c) /\ Opened(o, c).want = {Kind(c), c}
      /\ Between(o, c).open = Append(o, c) /\ Between(o, c).want = {Kind(c)}
  BY DEF Opened, Between
<1>3. CASE c = "]"
  <2>1. Kind(c) = "value" /\ IsValue(v)
    BY <1>3 DEF Kind, IsItem
  <2>2. "value" \in {Kind(c), c} /\ "key" \notin {Kind(c), c} /\ "value" \in {Kind(c)} /\ "key" \notin {Kind(c)}
    BY <1>3, <2>1
  <2> QED
    BY <1>1, <1>2, <2>1, <2>2 DEF IsValue
<1>4. CASE c # "]"
  <2>1. Kind(c) = "key" /\ IsField(v) /\ c = "}"
    BY <1>4 DEF Kind, IsItem, Closers
  <2>2. "key" \in {Kind(c), c} /\ "value" \notin {Kind(c), c} /\ "key" \in {Kind(c)} /\ "value" \notin {Kind(c)}
    BY <2>1
  <2> QED
    BY <1>1, <1>2, <2>1, <2>2 DEF IsField
<1> QED
  BY <1>3, <1>4

LEMMA OneString == ASSUME NEW t \in Tokens PROVE <<t>> \in Seq(Tokens)
OBVIOUS

LEMMA ClosersAreStrings == ASSUME NEW c \in Closers PROVE c \in Tokens /\ <<c>> \in Seq(Tokens)
<1>1. "]" \in Tokens /\ "}" \in Tokens
  BY DEF Tokens
<1>2. c \in Tokens
  BY <1>1 DEF Closers
<1> QED
  BY <1>2, OneString

LEMMA CommaLeads ==
  ASSUME NEW o \in Seq(Closers), NEW c \in Closers
  PROVE  Leads(<<",">>, Behind(Append(o, c)), Between(o, c))
<1> DEFINE q == Behind(Append(o, c))
<1>1. /\ q \in Readers /\ Between(o, c) \in Readers /\ q = [open |-> Append(o, c), want |-> {",", c}]
      /\ Last(Append(o, c)) = c
  BY Brackets
<1> HIDE DEF q
<1>2. q.open = Append(o, c) /\ "," \in q.want
  BY <1>1
<1>3. JsonStep(q, ",") = [open |-> q.open, want |-> IF Last(q.open) = "]" THEN {"value"} ELSE {"key"}]
  BY <1>1, <1>2, TokenSteps
<1>4. JsonStep(q, ",") = Between(o, c)
  <2>1. (IF c = "]" THEN {"value"} ELSE {"key"}) = {Kind(c)}
    BY DEF Kind
  <2>2. Last(q.open) = c
    BY <1>1, <1>2
  <2>3. JsonStep(q, ",") = [open |-> Append(o, c), want |-> IF c = "]" THEN {"value"} ELSE {"key"}]
    BY <1>2, <1>3, <2>2
  <2> QED
    BY <2>1, <2>3 DEF Between
<1>5. "," \in Tokens
  BY DEF Tokens
<1> QED
  BY <1>1, <1>4, <1>5, LeadsOne DEF q

LEMMA CloserLeads ==
  ASSUME NEW o \in Seq(Closers), NEW c \in Closers, NEW q \in {Opened(o, c), Behind(Append(o, c))}
  PROVE  Leads(<<c>>, q, Behind(o))
<1>1. /\ Opened(o, c) \in Readers /\ Behind(Append(o, c)) \in Readers /\ Behind(o) \in Readers
      /\ Behind(Append(o, c)) = [open |-> Append(o, c), want |-> {",", c}]
      /\ Front(Append(o, c)) = o
  BY Brackets
<1>2. q \in Readers /\ q.open = Append(o, c) /\ c \in q.want
  <2>1. CASE q = Opened(o, c)
    BY <1>1, <2>1 DEF Opened
  <2>2. CASE q = Behind(Append(o, c))
    <3>1. q = [open |-> Append(o, c), want |-> {",", c}]
      BY <1>1, <2>2
    <3>2. q.open = Append(o, c) /\ q.want = {",", c}
      BY <3>1
    <3> QED
      BY <1>1, <2>2, <3>2
  <2> QED
    BY <2>1, <2>2
<1>3. JsonStep(q, c) = AfterValue([q EXCEPT !.open = Front(@)])
  BY <1>2, TokenSteps
<1>4. [q EXCEPT !.open = Front(@)] = [open |-> o, want |-> q.want]
  <2> DEFINE a == q.open
             b == q.want
  <2>1. q = [open |-> a, want |-> b]
    BY <1>2, RecordOf DEF Readers
  <2> HIDE DEF a, b
  <2>2. [q EXCEPT !.open = Front(@)] = [open |-> Front(a), want |-> b]
    BY <2>1
  <2> QED
    BY <1>1, <1>2, <2>2 DEF a, b
<1>5. q.want \in SUBSET {"value", "key", ":", ",", "]", "}"}
  BY <1>2 DEF Readers
<1>6. [open |-> o, want |-> q.want] \in Readers
  BY <1>5, ReaderIs
<1>7. JsonStep(q, c) = Behind(o)
  <2> DEFINE p == [open |-> o, want |-> q.want]
  <2>1. p.open = o
    OBVIOUS
  <2> HIDE DEF p
  <2>2. AfterValue(p) = Behind(p.open)
    BY <1>6, AfterReader DEF p
  <2> QED
    BY <1>3, <1>4, <2>1, <2>2 DEF p
<1>8. c \in Tokens
  BY ClosersAreStrings
<1> QED
  BY <1>1, <1>2, <1>7, <1>8, LeadsOne

\* Items with a comma before each but the first, or behind each but the last.
CommaBefore(parts, items, n) == \A i \in 1..n : parts[i] = IF i = 1 THEN items[i] ELSE <<",">> \o items[i]
CommaBehind(parts, items, n) == \A i \in 1..n : parts[i] = IF i = n THEN items[i] ELSE items[i] \o <<",">>
AllItems(items, c, n) == \A i \in 1..n : IsItem(items[i], c)
\* Items separated by commas lead from the opening bracket to where the closing one may stand.
LEMMA ItemsLead ==
  ASSUME NEW o \in Seq(Closers), NEW c \in Closers, NEW n \in Nat, NEW items, NEW parts \in Seq(Seq(Tokens)),
         Len(parts) = n, AllItems(items, c, n), CommaBefore(parts, items, n) \/ CommaBehind(parts, items, n)
  PROVE  /\ FlattenSeq(parts) \in Seq(Tokens)
         /\ \E q \in {Opened(o, c), Behind(Append(o, c))} : Leads(FlattenSeq(parts), Opened(o, c), q)
<1> DEFINE a == Opened(o, c)
           b == Between(o, c)
           z == Behind(Append(o, c))
<1>1. a \in Readers /\ b \in Readers /\ z \in Readers
  BY Brackets
<1>2. ASSUME NEW i \in 1..n PROVE items[i] \in Seq(Tokens) /\ Leads(items[i], a, z) /\ Leads(items[i], b, z)
  BY ItemLeads DEF AllItems
<1>3. Leads(<<",">>, z, b) /\ <<",">> \in Seq(Tokens)
  <2>1. "," \in Tokens
    BY DEF Tokens
  <2> QED
    BY <2>1, CommaLeads, OneString
<1> HIDE DEF a, b, z
<1>4. CASE CommaBefore(parts, items, n)
  <2> DEFINE st == [k \in 0..n |-> IF k = 0 THEN a ELSE z]
  <2>1. st \in [0..Len(parts) -> Readers]
    BY <1>1
  <2>2. ASSUME NEW i \in 1..Len(parts) PROVE Leads(parts[i], st[i - 1], st[i])
    <3>1. i \in 1..n /\ i \in 0..n /\ i - 1 \in 0..n /\ i # 0
      OBVIOUS
    <3>2. st[i] = z
      BY <3>1
    <3>3. CASE i = 1
      <4>1. st[i - 1] = a
        BY <3>1, <3>3
      <4>2. parts[i] = items[i]
        BY <1>4, <3>1, <3>3 DEF CommaBefore
      <4> QED
        BY <1>2, <3>1, <3>2, <4>1, <4>2
    <3>4. CASE i # 1
      <4>1. i - 1 # 0
        BY <3>1, <3>4
      <4>4. st[i - 1] = z
        BY <3>1, <4>1
      <4>2. parts[i] = <<",">> \o items[i]
        BY <1>4, <3>1, <3>4 DEF CommaBefore
      <4>3. Leads(<<",">> \o items[i], z, z)
        BY <1>2, <1>3, <3>1, LeadsOn
      <4> QED
        BY <3>2, <4>2, <4>3, <4>4
    <3> QED
      BY <3>3, <3>4
  <2>3. st[0] = a /\ st[Len(parts)] \in {a, z}
    OBVIOUS
  <2> HIDE DEF st
  <2>4. FlattenSeq(parts) \in Seq(Tokens) /\ Leads(FlattenSeq(parts), st[0], st[Len(parts)])
    BY <2>1, <2>2, LeadsList
  <2> QED
    BY <2>3, <2>4 DEF a, z
<1>5. CASE CommaBehind(parts, items, n)
  <2> DEFINE st == [k \in 0..n |-> IF k = 0 THEN a ELSE IF k = n THEN z ELSE b]
  <2>1. st \in [0..Len(parts) -> Readers]
    BY <1>1
  <2>2. ASSUME NEW i \in 1..Len(parts) PROVE Leads(parts[i], st[i - 1], st[i])
    <3>1. i \in 1..n /\ i \in 0..n /\ i - 1 \in 0..n /\ i # 0 /\ i - 1 # n
      OBVIOUS
    <3>2. st[i - 1] \in {a, b}
      BY <3>1
    <3>3. Leads(items[i], st[i - 1], z) /\ items[i] \in Seq(Tokens)
      BY <1>2, <3>1, <3>2
    <3>4. CASE i = n
      <4>1. st[i] = z
        BY <3>1, <3>4
      <4>2. parts[i] = items[i]
        BY <1>5, <3>1, <3>4 DEF CommaBehind
      <4> QED
        BY <3>3, <4>1, <4>2
    <3>5. CASE i # n
      <4>1. st[i] = b
        BY <3>1, <3>5
      <4>3. parts[i] = items[i] \o <<",">>
        BY <1>5, <3>1, <3>5 DEF CommaBehind
      <4>2. Leads(items[i] \o <<",">>, st[i - 1], b)
        BY <1>3, <3>3, LeadsOn
      <4> QED
        BY <4>1, <4>2, <4>3
    <3> QED
      BY <3>4, <3>5
  <2>3. st[0] = a /\ st[Len(parts)] \in {a, z}
    OBVIOUS
  <2> HIDE DEF st
  <2>4. FlattenSeq(parts) \in Seq(Tokens) /\ Leads(FlattenSeq(parts), st[0], st[Len(parts)])
    BY <2>1, <2>2, LeadsList
  <2> QED
    BY <2>3, <2>4 DEF a, z
<1> QED
  BY <1>4, <1>5

\* Brackets around them make a value.
LEMMA Bracketed ==
  ASSUME NEW c \in Closers, NEW inside \in Seq(Tokens),
         \A o \in Seq(Closers) : \E q \in {Opened(o, c), Behind(Append(o, c))} : Leads(inside, Opened(o, c), q)
  PROVE  IsValue((<<IF c = "]" THEN "[" ELSE "{">> \o inside) \o <<c>>)
<1> DEFINE t == IF c = "]" THEN "[" ELSE "{"
<1>1. t \in Tokens /\ c \in Tokens /\ <<t>> \in Seq(Tokens) /\ <<c>> \in Seq(Tokens)
  <2>1. "[" \in Tokens /\ "{" \in Tokens
    BY DEF Tokens
  <2>2. t \in Tokens
    BY <2>1
  <2> HIDE DEF t
  <2> QED
    BY <2>2, OneString, ClosersAreStrings
<1>2. ASSUME NEW r \in Readers, "value" \in r.want, "key" \notin r.want
      PROVE  Leads((<<t>> \o inside) \o <<c>>, r, Behind(r.open))
  <2> DEFINE o == r.open
  <2>1. o \in Seq(Closers)
    BY DEF Readers
  <2>2. JsonStep(r, t) = Opened(o, c)
    <3>1. CASE c = "]"
      <4>1. JsonStep(r, "[") = [open |-> Append(r.open, "]"), want |-> {"value", "]"}]
        BY <1>2, TokenSteps
      <4> QED
        BY <3>1, <4>1 DEF Opened, Kind
    <3>2. CASE c # "]"
      <4>1. JsonStep(r, "{") = [open |-> Append(r.open, "}"), want |-> {"key", "}"}]
        BY <1>2, TokenSteps
      <4>2. c = "}"
        BY <3>2 DEF Closers
      <4> QED
        BY <3>2, <4>1, <4>2 DEF Opened, Kind
    <3> QED
      BY <3>1, <3>2
  <2>3. Opened(o, c) \in Readers
    BY <2>1, Brackets
  <2>4. Leads(<<t>>, r, Opened(o, c))
    BY <1>1, <2>2, <2>3, LeadsOne
  <2> HIDE DEF o, t
  <2>5. PICK q \in {Opened(o, c), Behind(Append(o, c))} : Leads(inside, Opened(o, c), q)
    BY <2>1
  <2>6. Leads(<<c>>, q, Behind(o))
    BY <2>1, CloserLeads
  <2>7. Leads(<<t>> \o inside, r, q)
    BY <1>1, <2>4, <2>5, LeadsOn
  <2>8. <<t>> \o inside \in Seq(Tokens)
    BY <1>1, ConcatProperties
  <2>9. Leads((<<t>> \o inside) \o <<c>>, r, Behind(o))
    BY <1>1, <2>6, <2>7, <2>8, LeadsOn
  <2> QED
    BY <2>9 DEF o
<1> HIDE DEF t
<1>3. (<<t>> \o inside) \o <<c>> \in Seq(Tokens)
  <2>1. <<t>> \o inside \in Seq(Tokens)
    BY <1>1, ConcatProperties
  <2> QED
    BY <1>1, <2>1, ConcatProperties
<1>4. IsValue((<<t>> \o inside) \o <<c>>)
  BY <1>2, <1>3 DEF IsValue
<1> QED
  BY <1>4 DEF t

\* A value from the start is one JSON text.
LEMMA ValueIsJson ==
  ASSUME NEW v, IsValue(v)
  PROVE  IsJson(v)
<1>1. Reader \in Readers /\ Reader.open = <<>> /\ "value" \in Reader.want /\ "key" \notin Reader.want
  <2>1. <<>> \in Seq(Closers) /\ {"value"} \in SUBSET {"value", "key", ":", ",", "]", "}"}
    OBVIOUS
  <2>2. [open |-> <<>>, want |-> {"value"}] \in Readers
    BY <2>1, ReaderIs
  <2> QED
    BY <2>2 DEF Reader
<1>2. v \in Seq(Tokens) /\ Leads(v, Reader, Behind(<<>>))
  BY <1>1 DEF IsValue
<1>3. Behind(<<>>) = [open |-> <<>>, want |-> {}]
  BY DEF Behind
<1> DEFINE n == Len(v)
           D(g) == g = [k \in 0..n |-> IF k = 0 THEN Reader ELSE JsonStep(g[k - 1], v[k])]
           c == CHOOSE g : D(g)
<1>4. n \in Nat
  BY <1>2
<1>5. PICK f \in [0..n -> Readers] :
        f[0] = Reader /\ f[n] = Behind(<<>>) /\ \A k \in 1..n : f[k] = JsonStep(f[k - 1], v[k])
  BY <1>2 DEF Leads
<1>6. D(f)
  <2>1. ASSUME NEW k \in 0..n PROVE f[k] = IF k = 0 THEN Reader ELSE JsonStep(f[k - 1], v[k])
    <3>1. k # 0 => k \in 1..n
      BY <1>4
    <3> QED
      BY <1>5, <3>1
  <2> QED
    BY <2>1
<1>7. D(c)
  BY <1>6
<1>8. n # 0
  <2>1. SUFFICES ASSUME n = 0 PROVE FALSE
    OBVIOUS
  <2>2. Reader = [open |-> <<>>, want |-> {}]
    BY <1>3, <1>5, <2>1
  <2>3. Reader.want = {}
    BY <2>2
  <2> QED
    BY <1>1, <2>3
<1> HIDE DEF c
<1> DEFINE R == {k \in 0..n : c[k] = f[k]}
<1>9. 0 \in R
  <2>1. 0 \in 0..n
    BY <1>4
  <2> QED
    BY <1>5, <1>7, <2>1
<1>10. ASSUME NEW k \in 0..n - 1, k \in R PROVE k + 1 \in R
  <2>1. k + 1 \in 0..n /\ k + 1 \in 1..n /\ (k + 1) - 1 = k /\ k + 1 # 0
    BY <1>4
  <2>2. c[k + 1] = JsonStep(c[k], v[k + 1])
    BY <1>7, <2>1
  <2>3. f[k + 1] = JsonStep(f[k], v[k + 1])
    BY <1>5, <2>1
  <2> QED
    BY <1>10, <2>1, <2>2, <2>3
<1> HIDE DEF R
<1>11. \A k \in 0..n : k \in R
  BY <1>4, <1>9, <1>10, UpTo
<1>12. n \in R
  BY <1>4, <1>11
<1>13. c[n] = [open |-> <<>>, want |-> {}]
  BY <1>3, <1>5, <1>12 DEF R
<1>14. v # <<>>
  BY <1>8, EmptySeq
<1> QED
  BY <1>13, <1>14 DEF IsJson, c

LEMMA OneTokenIs == IsValue(<<"number">>) /\ IsValue(<<"string">>)
<1>1. "number" \in Tokens /\ "string" \in Tokens
  BY DEF Tokens
<1>2. ASSUME NEW r \in Readers, "value" \in r.want, "key" \notin r.want
      PROVE  Leads(<<"number">>, r, Behind(r.open)) /\ Leads(<<"string">>, r, Behind(r.open))
  <2>1. JsonStep(r, "number") = Behind(r.open) /\ JsonStep(r, "string") = Behind(r.open) /\ Behind(r.open) \in Readers
    BY <1>2, TokenSteps, AfterReader
  <2> QED
    BY <1>1, <2>1, LeadsOne
<1>3. <<"number">> \in Seq(Tokens) /\ <<"string">> \in Seq(Tokens)
  BY <1>1, OneString
<1> QED
  BY <1>2, <1>3 DEF IsValue

\* Numbers, literals, and texts without a quote are values.
LEMMA SimpleValues == IsValue(Number) /\ IsValue(Literal) /\ \A text : text # "quote" => IsValue(String(text))
BY OneTokenIs DEF Number, Literal, String

\* A key with a value is a field.
LEMMA FieldIs == ASSUME NEW v, IsValue(v) PROVE IsField(Field(v))
<1>1. <<"string", ":">> = <<"string">> \o <<":">>
  OBVIOUS
<1>2. "string" \in Tokens /\ ":" \in Tokens
  BY DEF Tokens
<1>3. <<"string">> \in Seq(Tokens) /\ <<":">> \in Seq(Tokens) /\ v \in Seq(Tokens)
  BY <1>2, OneString DEF IsValue
<1> DEFINE h == <<"string">>
           m == <<":">>
<1> HIDE DEF h, m
<1>4. h \in Seq(Tokens) /\ m \in Seq(Tokens)
  BY <1>3 DEF h, m
<1>5. h \o m \in Seq(Tokens) /\ (h \o m) \o v \in Seq(Tokens)
  BY <1>3, <1>4, ConcatProperties
<1>6. ASSUME NEW r \in Readers, "key" \in r.want, "value" \notin r.want
      PROVE  Leads((h \o m) \o v, r, Behind(r.open))
  <2>1. r.open \in Seq(Closers)
    BY DEF Readers
  <2> DEFINE p == [open |-> r.open, want |-> {":"}]
             q == [open |-> r.open, want |-> {"value"}]
  <2>2. p \in Readers /\ q \in Readers
    BY <2>1, ReaderIs
  <2>3. p.open = r.open /\ ":" \in p.want /\ q.open = r.open /\ "value" \in q.want /\ "key" \notin q.want
    OBVIOUS
  <2>4. JsonStep(r, "string") = p
    BY <1>6, TokenSteps
  <2>5. JsonStep(p, ":") = [open |-> p.open, want |-> {"value"}]
    BY <2>2, <2>3, TokenSteps
  <2>6. JsonStep(p, ":") = q
    BY <2>3, <2>5
  <2> HIDE DEF p, q
  <2>7. Leads(h, r, p)
    BY <1>2, <2>2, <2>4, LeadsOne DEF h
  <2>8. Leads(m, p, q)
    BY <1>2, <2>2, <2>6, LeadsOne DEF m
  <2>9. Leads(v, q, Behind(r.open))
    BY <2>2, <2>3 DEF IsValue
  <2>10. Leads(h \o m, r, q)
    BY <1>4, <2>7, <2>8, LeadsOn
  <2> QED
    BY <1>3, <1>5, <2>9, <2>10, LeadsOn
<1>7. Field(v) = (h \o m) \o v
  BY <1>1 DEF Field, h, m
<1>8. IsField((h \o m) \o v)
  BY <1>5, <1>6 DEF IsField
<1> QED
  BY <1>7, <1>8

\* A list of fields.
AreFields(fs) == fs \in Seq(Seq(Tokens)) /\ \A i \in 1..Len(fs) : IsField(fs[i])

LEMMA FieldLists ==
  /\ \A a : IsField(a) => AreFields(<<a>>)
  /\ \A a, b : AreFields(a) /\ AreFields(b) => AreFields(a \o b)
<1>1. ASSUME NEW a, IsField(a) PROVE AreFields(<<a>>)
  <2>1. a \in Seq(Tokens)
    BY <1>1 DEF IsField
  <2>2. <<a>> \in Seq(Seq(Tokens)) /\ Len(<<a>>) = 1 /\ <<a>>[1] = a
    BY <2>1
  <2> QED
    BY <1>1, <2>2 DEF AreFields
<1>2. ASSUME NEW a, NEW b, AreFields(a), AreFields(b) PROVE AreFields(a \o b)
  <2>1. a \in Seq(Seq(Tokens)) /\ b \in Seq(Seq(Tokens)) /\ Len(a) \in Nat /\ Len(b) \in Nat
    BY <1>2 DEF AreFields
  <2>2. /\ a \o b \in Seq(Seq(Tokens)) /\ Len(a \o b) = Len(a) + Len(b)
        /\ \A i \in 1..Len(a) + Len(b) : (a \o b)[i] = IF i <= Len(a) THEN a[i] ELSE b[i - Len(a)]
    BY <2>1, ConcatProperties
  <2>3. ASSUME NEW i \in 1..Len(a) + Len(b) PROVE IsField((a \o b)[i])
    <3>1. CASE i <= Len(a)
      <4>1. i \in 1..Len(a) /\ (a \o b)[i] = a[i]
        BY <2>1, <2>2, <3>1
      <4> QED
        BY <1>2, <4>1 DEF AreFields
    <3>2. CASE ~(i <= Len(a))
      <4>1. i - Len(a) \in 1..Len(b) /\ (a \o b)[i] = b[i - Len(a)]
        BY <2>1, <2>2, <3>2
      <4> QED
        BY <1>2, <4>1 DEF AreFields
    <3> QED
      BY <3>1, <3>2
  <2> QED
    BY <2>2, <2>3 DEF AreFields
<1> QED
  BY <1>1, <1>2

\* An object of fields is a value.
LEMMA ObjectIs == ASSUME NEW fields, AreFields(fields) PROVE IsValue(Object(fields))
<1> DEFINE n == Len(fields)
           parts == [i \in 1..n |-> IF i = 1 THEN fields[i] ELSE <<",">> \o fields[i]]
           F == FlattenSeq(parts)
<1>1. n \in Nat /\ \A i \in 1..n : fields[i] \in Seq(Tokens) /\ IsField(fields[i])
  BY DEF AreFields
<1>2. "," \in Tokens /\ <<",">> \in Seq(Tokens)
  BY OneString DEF Tokens
<1>3. parts \in Seq(Seq(Tokens)) /\ Len(parts) = n
  <2>1. ASSUME NEW i \in 1..n PROVE parts[i] \in Seq(Tokens)
    <3>1. <<",">> \o fields[i] \in Seq(Tokens)
      BY <1>1, <1>2, ConcatProperties
    <3> QED
      BY <1>1, <3>1
  <2>2. parts = [i \in 1..n |-> parts[i]]
    OBVIOUS
  <2> HIDE DEF parts, n
  <2> QED
    BY <1>1, <2>1, <2>2, IsSeq
<1>4. CommaBefore(parts, fields, n)
  BY DEF CommaBefore
<1>5. "}" \in Closers /\ AllItems(fields, "}", n)
  BY <1>1 DEF Closers, AllItems, IsItem
<1> HIDE DEF parts, n
<1>6. ASSUME NEW o \in Seq(Closers)
      PROVE  F \in Seq(Tokens) /\ \E q \in {Opened(o, "}"), Behind(Append(o, "}"))} : Leads(F, Opened(o, "}"), q)
  BY <1>1, <1>3, <1>4, <1>5, ItemsLead
<1>7. <<>> \in Seq(Closers)
  OBVIOUS
<1>8. F \in Seq(Tokens)
  BY <1>6, <1>7
<1> HIDE DEF F
<1>9. IsValue((<<IF "}" = "]" THEN "[" ELSE "{">> \o F) \o <<"}">>)
  BY <1>5, <1>6, <1>8, Bracketed
<1>10. (IF "}" = "]" THEN "[" ELSE "{") = "{"
  OBVIOUS
<1>11. IsValue((<<"{">> \o F) \o <<"}">>)
  BY <1>9, <1>10
<1>12. Object(fields) = (<<"{">> \o F) \o <<"}">>
  BY DEF Object, F, parts, n
<1> QED
  BY <1>11, <1>12

\* The three ways to print a list.
LEMMA ListsAre ==
  ASSUME NEW item, IsValue(item), NEW n \in Nat
  PROVE  IsValue(Separated(item, n)) /\ IsValue(Ended(item, n))
<1> DEFINE items == [i \in 1..n |-> item]
<1>1. item \in Seq(Tokens)
  BY DEF IsValue
<1>2. "," \in Tokens /\ <<",">> \in Seq(Tokens)
  BY OneString DEF Tokens
<1>3. "]" \in Closers /\ AllItems(items, "]", n)
  BY DEF Closers, AllItems, IsItem
<1>4. <<",">> \o item \in Seq(Tokens) /\ item \o <<",">> \in Seq(Tokens) /\ <<>> \o item = item /\ item \o <<>> = item
  BY <1>1, <1>2, ConcatProperties, ConcatEmptySeq
<1>5. ASSUME NEW parts \in Seq(Seq(Tokens)), Len(parts) = n, CommaBefore(parts, items, n) \/ CommaBehind(parts, items, n)
      PROVE  IsValue((<<"[">> \o FlattenSeq(parts)) \o <<"]">>)
  <2> DEFINE F == FlattenSeq(parts)
  <2> HIDE DEF items
  <2>1. ASSUME NEW o \in Seq(Closers)
        PROVE  F \in Seq(Tokens) /\ \E q \in {Opened(o, "]"), Behind(Append(o, "]"))} : Leads(F, Opened(o, "]"), q)
    BY <1>3, <1>5, ItemsLead
  <2>2. <<>> \in Seq(Closers)
    OBVIOUS
  <2>3. F \in Seq(Tokens)
    BY <2>1, <2>2
  <2> HIDE DEF F
  <2>4. IsValue((<<IF "]" = "]" THEN "[" ELSE "{">> \o F) \o <<"]">>)
    BY <1>3, <2>1, <2>3, Bracketed
  <2> QED
    BY <2>4 DEF F
<1>6. IsValue(Separated(item, n))
  <2> DEFINE parts == [i \in 1..n |-> (IF i > 1 THEN <<",">> ELSE <<>>) \o item]
  <2>1. ASSUME NEW i \in 1..n PROVE parts[i] = IF i = 1 THEN item ELSE <<",">> \o item
    <3>1. CASE i = 1
      <4>1. ~(i > 1)
        BY <3>1
      <4>2. parts[i] = <<>> \o item
        BY <4>1
      <4> HIDE DEF parts
      <4> QED
        BY <1>4, <3>1, <4>2
    <3>2. CASE i # 1
      <4>1. i > 1
        BY <3>2
      <4> QED
        BY <3>2, <4>1
    <3> QED
      BY <3>1, <3>2
  <2>2. parts = [i \in 1..n |-> parts[i]]
    OBVIOUS
  <2> HIDE DEF parts
  <2>3. \A i \in 1..n : parts[i] \in Seq(Tokens)
    BY <1>1, <1>4, <2>1
  <2>4. parts \in Seq(Seq(Tokens)) /\ Len(parts) = n
    BY <2>2, <2>3, IsSeq
  <2>5. CommaBefore(parts, items, n)
    BY <2>1 DEF CommaBefore
  <2>6. IsValue((<<"[">> \o FlattenSeq(parts)) \o <<"]">>)
    BY <1>5, <2>4, <2>5
  <2> QED
    BY <2>6 DEF Separated, parts
<1>7. IsValue(Ended(item, n))
  <2> DEFINE parts == [i \in 1..n |-> item \o (IF i - 1 >= n - 1 THEN <<>> ELSE <<",">>)]
  <2>1. ASSUME NEW i \in 1..n PROVE parts[i] = IF i = n THEN item ELSE item \o <<",">>
    <3>1. CASE i = n
      <4>1. i - 1 >= n - 1
        BY <3>1
      <4> QED
        BY <1>4, <3>1, <4>1
    <3>2. CASE i # n
      <4>1. ~(i - 1 >= n - 1)
        BY <3>2
      <4> QED
        BY <3>2, <4>1
    <3> QED
      BY <3>1, <3>2
  <2>2. parts = [i \in 1..n |-> parts[i]]
    OBVIOUS
  <2> HIDE DEF parts
  <2>3. \A i \in 1..n : parts[i] \in Seq(Tokens)
    BY <1>1, <1>4, <2>1
  <2>4. parts \in Seq(Seq(Tokens)) /\ Len(parts) = n
    BY <2>2, <2>3, IsSeq
  <2>5. CommaBehind(parts, items, n)
    BY <2>1 DEF CommaBehind
  <2>6. IsValue((<<"[">> \o FlattenSeq(parts)) \o <<"]">>)
    BY <1>5, <2>4, <2>5
  <2> QED
    BY <2>6 DEF Ended, parts
<1> QED
  BY <1>6, <1>7

\* Lists written out, one behind the other.
LEMMA Joined2 ==
  ASSUME NEW T, NEW a \in T, NEW b \in T
  PROVE  <<a>> \o <<b>> = <<a, b>>
<1> DEFINE s == <<a>> \o <<b>>
           t == <<a, b>>
<1>1. s \in Seq(T) /\ Len(s) = 2 /\ s[1] = a /\ s[2] = b
  OBVIOUS
<1>2. t \in Seq(T) /\ Len(t) = 2 /\ t[1] = a /\ t[2] = b
  OBVIOUS
<1> HIDE DEF s, t
<1>3. \A i \in 1..2 : i = 1 \/ i = 2
  OBVIOUS
<1>4. s = t
  BY <1>1, <1>2, <1>3, SeqEqual
<1> QED
  BY <1>4 DEF s, t

LEMMA Joined3 ==
  ASSUME NEW T, NEW a \in T, NEW b \in T, NEW c \in T
  PROVE  <<a, b>> \o <<c>> = <<a, b, c>>
<1> DEFINE s == <<a, b>> \o <<c>>
           t == <<a, b, c>>
<1>1. s \in Seq(T) /\ Len(s) = 3 /\ s[1] = a /\ s[2] = b /\ s[3] = c
  OBVIOUS
<1>2. t \in Seq(T) /\ Len(t) = 3 /\ t[1] = a /\ t[2] = b /\ t[3] = c
  OBVIOUS
<1> HIDE DEF s, t
<1>3. \A i \in 1..3 : i = 1 \/ i = 2 \/ i = 3
  OBVIOUS
<1>4. s = t
  BY <1>1, <1>2, <1>3, SeqEqual
<1> QED
  BY <1>4 DEF s, t

LEMMA Joined4 ==
  ASSUME NEW T, NEW a \in T, NEW b \in T, NEW c \in T, NEW d \in T
  PROVE  <<a, b, c>> \o <<d>> = <<a, b, c, d>>
<1> DEFINE s == <<a, b, c>> \o <<d>>
           t == <<a, b, c, d>>
<1>1. s \in Seq(T) /\ Len(s) = 4 /\ s[1] = a /\ s[2] = b /\ s[3] = c /\ s[4] = d
  OBVIOUS
<1>2. t \in Seq(T) /\ Len(t) = 4 /\ t[1] = a /\ t[2] = b /\ t[3] = c /\ t[4] = d
  OBVIOUS
<1> HIDE DEF s, t
<1>3. \A i \in 1..4 : i = 1 \/ i = 2 \/ i = 3 \/ i = 4
  OBVIOUS
<1>4. s = t
  BY <1>1, <1>2, <1>3, SeqEqual
<1> QED
  BY <1>4 DEF s, t

\* An answer with a payload, and one with an error, are values.
LEMMA RespIs == ASSUME NEW v, IsValue(v) PROVE IsValue(Resp(v))
<1>1. AreFields(<<Field(Number)>>) /\ AreFields(<<Field(v)>>)
  BY SimpleValues, FieldIs, FieldLists
<1>2. AreFields(<<Field(Number)>> \o <<Field(v)>>)
  BY <1>1, FieldLists
<1>3. <<Field(Number)>> \o <<Field(v)>> = <<Field(Number), Field(v)>>
  <2>1. Field(Number) \in Seq(Tokens) /\ Field(v) \in Seq(Tokens)
    BY SimpleValues, FieldIs DEF IsField
  <2> QED
    BY <2>1, Joined2
<1> QED
  BY <1>2, <1>3, ObjectIs DEF Resp

LEMMA ErrorIs == IsValue(Error)
<1>1. AreFields(<<Field(Number)>>)
  BY SimpleValues, FieldIs, FieldLists
<1> QED
  BY <1>1, ObjectIs DEF Error

LEMMA SameFields ==
  ASSUME NEW f, IsField(f), NEW n \in Nat
  PROVE  AreFields([i \in 1..n |-> f])
<1>1. f \in Seq(Tokens)
  BY DEF IsField
<1> DEFINE s == [i \in 1..n |-> f]
<1>2. s = [i \in 1..n |-> s[i]] /\ \A i \in 1..n : s[i] = f
  OBVIOUS
<1> HIDE DEF s
<1>3. s \in Seq(Seq(Tokens)) /\ Len(s) = n
  BY <1>1, <1>2, IsSeq
<1> QED
  BY <1>2, <1>3 DEF AreFields, s

\* Lists of fields written out.
LEMMA FieldsWritten ==
  ASSUME NEW a, NEW b, NEW c, NEW d, IsField(a), IsField(b), IsField(c), IsField(d)
  PROVE  AreFields(<<a, b>>) /\ AreFields(<<a, b, c>>) /\ AreFields(<<a, b, c, d>>)
<1>1. AreFields(<<a>>) /\ AreFields(<<b>>) /\ AreFields(<<c>>) /\ AreFields(<<d>>)
  BY FieldLists
<1>2. AreFields(<<a>> \o <<b>>)
  BY <1>1, FieldLists
<1>3. AreFields((<<a>> \o <<b>>) \o <<c>>)
  BY <1>1, <1>2, FieldLists
<1>4. AreFields(((<<a>> \o <<b>>) \o <<c>>) \o <<d>>)
  BY <1>1, <1>3, FieldLists
<1>5. <<a>> \o <<b>> = <<a, b>> /\ <<a, b>> \o <<c>> = <<a, b, c>> /\ <<a, b, c>> \o <<d>> = <<a, b, c, d>>
  BY Joined2, Joined3, Joined4 DEF IsField
<1> QED
  BY <1>2, <1>3, <1>4, <1>5

\* The three structures bind.c prints.
LEMMA DeviceJsonIs ==
  ASSUME NEW e, e.n \in Nat, e.text # "quote"
  PROVE  IsValue(DeviceInfoJson(e))
<1>1. IsField(Field(Ended(Number, e.n))) /\ IsField(Field(String(e.text)))
  BY SimpleValues, ListsAre, FieldIs
<1>2. AreFields([i \in 1..3 |-> Field(Ended(Number, e.n))]) /\ AreFields([i \in 1..5 |-> Field(String(e.text))])
  <2>1. 3 \in Nat /\ 5 \in Nat
    OBVIOUS
  <2> QED
    BY <1>1, <2>1, SameFields
<1>3. AreFields([i \in 1..3 |-> Field(Ended(Number, e.n))] \o [i \in 1..5 |-> Field(String(e.text))])
  BY <1>2, FieldLists
<1> QED
  BY <1>3, ObjectIs DEF DeviceInfoJson

LEMMA ObjectJsonIs ==
  ASSUME NEW e, e.text # "quote"
  PROVE  IsValue(ObjectInfoJson(e))
<1> DEFINE n == Field(Number)
           l == Field(Literal)
           t == Field(String(e.text))
           m == IF e.size # 0 THEN <<n, n>> ELSE <<>>
<1>1. IsField(n) /\ IsField(l) /\ IsField(t)
  BY SimpleValues, FieldIs
<1> HIDE DEF n, l, t
<1>2. AreFields(<<n, n, n, l>>) /\ AreFields(<<n, l, t>>) /\ AreFields(<<n, n>>) /\ AreFields(<<t, t>>)
  BY <1>1, FieldsWritten
<1>3. <<n, n, n, l, n, l, t>> = <<n, n, n, l>> \o <<n, l, t>>
  BY <1>1 DEF IsField
<1>4. AreFields(<<n, n, n, l, n, l, t>>)
  BY <1>2, <1>3, FieldLists
<1>5. AreFields(<<>>)
  BY EmptySeq DEF AreFields
<1>6. AreFields(m)
  BY <1>2, <1>5
<1> HIDE DEF m
<1>7. AreFields((<<n, n, n, l, n, l, t>> \o m) \o <<t, t>>)
  BY <1>2, <1>4, <1>6, FieldLists
<1> QED
  BY <1>7, ObjectIs DEF ObjectInfoJson, n, l, t, m

LEMMA StorageJsonIs == IsValue(StorageInfoJson)
<1>1. IsField(Field(Literal)) /\ IsField(Field(Number))
  BY SimpleValues, FieldIs
<1>2. AreFields(<<Field(Literal), Field(Number), Field(Number), Field(Number)>>)
  BY <1>1, FieldsWritten
<1> QED
  BY <1>2, ObjectIs DEF StorageInfoJson

\* A route that finishes its answer prints a value.
LEMMA AnswerIs ==
  ASSUME NEW name \in Routes \ Unfinished, NEW e, e.n \in Nat, e.text # "quote"
  PROVE  IsValue(RunRequest(name, e))
<1>1. IsValue(Number) /\ IsValue(Literal) /\ IsValue(String(e.text)) /\ IsValue(Separated(Number, e.n))
  BY SimpleValues, ListsAre
<1>2. IsField(Field(Number)) /\ IsField(Field(Literal)) /\ IsField(Field(String(e.text))) /\ IsField(Field(Separated(Number, e.n)))
  BY <1>1, FieldIs
<1>3. IsValue(Error) /\ IsValue(Resp(Number)) /\ IsValue(Resp(Separated(Number, e.n)))
  BY <1>1, ErrorIs, RespIs
<1>4. CASE name \in Plain
  <2>1. RunRequest(name, e) = Error
    BY <1>4, SMT DEF RunRequest, Plain
  <2> QED
    BY <1>3, <2>1
<1>5. CASE name = "ptp_hello_world"
  <2>1. RunRequest(name, e) = HelloWorld(e)
    BY <1>5, Zenon DEF RunRequest, Plain
  <2> QED
    BY <1>2, <2>1, FieldsWritten, ObjectIs DEF HelloWorld
<1>6. CASE name = "ptp_status"
  <2>1. RunRequest(name, e) = Status(e)
    BY <1>6, Zenon DEF RunRequest, Plain
  <2> QED
    BY <1>2, <2>1, FieldsWritten, ObjectIs DEF Status
<1>7. CASE name = "ptp_init"
  <2>1. RunRequest(name, e) = BindInit(e)
    BY <1>7, Zenon DEF RunRequest, Plain
  <2> QED
    BY <1>2, <2>1, FieldsWritten, ObjectIs DEF BindInit
<1>8. CASE name = "ptp_get_device_info"
  <2>1. RunRequest(name, e) = GetDeviceInfo(e)
    BY <1>8, Zenon DEF RunRequest, Plain
  <2>2. IsValue(Resp(DeviceInfoJson(e)))
    BY DeviceJsonIs, RespIs
  <2> QED
    BY <1>3, <2>1, <2>2 DEF GetDeviceInfo, OnSuccess
<1>9. CASE name \in {"ptp_get_liveview_type", "ptp_get_device_type"}
  <2>1. CASE name = "ptp_get_liveview_type"
    <3>1. RunRequest(name, e) = GetLiveviewType(e)
      BY <2>1, Zenon DEF RunRequest, Plain
    <3> QED
      BY <1>3, <3>1 DEF GetLiveviewType
  <2>2. CASE name = "ptp_get_device_type"
    <3>1. RunRequest(name, e) = GetDeviceType(e)
      BY <2>2, Zenon DEF RunRequest, Plain
    <3> QED
      BY <1>3, <3>1 DEF GetDeviceType
  <2> QED
    BY <1>9, <2>1, <2>2
<1>10. CASE name = "ptp_get_property"
  <2>1. RunRequest(name, e) = GetProperty(e)
    BY <1>10, Zenon DEF RunRequest, Plain
  <2> QED
    BY <1>3, <2>1 DEF GetProperty, OnSuccess
<1>11. CASE name = "ptp_get_enums"
  <2>1. RunRequest(name, e) = GetEnums(e)
    BY <1>11, Zenon DEF RunRequest, Plain
  <2> DEFINE o == Object(<<Field(Number), Field(Number), Field(Literal), Field(Number)>>)
  <2>2. IsValue(o)
    BY <1>2, FieldsWritten, ObjectIs
  <2>3. IsValue(Resp(Separated(o, EnumCount)))
    BY <2>2, EnumAssumption, ListsAre, RespIs
  <2> QED
    BY <2>1, <2>3 DEF GetEnums
<1>12. CASE name = "ptp_get_status"
  <2>1. RunRequest(name, e) = GetStatus(e)
    BY <1>12, Zenon DEF RunRequest, Plain
  <2> QED
    BY <1>2, <2>1, FieldsWritten, ObjectIs DEF GetStatus
<1>13. CASE name = "ptp_get_return_code"
  <2>1. RunRequest(name, e) = GetReturnCode(e)
    BY <1>13, Zenon DEF RunRequest, Plain
  <2> QED
    BY <1>2, <2>1, FieldsWritten, ObjectIs DEF GetReturnCode
<1>14. CASE name \in {"ptp_get_storage_ids", "ptp_get_object_handles"}
  <2>1. CASE name = "ptp_get_storage_ids"
    <3>1. RunRequest(name, e) = GetStorageIds(e)
      BY <2>1, Zenon DEF RunRequest, Plain
    <3> QED
      BY <1>3, <3>1 DEF GetStorageIds, OnSuccess
  <2>2. CASE name = "ptp_get_object_handles"
    <3>1. RunRequest(name, e) = GetObjectHandles(e)
      BY <2>2, Zenon DEF RunRequest, Plain
    <3> QED
      BY <1>3, <3>1 DEF GetObjectHandles, OnSuccess
  <2> QED
    BY <1>14, <2>1, <2>2
<1>15. CASE name \in {"ptp_get_thumbnail", "ptp_get_partial_object"}
  <2>1. CASE name = "ptp_get_thumbnail"
    <3>1. RunRequest(name, e) = GetThumbnail(e)
      BY <2>1, Zenon DEF RunRequest, Plain
    <3> QED
      BY <1>3, <3>1 DEF GetThumbnail
  <2>2. CASE name = "ptp_get_partial_object"
    <3>1. RunRequest(name, e) = GetPartialObject(e)
      BY <2>2, Zenon DEF RunRequest, Plain
    <3> QED
      BY <1>3, <3>1 DEF GetPartialObject
  <2> QED
    BY <1>15, <2>1, <2>2
<1>16. CASE name = "ptp_download_file"
  <2>1. RunRequest(name, e) = DownloadFile(e)
    BY <1>16, Zenon DEF RunRequest, Plain
  <2> QED
    BY <1>3, <2>1 DEF DownloadFile
<1>17. name \in Plain \cup {"ptp_hello_world", "ptp_status", "ptp_init", "ptp_get_device_info",
         "ptp_get_liveview_type", "ptp_get_device_type", "ptp_get_property", "ptp_get_enums", "ptp_get_status",
         "ptp_get_return_code", "ptp_get_storage_ids", "ptp_get_object_handles", "ptp_get_thumbnail",
         "ptp_get_partial_object", "ptp_download_file"}
  BY DEF Routes, Unfinished
<1> QED
  BY <1>4, <1>5, <1>6, <1>7, <1>8, <1>9, <1>10, <1>11, <1>12, <1>13, <1>14, <1>15, <1>16, <1>17

\* For camera lists of any length and texts without a quote: every route that
\* finishes its answer, and each printed structure, is one JSON text, however
\* the nested lists are separated (bind.c:3-5, 76-521, data.c:525-628).
THEOREM AnswersAreTexts ==
  ASSUME \A j \in AllJobs : j.kind \in {"request", "print"} => RequestJob(j)
  PROVE  Spec => []AnswersAreJson
<1> DEFINE Job == job \in AllJobs
<1>1. Init => Job /\ AnswersAreJson
  BY DEF Init, AllJobs, AnswersAreJson, Finished, Nothing
<1>2. Job /\ AnswersAreJson /\ [Next]_vars => (Job /\ AnswersAreJson)'
  <2> SUFFICES ASSUME Job, AnswersAreJson, [Next]_vars PROVE (Job /\ AnswersAreJson)'
    OBVIOUS
  <2>1. job' = job
    BY Steps
  <2>2. CASE job.kind \notin {"request", "print"}
    BY <2>1, <2>2 DEF AnswersAreJson, Finished
  <2>3. CASE result' = result
    BY <2>1, <2>3 DEF AnswersAreJson, Finished
  <2>4. CASE job.kind = "request" /\ result' # result
    <3>1. result'.value = RunRequest(job.name, job.env)
      BY <2>4, Steps
    <3>2. job.name \in Routes /\ job.env.n \in Nat
      BY <2>4 DEF RequestJob
    <3>3. job.name \notin Unfinished /\ job.env.text # "quote" => IsJson(RunRequest(job.name, job.env))
      BY <3>2, AnswerIs, ValueIsJson
    <3> QED
      BY <2>1, <2>4, <3>1, <3>3 DEF AnswersAreJson, Finished
  <2>5. CASE job.kind = "print" /\ result' # result
    <3>1. result'.value = InfoJson(job.name, job.env)
      BY <2>5, Steps
    <3>2. job.name \in {"device", "object", "storage"} /\ job.env.n \in Nat /\ job.env.text # "quote"
      BY <2>5 DEF RequestJob
    <3>3. IsValue(InfoJson(job.name, job.env))
      <4>1. CASE job.name = "device"
        BY <3>2, <4>1, DeviceJsonIs DEF InfoJson
      <4>2. CASE job.name = "object"
        BY <3>2, <4>2, ObjectJsonIs DEF InfoJson
      <4>3. CASE job.name = "storage"
        BY <3>2, <4>3, StorageJsonIs DEF InfoJson
      <4> QED
        BY <3>2, <4>1, <4>2, <4>3
    <3> QED
      BY <2>1, <2>5, <3>1, <3>3, ValueIsJson DEF AnswersAreJson, Finished
  <2> QED
    BY <2>2, <2>3, <2>4, <2>5
<1> QED
  BY <1>1, <1>2, PTL DEF Spec

-----------------------------------------------------------------------------
(* Captures.                                                               *)

\* What is read at the positions of a container.
LEMMA UnitsIs ==
  ASSUME NEW c \in Containers, c.length = 1 + Len(c.inside)
  PROVE  /\ Units(c) \in Seq(Readings) /\ Len(Units(c)) = c.length /\ c.length \in Nat /\ c.length > 0
         /\ Units(c)[1] = Start(c) /\ Start(c) \in Readings
         /\ \A i \in 2..c.length : Units(c)[i] = c.inside[i - 1] /\ i - 1 \in 1..Len(c.inside)
<1> DEFINE b == c.inside
           n == Len(b)
           s == Start(c)
<1>1. b \in Seq(Readings) /\ c.length \in Nat
  BY DEF Containers
<1>2. s \in Readings
  BY DEF Containers, Readings, Start, ReadAs
<1>3. n \in Nat /\ c.length = 1 + n
  BY <1>1
<1>4. Units(c) = <<s>> \o b
  BY DEF Units
<1> HIDE DEF b, s
<1>5. <<s>> \in Seq(Readings) /\ Len(<<s>>) = 1 /\ <<s>>[1] = s
  BY <1>2
<1>6. /\ <<s>> \o b \in Seq(Readings) /\ Len(<<s>> \o b) = 1 + n /\ (<<s>> \o b)[1] = s
      /\ \A i \in 1..n : (<<s>> \o b)[1 + i] = b[i]
  BY <1>1, <1>5
<1>7. ASSUME NEW i \in 2..c.length PROVE Units(c)[i] = b[i - 1] /\ i - 1 \in 1..n
  <2>1. i - 1 \in 1..n /\ 1 + (i - 1) = i
    BY <1>3
  <2> QED
    BY <1>4, <1>6, <2>1
<1> QED
  BY <1>2, <1>3, <1>4, <1>6, <1>7 DEF b, s

\* Containers of the length they claim, and the traffic they make.
Solid(cs) == cs \in Seq(Containers) /\ \A k \in 1..Len(cs) : cs[k].length = 1 + Len(cs[k].inside)
Flow(cs) == FlattenSeq([i \in 1..Len(cs) |-> Units(cs[i])])

\* Where each container stands in the traffic.
LEMMA Layout ==
  ASSUME NEW cs, Solid(cs)
  PROVE  LET e == Ends(cs)
             n == Len(cs)
         IN  /\ Flow(cs) \in Seq(Readings)
             /\ e \in [0..n -> Nat] /\ e[0] = 0 /\ e[n] = Len(Flow(cs))
             /\ \A i \in 1..n : e[i] = e[i - 1] + cs[i].length /\ Stands(Units(cs[i]), Flow(cs), e[i - 1])
<1> DEFINE parts == [i \in 1..Len(cs) |-> Units(cs[i])]
           n == Len(cs)
           d == FlattenSeq(parts)
           D(g) == g = [k \in 0..n |-> IF k = 0 THEN 0 ELSE g[k - 1] + cs[k].length]
           c == CHOOSE g : D(g)
<1>1. n \in Nat /\ \A i \in 1..n : cs[i] \in Containers /\ cs[i].length = 1 + Len(cs[i].inside)
  BY DEF Solid
<1>2. \A i \in 1..n : parts[i] = Units(cs[i]) /\ parts[i] \in Seq(Readings) /\ Len(parts[i]) = cs[i].length
  BY <1>1, UnitsIs
<1>3. parts = [i \in 1..n |-> parts[i]]
  OBVIOUS
<1>4. Flow(cs) = d
  BY DEF Flow
<1> HIDE DEF parts, n
<1>5. parts \in Seq(Seq(Readings)) /\ Len(parts) = n
  BY <1>1, <1>2, <1>3, IsSeq
<1>6. d \in Seq(Readings) /\ \E off : Places(off, parts)
  BY <1>5, PartsStand
<1>7. PICK off : Places(off, parts)
  BY <1>6
<1>8. /\ off \in [0..n -> Nat] /\ off[0] = 0 /\ off[n] = Len(d)
      /\ \A i \in 1..n : off[i] = off[i - 1] + cs[i].length /\ Stands(Units(cs[i]), d, off[i - 1])
  BY <1>2, <1>5, <1>7 DEF Places
<1> HIDE DEF d
<1>9. D(off)
  <2>1. ASSUME NEW k \in 0..n PROVE off[k] = IF k = 0 THEN 0 ELSE off[k - 1] + cs[k].length
    <3>1. k # 0 => k \in 1..n
      BY <1>1
    <3> QED
      BY <1>8, <3>1
  <2> QED
    BY <1>8, <2>1
<1>10. D(c)
  BY <1>9
<1>11. Ends(cs) = c
  BY DEF Ends, n
<1> HIDE DEF c
<1> DEFINE R == {k \in 0..n : c[k] = off[k]}
<1>12. 0 \in R
  <2>1. 0 \in 0..n
    BY <1>1
  <2> QED
    BY <1>8, <1>10, <2>1
<1>13. ASSUME NEW k \in 0..n - 1, k \in R PROVE k + 1 \in R
  <2>1. k + 1 \in 0..n /\ k + 1 \in 1..n /\ (k + 1) - 1 = k /\ k + 1 # 0
    BY <1>1
  <2>2. c[k + 1] = c[k] + cs[k + 1].length
    BY <1>10, <2>1
  <2>3. off[k + 1] = off[k] + cs[k + 1].length
    BY <1>8, <2>1
  <2> QED
    BY <1>13, <2>1, <2>2, <2>3
<1> HIDE DEF R
<1>14. \A k \in 0..n : k \in R
  BY <1>1, <1>12, <1>13, UpTo
<1>15. \A k \in 0..n : c[k] = off[k]
  BY <1>14 DEF R
<1>16. c = off
  <2>1. c = [k \in 0..n |-> c[k]]
    BY <1>10
  <2>2. off = [k \in 0..n |-> off[k]]
    BY <1>8
  <2> QED
    BY <1>15, <2>1, <2>2
<1> QED
  BY <1>4, <1>6, <1>8, <1>11, <1>16 DEF n

\* Containers end one behind the other.
LEMMA EndsGrow ==
  ASSUME NEW cs, Solid(cs), NEW i \in 0..Len(cs), NEW k \in 0..Len(cs), i < k
  PROVE  Ends(cs)[i] < Ends(cs)[k]
<1> DEFINE e == Ends(cs)
           n == Len(cs)
           m == n - i
           R == {j \in 0..m : j # 0 => e[i] < e[i + j]}
<1>1. n \in Nat /\ \A j \in 1..n : cs[j].length > 0 /\ cs[j].length \in Nat
  <2>1. n \in Nat /\ \A j \in 1..n : cs[j] \in Containers /\ cs[j].length = 1 + Len(cs[j].inside)
    BY DEF Solid
  <2> QED
    BY <2>1, UnitsIs
<1>2. e \in [0..n -> Nat] /\ \A j \in 1..n : e[j] = e[j - 1] + cs[j].length
  BY Layout
<1> HIDE DEF e, n
<1>3. i \in 0..n /\ k \in 0..n
  BY DEF n
<1>4. 0 \in R /\ m \in Nat
  BY <1>1, <1>3
<1>5. ASSUME NEW j \in 0..m - 1, j \in R PROVE j + 1 \in R
  <2>1. i + (j + 1) \in 1..n /\ (i + (j + 1)) - 1 = i + j /\ i + j \in 0..n /\ j + 1 \in 0..m
    BY <1>1, <1>3
  <2>2. e[i + (j + 1)] = e[i + j] + cs[i + (j + 1)].length
    BY <1>2, <2>1
  <2>3. e[i + j] \in Nat /\ e[i] \in Nat /\ (j = 0 => e[i + j] = e[i])
    <3>1. j = 0 => i + j = i
      BY <1>1, <1>3
    <3> QED
      BY <1>2, <1>3, <2>1, <3>1
  <2>4. cs[i + (j + 1)].length > 0 /\ cs[i + (j + 1)].length \in Nat
    BY <1>1, <2>1
  <2>5. e[i] < e[i + (j + 1)]
    <3>1. j # 0 => e[i] < e[i + j]
      BY <1>5
    <3>2. e[i] <= e[i + j]
      BY <2>3, <3>1
    <3> QED
      BY <2>2, <2>3, <2>4, <3>2
  <2> QED
    BY <2>1, <2>5
<1> HIDE DEF R, m
<1>6. \A j \in 0..m : j \in R
  BY <1>4, <1>5, UpTo
<1>7. k - i \in 0..m /\ k - i # 0 /\ i + (k - i) = k
  BY <1>1, <1>3 DEF m
<1> QED
  BY <1>6, <1>7 DEF R, e

\* The state of the decoder.
Kinds == {"command", "data", "response", "event", "none"}
Entries == [at : Nat, heading : {"command", "data", "random", "response", "none"}, read : Readings]
Contexts == [unfinished : Int, last : Kinds, printed : Seq(Entries), failed : BOOLEAN]

\* The headings are right, and the next one will be.
Told(ctx) ==
  /\ Announced(ctx.printed)
  /\ ctx.last = IF Len(ctx.printed) = 0 THEN "response" ELSE ctx.printed[Len(ctx.printed)].read.type

\* A context without a failure: what was printed, what a data container misses.
Context(ctx, p, u) ==
  ctx \in Contexts /\ ReadOf(ctx.printed) = p /\ ctx.unfinished = u /\ ~ctx.failed /\ Told(ctx)

LEMMA ContextOf ==
  ASSUME NEW u \in Int, NEW l \in Kinds, NEW p \in Seq(Entries), NEW b \in BOOLEAN
  PROVE  [unfinished |-> u, last |-> l, printed |-> p, failed |-> b] \in Contexts
BY DEF Contexts

LEMMA FreshIs == Context(Fresh, <<>>, 0)
<1>1. <<>> \in Seq(Entries) /\ 0 \in Int /\ "response" \in Kinds /\ FALSE \in BOOLEAN /\ Len(<<>>) = 0 /\ 1..0 = {}
  BY DEF Kinds
<1>2. Fresh \in Contexts
  BY <1>1, ContextOf DEF Fresh
<1>3. Announced(<<>>) /\ ReadOf(<<>>) = <<>>
  <2>1. Announced(<<>>)
    BY <1>1 DEF Announced
  <2>2. ReadOf(<<>>) = [i \in 1..0 |-> <<>>[i].read]
    BY <1>1 DEF ReadOf
  <2> DEFINE c == ReadOf(<<>>)
  <2>3. c = [i \in 1..0 |-> c[i]] /\ \A i \in 1..0 : c[i] \in Entries
    BY <1>1, <2>2
  <2> HIDE DEF c
  <2>4. c \in Seq(Entries) /\ Len(c) = 0
    BY <2>3, IsSeq
  <2>5. c = <<>>
    BY <2>4, EmptySeq
  <2> QED
    BY <2>1, <2>5 DEF c
<1>4. Fresh.printed = <<>> /\ Fresh.unfinished = 0 /\ Fresh.failed = FALSE /\ Fresh.last = "response"
  BY DEF Fresh
<1> QED
  BY <1>1, <1>2, <1>3, <1>4 DEF Context, Told

\* One entry more is one reading more.
LEMMA ReadOfMore ==
  ASSUME NEW s \in Seq(Entries), NEW e \in Entries
  PROVE  /\ ReadOf(s) \in Seq(Readings) /\ Len(ReadOf(s)) = Len(s)
         /\ ReadOf(Append(s, e)) = Append(ReadOf(s), e.read)
<1> DEFINE n == Len(s)
           t == Append(s, e)
           a == ReadOf(t)
           b == ReadOf(s)
           c == Append(b, e.read)
<1>1. n \in Nat /\ (\A i \in 1..n : s[i] \in Entries) /\ e.read \in Readings
  <2>1. n \in Nat /\ \A i \in 1..n : s[i] \in Entries
    OBVIOUS
  <2>2. e.read \in Readings
    BY DEF Entries
  <2> QED
    BY <2>1, <2>2
<1>2. t \in Seq(Entries) /\ Len(t) = n + 1 /\ t[n + 1] = e /\ \A i \in 1..n : t[i] = s[i]
  BY <1>1
<1>3. b = [i \in 1..n |-> s[i].read] /\ a = [i \in 1..Len(t) |-> t[i].read]
  BY DEF ReadOf
<1> HIDE DEF t, a, b, n
<1>4. a = [i \in 1..n + 1 |-> t[i].read]
  BY <1>2, <1>3
<1>5. b \in Seq(Readings) /\ Len(b) = n
  <2>1. \A i \in 1..n : s[i].read \in Readings
    BY <1>1 DEF Entries
  <2>2. b = [i \in 1..n |-> b[i]] /\ \A i \in 1..n : b[i] \in Readings
    BY <1>3, <2>1
  <2> QED
    BY <1>1, <2>2, IsSeq
<1>6. a \in Seq(Readings) /\ Len(a) = n + 1
  <2>1. \A i \in 1..n + 1 : t[i] \in Entries
    BY <1>2
  <2>2. a = [i \in 1..n + 1 |-> a[i]] /\ \A i \in 1..n + 1 : a[i] \in Readings
    BY <1>4, <2>1 DEF Entries
  <2> QED
    BY <1>1, <2>2, IsSeq
<1>7. c \in Seq(Readings) /\ Len(c) = n + 1 /\ c[n + 1] = e.read /\ \A i \in 1..n : c[i] = b[i]
  BY <1>1, <1>5
<1> HIDE DEF c
<1>8. ASSUME NEW i \in 1..n + 1 PROVE a[i] = c[i]
  <2>1. CASE i = n + 1
    BY <1>2, <1>4, <1>7, <2>1
  <2>2. CASE i # n + 1
    <3>1. i \in 1..n
      BY <1>1, <2>2
    <3> QED
      BY <1>2, <1>3, <1>4, <1>7, <3>1
  <2> QED
    BY <2>1, <2>2
<1>9. a = c
  BY <1>6, <1>7, <1>8, SeqEqual
<1> QED
  BY <1>5, <1>9 DEF a, b, c, t, n

\* Headings stay right with the one that is asked for.
LEMMA ToldOn ==
  ASSUME NEW ctx \in Contexts, Told(ctx), NEW e \in Entries, e.heading = Heading(ctx.last, e.read.type),
         NEW r, r.printed = Append(ctx.printed, e), r.last = e.read.type
  PROVE  Told(r)
<1> DEFINE s == ctx.printed
           n == Len(s)
           t == r.printed
<1>1. s \in Seq(Entries) /\ n \in Nat
  BY DEF Contexts
<1>2. /\ Announced(s)
      /\ ctx.last = IF n = 0 THEN "response" ELSE s[n].read.type
  BY DEF Told
<1>3. t \in Seq(Entries) /\ Len(t) = n + 1 /\ t[n + 1] = e /\ \A i \in 1..n : t[i] = s[i]
  BY <1>1
<1> HIDE DEF s, n, t
<1>4. ASSUME NEW i \in 1..n + 1
      PROVE  t[i].heading = Heading(IF i = 1 THEN "response" ELSE t[i - 1].read.type, t[i].read.type)
  <2>1. CASE i = n + 1
    <3>1. ctx.last = IF i = 1 THEN "response" ELSE t[i - 1].read.type
      <4>1. CASE n = 0
        BY <1>2, <2>1, <4>1
      <4>2. CASE n # 0
        <5>1. i # 1 /\ i - 1 = n /\ n \in 1..n
          BY <1>1, <2>1, <4>2
        <5> QED
          BY <1>2, <1>3, <4>2, <5>1
      <4> QED
        BY <4>1, <4>2
    <3> QED
      BY <1>3, <2>1, <3>1
  <2>2. CASE i # n + 1
    <3>1. i \in 1..n /\ (i # 1 => i - 1 \in 1..n)
      BY <1>1, <2>2
    <3>2. s[i].heading = Heading(IF i = 1 THEN "response" ELSE s[i - 1].read.type, s[i].read.type)
      BY <1>2, <3>1 DEF Announced, n
    <3> QED
      BY <1>3, <3>1, <3>2
  <2> QED
    BY <2>1, <2>2
<1>5. Announced(t)
  BY <1>3, <1>4 DEF Announced
<1>6. r.last = IF Len(t) = 0 THEN "response" ELSE t[Len(t)].read.type
  BY <1>1, <1>3
<1> QED
  BY <1>5, <1>6 DEF Told, t

\* A container is printed and what it misses is noted.
LEMMA PrintContainerIs ==
  ASSUME NEW ctx \in Contexts, NEW at \in Nat, NEW c \in Readings, NEW size \in Nat
  PROVE  LET r == PrintContainer(ctx, at, c, size)
             e == [at |-> at, heading |-> Heading(ctx.last, c.type), read |-> c]
         IN  /\ r \in Contexts /\ e \in Entries
             /\ ~Refused(c) =>
                  /\ r.failed = ctx.failed /\ r.printed = Append(ctx.printed, e)
                  /\ r.unfinished = IF c.type = "data" /\ size < c.length THEN c.length - size ELSE ctx.unfinished
                  /\ Told(ctx) => Told(r)
<1> DEFINE e == [at |-> at, heading |-> Heading(ctx.last, c.type), read |-> c]
<1>1. c.type \in Kinds /\ c.length \in Nat
  BY DEF Readings, Kinds
<1>2. /\ ctx.unfinished \in Int /\ ctx.last \in Kinds
      /\ ctx.printed \in Seq(Entries) /\ ctx.failed \in BOOLEAN
      /\ ctx = [unfinished |-> ctx.unfinished, last |-> ctx.last,
                printed |-> ctx.printed, failed |-> ctx.failed]
  BY DEF Contexts
<1>3. e \in Entries
  <2>1. Heading(ctx.last, c.type) \in {"command", "data", "random", "response", "none"}
    BY <1>1 DEF Heading, Kinds
  <2> QED
    BY <2>1 DEF Entries
<1>4. CASE Refused(c)
  <2>1. PrintContainer(ctx, at, c, size) = [ctx EXCEPT !.failed = TRUE]
    BY <1>4 DEF PrintContainer
  <2>2. [ctx EXCEPT !.failed = TRUE] \in Contexts
    BY DEF Contexts
  <2> QED
    BY <1>3, <1>4, <2>1, <2>2
<1>5. CASE ~Refused(c)
  <2> DEFINE p == Append(ctx.printed, e)
             u == IF c.type = "data" /\ size < c.length THEN c.length - size ELSE ctx.unfinished
             l == c.type
             r == [printed |-> p, unfinished |-> u, last |-> l, failed |-> ctx.failed]
  <2>1. PrintContainer(ctx, at, c, size) = r
    BY <1>5 DEF PrintContainer
  <2> HIDE DEF e
  <2>2. p \in Seq(Entries) /\ u \in Int /\ l \in Kinds
    BY <1>1, <1>2, <1>3
  <2> HIDE DEF p, u, l
  <2>3. r = [unfinished |-> u, last |-> l, printed |-> p, failed |-> ctx.failed]
    OBVIOUS
  <2> HIDE DEF r
  <2>4. r \in Contexts
    BY <1>2, <2>2, <2>3, ContextOf
  <2>5. r.failed = ctx.failed /\ r.printed = p /\ r.unfinished = u /\ r.last = l
    BY <2>3
  <2> HIDE DEF r
  <2>6. Told(ctx) => Told(r)
    <3>1. e.heading = Heading(ctx.last, e.read.type) /\ e.read.type = l
      BY DEF e, l
    <3>2. r.printed = Append(ctx.printed, e) /\ r.last = e.read.type
      BY <2>5, <3>1 DEF p
    <3> QED
      BY <1>3, <3>1, <3>2, ToldOn
  <2> QED
    BY <1>3, <1>5, <2>1, <2>4, <2>5, <2>6 DEF p, u, e
<1> QED
  BY <1>4, <1>5

\* A dump: what does not pass for a container changes nothing.
LEMMA DumpUnitIs ==
  ASSUME NEW ctx \in Contexts, NEW units \in Seq(Readings), NEW k \in 1..Len(units), NEW fatal
  PROVE  /\ DumpUnit(ctx, units, k, fatal) \in Contexts
         /\ ~Passes(units[k]) => DumpUnit(ctx, units, k, fatal) = ctx
<1> DEFINE c == units[k]
<1>1. c \in Readings /\ k \in Nat /\ c.length \in Nat
  <2>1. c \in Readings /\ k \in Nat
    OBVIOUS
  <2> HIDE DEF c
  <2> QED
    BY <2>1 DEF Readings
<1>2. CASE ctx.failed \/ ~Passes(c)
  BY <1>2 DEF DumpUnit
<1>3. CASE ~(ctx.failed \/ ~Passes(c)) /\ Stops(units, k, fatal)
  <2>1. DumpUnit(ctx, units, k, fatal) = [ctx EXCEPT !.failed = TRUE]
    BY <1>3 DEF DumpUnit
  <2>2. [ctx EXCEPT !.failed = TRUE] \in Contexts
    BY DEF Contexts
  <2> QED
    BY <1>3, <2>1, <2>2
<1>4. CASE ~(ctx.failed \/ ~Passes(c)) /\ ~Stops(units, k, fatal)
  <2>1. DumpUnit(ctx, units, k, fatal) = PrintContainer(ctx, k, c, c.length)
    BY <1>4 DEF DumpUnit
  <2> HIDE DEF c
  <2> QED
    BY <1>1, <1>4, <2>1, PrintContainerIs DEF c
<1> QED
  BY <1>2, <1>3, <1>4

\* A container it knows is printed and leaves nothing open.
LEMMA StartIs ==
  ASSUME NEW c, Whole(c)
  PROVE  /\ c \in Containers /\ c.length = 1 + Len(c.inside) /\ c.length \in Nat /\ c.length > 0
         /\ Start(c) \in Readings /\ Start(c).length = c.length /\ Start(c).type = c.type
         /\ Passes(Start(c)) /\ ~Refused(Start(c)) /\ c.length >= BulkHeader
<1>1. /\ c \in Containers /\ Passes(c) /\ c.length = 1 + Len(c.inside) /\ c.length >= BulkHeader
      /\ c.type = "command" => c.length <= CommandMax
  BY DEF Whole
<1>2. c.length \in Nat /\ c.length > 0 /\ Start(c) \in Readings
  BY <1>1, UnitsIs
<1>3. Start(c).length = c.length /\ Start(c).type = c.type /\ Start(c).group = c.group
  BY DEF Start, ReadAs
<1>4. Passes(Start(c))
  BY <1>1, <1>3 DEF Passes
<1>5. ~Refused(Start(c))
  BY <1>1, <1>2, <1>3, HeadersAssumption DEF Refused
<1> QED
  BY <1>1, <1>2, <1>3, <1>4, <1>5

\* A container it knows is printed and leaves nothing open.
LEMMA DumpKnown ==
  ASSUME NEW c, Whole(c), NEW units \in Seq(Readings), NEW k \in 1..Len(units), units[k] = Start(c),
         c.length <= Len(units) - k + 1, NEW fatal, NEW ctx, NEW p, Context(ctx, p, 0)
  PROVE  Context(DumpUnit(ctx, units, k, fatal), Append(p, Start(c)), 0)
<1> DEFINE s == Start(c)
           e == [at |-> k, heading |-> Heading(ctx.last, s.type), read |-> s]
           r == PrintContainer(ctx, k, s, s.length)
<1>1. /\ c.length \in Nat /\ s \in Readings /\ s.length = c.length
      /\ Passes(s) /\ ~Refused(s) /\ c.length >= BulkHeader
  BY StartIs
<1>2. ctx \in Contexts /\ ReadOf(ctx.printed) = p /\ ctx.unfinished = 0 /\ ~ctx.failed /\ Told(ctx)
  BY DEF Context
<1>3. k \in Nat /\ Len(units) \in Nat
  OBVIOUS
<1>4. ~Stops(units, k, fatal)
  <2>1. ~Wild(s, Len(units) - k + 1)
    BY <1>1, <1>3, HeadersAssumption DEF Wild
  <2> QED
    BY <1>1, <2>1 DEF Stops
<1>5. DumpUnit(ctx, units, k, fatal) = r
  BY <1>1, <1>2, <1>4 DEF DumpUnit
<1> HIDE DEF s
<1>6. ~(s.length < s.length)
  BY <1>1
<1>7. /\ r \in Contexts /\ e \in Entries /\ r.failed = ctx.failed /\ r.printed = Append(ctx.printed, e)
      /\ r.unfinished = ctx.unfinished /\ Told(r)
  BY <1>1, <1>2, <1>3, <1>6, PrintContainerIs
<1>8. e.read = s
  OBVIOUS
<1> HIDE DEF r, e
<1>9. ctx.printed \in Seq(Entries)
  BY <1>2 DEF Contexts
<1>10. ReadOf(r.printed) = Append(p, s)
  BY <1>2, <1>7, <1>8, <1>9, ReadOfMore
<1>11. Context(r, Append(p, s), 0)
  BY <1>2, <1>7, <1>10 DEF Context
<1> QED
  BY <1>5, <1>11 DEF s

LEMMA OneMore ==
  ASSUME NEW T, NEW s \in Seq(T), NEW k \in 0..Len(s) - 1
  PROVE  SubSeq(s, 1, k + 1) = Append(SubSeq(s, 1, k), s[k + 1])
<1> DEFINE a == SubSeq(s, 1, k)
           b == SubSeq(s, 1, k + 1)
<1>1. Len(s) \in Nat /\ k \in Nat /\ k + 1 \in 1..Len(s) /\ s[k + 1] \in T
  OBVIOUS
<1>2. a \in Seq(T) /\ Len(a) = k /\ \A i \in 1..k : a[i] = s[i]
  BY <1>1
<1>3. b \in Seq(T) /\ Len(b) = k + 1 /\ \A i \in 1..k + 1 : b[i] = s[i]
  BY <1>1
<1> HIDE DEF a, b
<1>4. Append(a, s[k + 1]) \in Seq(T) /\ Len(Append(a, s[k + 1])) = k + 1
  BY <1>1, <1>2
<1>5. ASSUME NEW i \in 1..k + 1 PROVE Append(a, s[k + 1])[i] = b[i]
  BY <1>1, <1>2, <1>3
<1> QED
  BY <1>3, <1>4, <1>5, SeqEqual DEF a, b

LEMMA KnownList ==
  ASSUME NEW cs \in Seq(Containers), \A k \in 1..Len(cs) : Whole(cs[k])
  PROVE  Solid(cs)
BY DEF Whole, Solid

\* The starts of the containers, one by one.
LEMMA HeadsAre ==
  ASSUME NEW cs \in Seq(Containers), \A k \in 1..Len(cs) : Whole(cs[k])
  PROVE  /\ Heads(cs) \in Seq(Readings) /\ Len(Heads(cs)) = Len(cs)
         /\ SubSeq(Heads(cs), 1, 0) = <<>> /\ SubSeq(Heads(cs), 1, Len(cs)) = Heads(cs)
         /\ \A k \in 0..Len(cs) - 1 :
              SubSeq(Heads(cs), 1, k + 1) = Append(SubSeq(Heads(cs), 1, k), Start(cs[k + 1]))
<1> DEFINE h == Heads(cs)
           n == Len(cs)
<1>1. n \in Nat /\ \A k \in 1..n : Start(cs[k]) \in Readings
  BY StartIs
<1>2. h = [k \in 1..n |-> Start(cs[k])]
  BY DEF Heads
<1> HIDE DEF h, n
<1>3. h \in Seq(Readings) /\ Len(h) = n
  <2>1. h = [k \in 1..n |-> h[k]] /\ \A k \in 1..n : h[k] \in Readings
    BY <1>1, <1>2
  <2> QED
    BY <1>1, <2>1, IsSeq
<1>4. SubSeq(h, 1, 0) = <<>> /\ SubSeq(h, 1, n) = h
  BY <1>3
<1>5. ASSUME NEW k \in 0..n - 1 PROVE SubSeq(h, 1, k + 1) = Append(SubSeq(h, 1, k), Start(cs[k + 1]))
  <2>1. k \in 0..Len(h) - 1 /\ k + 1 \in 1..n
    BY <1>1, <1>3
  <2>2. SubSeq(h, 1, k + 1) = Append(SubSeq(h, 1, k), h[k + 1])
    BY <1>3, <2>1, OneMore
  <2> QED
    BY <1>2, <2>1, <2>2
<1> QED
  BY <1>3, <1>4, <1>5 DEF h, n

\* The decoding of a dump is a run over its positions.
DumpRun(c, units, fatal) ==
  /\ c[0] = Fresh /\ DecodeDump(units, fatal) = c[Len(units)]
  /\ \A k \in 0..Len(units) : c[k] \in Contexts
  /\ \A k \in 0..Len(units) - 1 : c[k + 1] = DumpUnit(c[k], units, k + 1, fatal)

LEMMA DumpRuns ==
  ASSUME NEW d \in Seq(Readings), NEW fatal
  PROVE  \E c : DumpRun(c, d, fatal)
<1> DEFINE N == Len(d)
           D(g) == g = [k \in 0..N |-> IF k = 0 THEN Fresh ELSE DumpUnit(g[k - 1], d, k, fatal)]
           c == CHOOSE g : D(g)
           step == [k \in 1..N |-> [t \in Contexts |-> DumpUnit(t, d, k, fatal)]]
<1>1. Fresh \in Contexts
  BY FreshIs DEF Context
<1>2. DecodeDump(d, fatal) = c[N]
  BY DEF DecodeDump
<1>3. N \in Nat
  OBVIOUS
<1>4. /\ step \in [1..N -> [Contexts -> Contexts]]
      /\ \A k \in 1..N : \A t \in Contexts : step[k][t] = DumpUnit(t, d, k, fatal)
  BY DumpUnitIs
<1> HIDE DEF step, N
<1>5. PICK f \in [0..N -> Contexts] : Runs(f, N, Fresh, step)
  BY <1>1, <1>3, <1>4, Recursion
<1>6. D(f)
  <2>1. ASSUME NEW k \in 0..N PROVE f[k] = IF k = 0 THEN Fresh ELSE DumpUnit(f[k - 1], d, k, fatal)
    <3>1. CASE k = 0
      BY <1>5, <3>1 DEF Runs
    <3>2. CASE k # 0
      <4>1. k \in 1..N /\ k - 1 \in 0..N
        BY <1>3, <3>2
      <4>2. f[k] = step[k][f[k - 1]] /\ f[k - 1] \in Contexts
        BY <1>5, <4>1 DEF Runs
      <4> QED
        BY <1>4, <3>2, <4>1, <4>2
    <3> QED
      BY <3>1, <3>2
  <2> QED
    BY <2>1
<1>7. D(c)
  BY <1>6
<1> HIDE DEF c
<1>8. ASSUME NEW k \in 0..N PROVE c[k] = IF k = 0 THEN Fresh ELSE DumpUnit(c[k - 1], d, k, fatal)
  BY <1>7
<1> HIDE DEF D
<1>9. c[0] = Fresh
  <2>1. 0 \in 0..N
    BY <1>3
  <2> QED
    BY <1>8, <2>1
<1>10. ASSUME NEW k \in 0..N - 1 PROVE c[k + 1] = DumpUnit(c[k], d, k + 1, fatal)
  <2>1. k + 1 \in 0..N /\ k + 1 # 0 /\ (k + 1) - 1 = k
    BY <1>3
  <2> QED
    BY <1>8, <2>1
<1> DEFINE S == {k \in 0..N : c[k] \in Contexts}
<1>11. 0 \in S
  BY <1>1, <1>3, <1>9
<1>12. ASSUME NEW k \in 0..N - 1, k \in S PROVE k + 1 \in S
  <2>1. k + 1 \in 0..N /\ k + 1 \in 1..N
    BY <1>3
  <2>2. c[k] \in Contexts
    BY <1>12
  <2>3. DumpUnit(c[k], d, k + 1, fatal) \in Contexts
    BY <2>1, <2>2, DumpUnitIs DEF N
  <2> QED
    BY <1>10, <2>1, <2>3
<1> HIDE DEF S
<1>13. \A k \in 0..N : k \in S
  BY <1>3, <1>11, <1>12, UpTo
<1>14. DumpRun(c, d, fatal)
  BY <1>2, <1>9, <1>10, <1>13 DEF DumpRun, N, S
<1> QED
  BY <1>14

\* What a dump has come to behind its k-th position.
StoppedBy(units, k, fatal) == \E b \in 1..k : Stops(units, b, fatal)
PlacesRead(printed, units, k) ==
  \A i \in 1..Len(printed) :
    printed[i].at \in 1..k /\ printed[i].read = units[printed[i].at] /\ Passes(printed[i].read)
Ascending(printed) == \A i \in 1..Len(printed) - 1 : printed[i].at < printed[i + 1].at
NoneMissing(printed, units, k, fatal) ==
  \A a \in 1..k : Passes(units[a]) /\ ~StoppedBy(units, a, fatal) =>
    \E i \in 1..Len(printed) : printed[i].at = a
DumpedTo(ctx, units, k, fatal) ==
  /\ ctx \in Contexts /\ Told(ctx)
  /\ PlacesRead(ctx.printed, units, k) /\ Ascending(ctx.printed) /\ NoneMissing(ctx.printed, units, k, fatal)
  /\ ctx.failed <=> StoppedBy(units, k, fatal)

LEMMA StoppedOn ==
  ASSUME NEW units, NEW fatal, NEW k \in Nat
  PROVE  StoppedBy(units, k + 1, fatal) <=> StoppedBy(units, k, fatal) \/ Stops(units, k + 1, fatal)
<1>1. \A b : b \in 1..k + 1 <=> b \in 1..k \/ b = k + 1
  OBVIOUS
<1> QED
  BY <1>1 DEF StoppedBy

\* Nothing is printed where nothing passes, or behind the end.
LEMMA PassedOver ==
  ASSUME NEW units, NEW fatal, NEW k \in Nat, NEW p,
         PlacesRead(p, units, k), NoneMissing(p, units, k, fatal),
         ~Passes(units[k + 1]) \/ StoppedBy(units, k + 1, fatal)
  PROVE  PlacesRead(p, units, k + 1) /\ NoneMissing(p, units, k + 1, fatal)
<1>1. \A b : b \in 1..k + 1 <=> b \in 1..k \/ b = k + 1
  OBVIOUS
<1>2. PlacesRead(p, units, k + 1)
  BY <1>1 DEF PlacesRead
<1>3. NoneMissing(p, units, k + 1, fatal)
  BY <1>1 DEF NoneMissing
<1> QED
  BY <1>2, <1>3

\* A position that is printed.
LEMMA PrintedOn ==
  ASSUME NEW units, NEW fatal, NEW k \in Nat, NEW p \in Seq(Entries), NEW e \in Entries,
         PlacesRead(p, units, k), Ascending(p), NoneMissing(p, units, k, fatal),
         e.at = k + 1, e.read = units[k + 1], Passes(units[k + 1])
  PROVE  /\ PlacesRead(Append(p, e), units, k + 1) /\ Ascending(Append(p, e))
         /\ NoneMissing(Append(p, e), units, k + 1, fatal)
<1> DEFINE q == Append(p, e)
           n == Len(p)
<1>1. n \in Nat /\ Len(q) = n + 1 /\ q[n + 1] = e /\ \A i \in 1..n : q[i] = p[i]
  OBVIOUS
<1>2. \A b : b \in 1..k + 1 <=> b \in 1..k \/ b = k + 1
  OBVIOUS
<1>3. \A b : b \in 1..n + 1 <=> b \in 1..n \/ b = n + 1
  BY <1>1
<1>4. \A i \in 1..n : p[i].at \in 1..k /\ p[i].read = units[p[i].at] /\ Passes(p[i].read)
  BY DEF PlacesRead
<1>5. \A i \in 1..n - 1 : p[i].at < p[i + 1].at
  BY DEF Ascending
<1>6. \A a \in 1..k : Passes(units[a]) /\ ~StoppedBy(units, a, fatal) => \E i \in 1..n : p[i].at = a
  BY DEF NoneMissing
<1> HIDE DEF q, n
<1>7. PlacesRead(q, units, k + 1)
  <2>1. ASSUME NEW i \in 1..n + 1
        PROVE  q[i].at \in 1..k + 1 /\ q[i].read = units[q[i].at] /\ Passes(q[i].read)
    <3>1. CASE i \in 1..n
      BY <1>1, <1>2, <1>4, <3>1
    <3>2. CASE i = n + 1
      <4>1. q[i] = e /\ e.at \in 1..k + 1
        BY <1>1, <3>2
      <4> QED
        BY <4>1
    <3> QED
      BY <1>3, <3>1, <3>2
  <2> QED
    BY <1>1, <2>1 DEF PlacesRead
<1>8. Ascending(q)
  <2>1. ASSUME NEW i \in 1..n PROVE q[i].at < q[i + 1].at
    <3>1. CASE i = n
      <4>1. q[i] = p[i] /\ q[i + 1] = e /\ p[i].at \in 1..k
        BY <1>1, <1>4, <3>1
      <4> QED
        BY <4>1
    <3>2. CASE i # n
      <4>1. i \in 1..n - 1 /\ i + 1 \in 1..n
        BY <1>1, <3>2
      <4> QED
        BY <1>1, <1>5, <4>1
    <3> QED
      BY <3>1, <3>2
  <2>2. Len(q) - 1 = n
    BY <1>1
  <2> QED
    BY <2>1, <2>2 DEF Ascending
<1>9. NoneMissing(q, units, k + 1, fatal)
  <2>1. ASSUME NEW a \in 1..k + 1, Passes(units[a]) /\ ~StoppedBy(units, a, fatal)
        PROVE  \E i \in 1..n + 1 : q[i].at = a
    <3>1. CASE a \in 1..k
      <4>1. PICK i \in 1..n : p[i].at = a
        BY <1>6, <2>1, <3>1
      <4> QED
        BY <1>1, <1>3, <4>1
    <3>2. CASE a = k + 1
      <4>1. n + 1 \in 1..n + 1
        BY <1>1
      <4> QED
        BY <1>1, <3>2, <4>1
    <3> QED
      BY <1>2, <3>1, <3>2
  <2> QED
    BY <1>1, <2>1 DEF NoneMissing
<1> QED
  BY <1>7, <1>8, <1>9 DEF q

LEMMA DumpGoesOn ==
  ASSUME NEW units \in Seq(Readings), NEW fatal, NEW k \in 0..Len(units) - 1,
         NEW ctx, DumpedTo(ctx, units, k, fatal)
  PROVE  DumpedTo(DumpUnit(ctx, units, k + 1, fatal), units, k + 1, fatal)
<1> DEFINE c == units[k + 1]
           r == DumpUnit(ctx, units, k + 1, fatal)
<1>1. /\ ctx \in Contexts /\ Told(ctx)
      /\ PlacesRead(ctx.printed, units, k) /\ Ascending(ctx.printed) /\ NoneMissing(ctx.printed, units, k, fatal)
      /\ ctx.failed <=> StoppedBy(units, k, fatal)
  BY DEF DumpedTo
<1>2. k \in Nat /\ k + 1 \in 1..Len(units) /\ k + 1 \in Nat /\ c \in Readings
  OBVIOUS
<1>3. StoppedBy(units, k + 1, fatal) <=> StoppedBy(units, k, fatal) \/ Stops(units, k + 1, fatal)
  BY <1>2, StoppedOn
<1>4. r \in Contexts
  BY <1>1, <1>2, DumpUnitIs
<1>5. CASE ctx.failed \/ ~Passes(c)
  <2>1. r = ctx
    BY <1>5 DEF DumpUnit
  <2>2. ~Passes(c) => ~Stops(units, k + 1, fatal)
    BY DEF Stops
  <2>3. ctx.failed <=> StoppedBy(units, k + 1, fatal)
    BY <1>1, <1>3, <1>5, <2>2
  <2>4. ~Passes(c) \/ StoppedBy(units, k + 1, fatal)
    BY <1>5, <2>3
  <2>5. PlacesRead(ctx.printed, units, k + 1) /\ NoneMissing(ctx.printed, units, k + 1, fatal)
    BY <1>1, <1>2, <2>4, PassedOver
  <2> HIDE DEF r, c
  <2>6. DumpedTo(ctx, units, k + 1, fatal)
    BY <1>1, <2>3, <2>5 DEF DumpedTo
  <2> QED
    BY <2>1, <2>6 DEF r
<1>6. CASE ~(ctx.failed \/ ~Passes(c)) /\ Stops(units, k + 1, fatal)
  <2>1. r = [ctx EXCEPT !.failed = TRUE]
    BY <1>6 DEF DumpUnit
  <2> HIDE DEF r
  <2>2. r.printed = ctx.printed /\ r.last = ctx.last /\ r.failed = TRUE
    BY <1>1, <2>1 DEF Contexts
  <2>3. Told(r)
    BY <1>1, <2>2 DEF Told
  <2>4. StoppedBy(units, k + 1, fatal)
    BY <1>3, <1>6
  <2>5. PlacesRead(r.printed, units, k + 1) /\ NoneMissing(r.printed, units, k + 1, fatal)
    BY <1>1, <1>2, <2>2, <2>4, PassedOver
  <2>6. DumpedTo(r, units, k + 1, fatal)
    BY <1>1, <1>4, <2>2, <2>3, <2>4, <2>5 DEF DumpedTo
  <2> QED
    BY <2>6 DEF r
<1>7. CASE ~(ctx.failed \/ ~Passes(c)) /\ ~Stops(units, k + 1, fatal)
  <2> DEFINE e == [at |-> k + 1, heading |-> Heading(ctx.last, c.type), read |-> c]
  <2>1. r = PrintContainer(ctx, k + 1, c, c.length)
    BY <1>7 DEF DumpUnit
  <2>2. ~Refused(c) /\ Passes(c)
    BY <1>7 DEF Stops
  <2> HIDE DEF r, c
  <2>3. c.length \in Nat
    BY <1>2 DEF Readings
  <2>4. e \in Entries /\ r.failed = ctx.failed /\ r.printed = Append(ctx.printed, e) /\ Told(r)
    BY <1>1, <1>2, <2>1, <2>2, <2>3, PrintContainerIs
  <2>5. e.at = k + 1 /\ e.read = c
    OBVIOUS
  <2> HIDE DEF e
  <2>6. ctx.printed \in Seq(Entries)
    BY <1>1 DEF Contexts
  <2>7. PlacesRead(r.printed, units, k + 1) /\ Ascending(r.printed) /\ NoneMissing(r.printed, units, k + 1, fatal)
    BY <1>1, <1>2, <2>2, <2>4, <2>5, <2>6, PrintedOn DEF c
  <2>8. r.failed <=> StoppedBy(units, k + 1, fatal)
    BY <1>1, <1>3, <1>7, <2>4
  <2>9. DumpedTo(r, units, k + 1, fatal)
    BY <1>4, <2>4, <2>7, <2>8 DEF DumpedTo
  <2> QED
    BY <2>9 DEF r
<1> QED
  BY <1>5, <1>6, <1>7

\* A dump prints what passes, in order, until the first failure.
LEMMA DumpDecodes ==
  ASSUME NEW units \in Seq(Readings), NEW fatal
  PROVE  DumpedTo(DecodeDump(units, fatal), units, Len(units), fatal)
<1> DEFINE N == Len(units)
<1>1. PICK c : DumpRun(c, units, fatal)
  BY DumpRuns
<1>2. /\ c[0] = Fresh /\ DecodeDump(units, fatal) = c[N]
      /\ \A k \in 0..N - 1 : c[k + 1] = DumpUnit(c[k], units, k + 1, fatal)
  BY <1>1 DEF DumpRun
<1>3. N \in Nat
  OBVIOUS
<1> DEFINE S == {k \in 0..N : DumpedTo(c[k], units, k, fatal)}
<1>4. 0 \in S
  <2>1. Fresh \in Contexts /\ Told(Fresh)
    BY FreshIs DEF Context
  <2>2. Fresh.printed = <<>> /\ Fresh.failed = FALSE /\ Len(<<>>) = 0
    BY DEF Fresh
  <2>3. 1..0 = {} /\ 1..0 - 1 = {}
    OBVIOUS
  <2>4. PlacesRead(<<>>, units, 0) /\ Ascending(<<>>) /\ NoneMissing(<<>>, units, 0, fatal) /\ ~StoppedBy(units, 0, fatal)
    BY <2>2, <2>3 DEF PlacesRead, Ascending, NoneMissing, StoppedBy
  <2>5. DumpedTo(Fresh, units, 0, fatal)
    BY <2>1, <2>2, <2>4 DEF DumpedTo
  <2> QED
    BY <1>2, <1>3, <2>5
<1>5. ASSUME NEW k \in 0..N - 1, k \in S PROVE k + 1 \in S
  <2>1. k + 1 \in 0..N
    BY <1>3
  <2>2. DumpedTo(c[k], units, k, fatal)
    BY <1>5
  <2>3. DumpedTo(c[k + 1], units, k + 1, fatal)
    BY <1>2, <2>2, DumpGoesOn
  <2> QED
    BY <2>1, <2>3
<1> HIDE DEF S, N
<1>6. \A k \in 0..N : k \in S
  BY <1>3, <1>4, <1>5, UpTo
<1>7. N \in S
  BY <1>3, <1>6
<1> QED
  BY <1>2, <1>7 DEF S, N

\* Without strays the containers are printed, and nothing else.
LEMMA DumpWhole ==
  ASSUME NEW cs \in Seq(Containers), \A k \in 1..Len(cs) : Whole(cs[k]), NoStrays(cs), NEW fatal
  PROVE  Context(DecodeDump(Flow(cs), fatal), Heads(cs), 0)
<1> DEFINE d == Flow(cs)
           n == Len(cs)
           N == Len(d)
           e == Ends(cs)
           h == Heads(cs)
<1>1. Solid(cs)
  BY KnownList
<1>2. /\ d \in Seq(Readings)
      /\ e \in [0..n -> Nat] /\ e[0] = 0 /\ e[n] = N
      /\ \A i \in 1..n : e[i] = e[i - 1] + cs[i].length /\ Stands(Units(cs[i]), d, e[i - 1])
  BY <1>1, Layout
<1>3. \A i \in 1..n : Whole(cs[i])
  OBVIOUS
<1>4. n \in Nat
  OBVIOUS
<1>5. /\ SubSeq(h, 1, 0) = <<>> /\ SubSeq(h, 1, n) = h
      /\ \A k \in 0..n - 1 : SubSeq(h, 1, k + 1) = Append(SubSeq(h, 1, k), Start(cs[k + 1]))
  BY HeadsAre
<1>6. \A k \in 1..n : \A i \in 1..Len(cs[k].inside) : ~Passes(cs[k].inside[i])
  BY DEF NoStrays
<1> HIDE DEF d, e, n, h
<1>7. N \in Nat
  BY <1>2
<1>8. PICK c : DumpRun(c, d, fatal)
  BY <1>2, DumpRuns
<1>9. /\ c[0] = Fresh /\ DecodeDump(d, fatal) = c[N]
      /\ \A k \in 0..N - 1 : c[k + 1] = DumpUnit(c[k], d, k + 1, fatal)
  BY <1>8 DEF DumpRun
<1> HIDE DEF N
<1> DEFINE S == {k \in 0..n : Context(c[e[k]], SubSeq(h, 1, k), 0)}
<1>10. 0 \in S
  <2>1. 0 \in 0..n
    BY <1>4
  <2> QED
    BY <1>2, <1>5, <1>9, <2>1, FreshIs
<1>11. ASSUME NEW k \in 0..n - 1, k \in S PROVE k + 1 \in S
  <2> DEFINE x == cs[k + 1]
             p == SubSeq(h, 1, k + 1)
             m == x.length - 1
             R == {q \in 0..m : Context(c[e[k] + 1 + q], p, 0)}
  <2>1. k + 1 \in 1..n /\ (k + 1) - 1 = k /\ k \in 0..n /\ k + 1 \in 0..n
    BY <1>4
  <2>2. /\ e[k + 1] = e[k] + x.length /\ e[k] \in Nat /\ e[k + 1] \in Nat
        /\ Stands(Units(x), d, e[k])
    BY <1>2, <2>1
  <2>3. Whole(x) /\ \A i \in 1..Len(x.inside) : ~Passes(x.inside[i])
    BY <1>3, <1>6, <2>1
  <2>4. p = Append(SubSeq(h, 1, k), Start(x))
    BY <1>5
  <2> HIDE DEF x, p
  <2>5. /\ x.length \in Nat /\ x.length > 0 /\ Len(Units(x)) = x.length
        /\ Units(x)[1] = Start(x)
        /\ \A i \in 2..x.length : ~Passes(Units(x)[i])
    <3>1. x \in Containers /\ x.length = 1 + Len(x.inside)
      BY <2>3, StartIs
    <3> QED
      BY <2>3, <3>1, UnitsIs
  <2>6. e[k] + x.length <= N /\ \A i \in 1..x.length : d[e[k] + i] = Units(x)[i]
    BY <2>2, <2>5 DEF Stands, N
  <2>7. 0 \in R
    <3>1. /\ e[k] \in 0..N - 1 /\ e[k] + 1 + 0 = e[k] + 1 /\ 1 \in 1..x.length /\ 0 \in 0..m
          /\ e[k] + 1 \in 1..N /\ x.length <= N - (e[k] + 1) + 1
      <4>1. ASSUME NEW o \in Nat, NEW y \in Nat, NEW z \in Nat, y > 0, o + y <= z
            PROVE  /\ o \in 0..z - 1 /\ o + 1 + 0 = o + 1 /\ 1 \in 1..y /\ 0 \in 0..y - 1
                   /\ o + 1 \in 1..z /\ y <= z - (o + 1) + 1
        BY <4>1
      <4> DEFINE o == e[k]
                 y == x.length
      <4>2. o \in Nat /\ y \in Nat /\ y > 0 /\ o + y <= N
        BY <2>2, <2>5, <2>6
      <4> HIDE DEF o, y
      <4>3. /\ o \in 0..N - 1 /\ o + 1 + 0 = o + 1 /\ 1 \in 1..y /\ 0 \in 0..y - 1
            /\ o + 1 \in 1..N /\ y <= N - (o + 1) + 1
        BY <1>7, <4>1, <4>2
      <4> QED
        BY <4>3 DEF o, y
    <3>2. c[e[k] + 1] = DumpUnit(c[e[k]], d, e[k] + 1, fatal)
      BY <1>9, <3>1
    <3>3. Context(c[e[k]], SubSeq(h, 1, k), 0)
      BY <1>11
    <3>4. d[e[k] + 1] = Start(x)
      BY <2>5, <2>6, <3>1
    <3>5. Context(c[e[k] + 1], p, 0)
      BY <1>2, <2>3, <2>4, <3>1, <3>2, <3>3, <3>4, DumpKnown DEF N
    <3> QED
      BY <3>1, <3>5
  <2>8. ASSUME NEW q \in 0..m - 1, q \in R PROVE q + 1 \in R
    <3> DEFINE at == e[k] + 1 + q
    <3>1. /\ at \in 0..N - 1 /\ e[k] + (q + 2) = at + 1 /\ e[k] + 1 + (q + 1) = at + 1
          /\ q + 2 \in 1..x.length /\ q + 2 \in 2..x.length /\ q + 1 \in 0..m /\ at + 1 \in 1..N
      <4>1. x.length \in Nat /\ e[k] \in Nat /\ N \in Nat /\ e[k] + x.length <= N
        BY <1>7, <2>2, <2>5, <2>6
      <4>2. q \in Nat /\ q + 2 <= x.length
        BY <4>1
      <4>3. at \in 0..N - 1 /\ at + 1 \in 1..N
        <5>1. ASSUME NEW o \in Nat, NEW y \in Nat, q + 2 <= y, o + y <= N
              PROVE  o + 1 + q \in 0..N - 1 /\ (o + 1 + q) + 1 \in 1..N
          BY <4>1, <4>2, <5>1
        <5> QED
          BY <4>1, <4>2, <5>1
      <4>4. e[k] + (q + 2) = at + 1 /\ e[k] + 1 + (q + 1) = at + 1
        <5>1. ASSUME NEW o \in Nat PROVE o + (q + 2) = (o + 1 + q) + 1 /\ o + 1 + (q + 1) = (o + 1 + q) + 1
          BY <4>2
        <5> QED
          BY <4>1, <5>1
      <4>5. q + 2 \in 1..x.length /\ q + 2 \in 2..x.length
        BY <4>1, <4>2
      <4>6. q + 1 \in 0..m
        BY <4>1, <4>2
      <4> QED
        BY <4>3, <4>4, <4>5, <4>6
    <3>2. ~Passes(d[at + 1])
      <4>1. d[e[k] + (q + 2)] = Units(x)[q + 2] /\ ~Passes(Units(x)[q + 2])
        BY <2>5, <2>6, <3>1
      <4> QED
        BY <3>1, <4>1
    <3>3. Context(c[at], p, 0)
      BY <2>8
    <3> HIDE DEF at
    <3>4. c[at + 1] = DumpUnit(c[at], d, at + 1, fatal)
      BY <1>9, <3>1
    <3>5. c[at] \in Contexts
      BY <3>3 DEF Context
    <3>6. c[at + 1] = c[at]
      BY <1>2, <3>1, <3>2, <3>4, <3>5, DumpUnitIs DEF N
    <3> QED
      BY <3>1, <3>3, <3>6
  <2> HIDE DEF R
  <2>9. m \in Nat
    BY <2>5
  <2>10. \A q \in 0..m : q \in R
    BY <2>7, <2>8, <2>9, UpTo
  <2>11. m \in 0..m /\ e[k] + 1 + m = e[k + 1]
    <3>1. ASSUME NEW o \in Nat, NEW y \in Nat, y > 0 PROVE y - 1 \in 0..y - 1 /\ o + 1 + (y - 1) = o + y
      BY <3>1
    <3> DEFINE o == e[k]
               y == x.length
    <3>2. o \in Nat /\ y \in Nat /\ y > 0 /\ e[k + 1] = o + y
      BY <2>2, <2>5
    <3> HIDE DEF o, y
    <3>3. y - 1 \in 0..y - 1 /\ o + 1 + (y - 1) = e[k + 1]
      BY <3>1, <3>2
    <3> QED
      BY <3>3 DEF o, y
  <2>12. Context(c[e[k + 1]], p, 0)
    BY <2>10, <2>11 DEF R
  <2> QED
    BY <2>1, <2>12 DEF p
<1> HIDE DEF S
<1>12. \A k \in 0..n : k \in S
  BY <1>4, <1>10, <1>11, UpTo
<1>13. Context(c[e[n]], SubSeq(h, 1, n), 0)
  <2>1. n \in 0..n
    BY <1>4
  <2> QED
    BY <1>12, <2>1 DEF S
<1>14. Context(c[N], h, 0)
  BY <1>2, <1>5, <1>13 DEF N
<1> QED
  BY <1>9, <1>14 DEF d, h

LEMMA BehindFirst ==
  ASSUME NEW T, NEW a \in Seq(T), NEW b \in Seq(T)
  PROVE  Len(a \o b) = Len(a) + Len(b) /\ SubSeq(a \o b, Len(a) + 1, Len(a \o b)) = b
<1> DEFINE c == a \o b
           s == SubSeq(c, Len(a) + 1, Len(c))
<1>1. /\ c \in Seq(T) /\ Len(a) \in Nat /\ Len(b) \in Nat /\ Len(c) = Len(a) + Len(b)
      /\ \A i \in 1..Len(b) : c[Len(a) + i] = b[i]
  OBVIOUS
<1> HIDE DEF c
<1>2. s \in Seq(T) /\ Len(s) = Len(b) /\ \A i \in 1..Len(b) : s[i] = c[Len(a) + i]
  <2>1. Len(a) + 1 \in 1..Len(c) + 1 /\ Len(c) - (Len(a) + 1) + 1 = Len(b)
    BY <1>1
  <2>2. s \in Seq(T) /\ Len(s) = Len(c) - (Len(a) + 1) + 1
    BY <1>1, <2>1, SubSeqProperties
  <2>3. ASSUME NEW i \in 1..Len(b) PROVE s[i] = c[Len(a) + i]
    BY <1>1
  <2> QED
    BY <2>1, <2>2, <2>3
<1> HIDE DEF s
<1>3. s = b
  BY <1>1, <1>2, SeqEqual
<1> QED
  BY <1>1, <1>3 DEF c, s

\* What is behind the header of a packet is dumped.
LEMMA PacketHandlerIs ==
  ASSUME NEW mode, NEW h \in Nat, mode = "wifi" => h = WifiHeader,
         NEW ctx, NEW at, NEW bytes \in Seq(Readings), bytes # <<>>
  PROVE  PacketHandler(mode, ctx, at, [header |-> h, payload |-> bytes]) = DumpPacket(ctx, at, bytes)
<1> DEFINE packet == [header |-> h, payload |-> bytes]
           a == [i \in 1..h |-> Garbage]
           all == a \o bytes
<1>1. HeaderLen(mode, packet) = h /\ packet.header = h /\ packet.payload = bytes
  BY DEF HeaderLen
<1>2. a \in Seq(Readings) /\ Len(a) = h
  <2>1. Garbage \in Readings
    BY DEF Garbage, ReadAs, Readings
  <2>2. a = [i \in 1..h |-> a[i]] /\ \A i \in 1..h : a[i] \in Readings
    BY <2>1
  <2> HIDE DEF a
  <2> QED
    BY <2>2, IsSeq
<1>3. PacketHandler(mode, ctx, at, packet) =
        IF Len(all) - h = 0 THEN ctx ELSE DumpPacket(ctx, at, SubSeq(all, h + 1, Len(all)))
  BY <1>1 DEF PacketHandler
<1> HIDE DEF a, packet
<1>4. Len(all) = h + Len(bytes) /\ SubSeq(all, h + 1, Len(all)) = bytes
  BY <1>2, BehindFirst
<1>5. Len(bytes) \in Nat /\ Len(bytes) # 0
  BY EmptySeq
<1> HIDE DEF all
<1>6. Len(all) - h # 0
  BY <1>4, <1>5
<1> QED
  BY <1>3, <1>4, <1>6 DEF packet

\* A packet is a piece of the open data container, or begins with a container.
LEMMA DumpPacketIs ==
  ASSUME NEW ctx \in Contexts, NEW at \in Nat, NEW bytes \in Seq(Readings), bytes # <<>>
  PROVE  /\ DumpPacket(ctx, at, bytes) \in Contexts
         /\ \A p : \A u \in Nat :
              Context(ctx, p, u) /\ u > 0 /\ Len(bytes) <= u =>
                Context(DumpPacket(ctx, at, bytes), p, u - Len(bytes))
         /\ \A p : \A c : Context(ctx, p, 0) /\ Whole(c) /\ bytes[1] = Start(c) =>
              Context(DumpPacket(ctx, at, bytes), Append(p, Start(c)),
                      IF c.type = "data" /\ Len(bytes) < c.length THEN c.length - Len(bytes) ELSE 0)
<1>1. Len(bytes) \in Nat /\ bytes[1] \in Readings
  <2>1. Len(bytes) \in Nat /\ Len(bytes) # 0
    BY EmptySeq
  <2>2. 1 \in 1..Len(bytes)
    BY <2>1
  <2> QED
    BY <2>1, <2>2
<1>2. ctx.unfinished \in Int /\ ctx.printed \in Seq(Entries) /\ ctx.failed \in BOOLEAN
  BY DEF Contexts
<1>3. ASSUME NEW u \in Int
      PROVE  /\ [ctx EXCEPT !.unfinished = u] \in Contexts
             /\ [ctx EXCEPT !.unfinished = u].unfinished = u
             /\ [ctx EXCEPT !.unfinished = u].printed = ctx.printed
             /\ [ctx EXCEPT !.unfinished = u].last = ctx.last
             /\ [ctx EXCEPT !.unfinished = u].failed = ctx.failed
  BY DEF Contexts
<1>4. ASSUME NEW u \in Int, Told(ctx) PROVE Told([ctx EXCEPT !.unfinished = u])
  <2> DEFINE z == [ctx EXCEPT !.unfinished = u]
  <2>1. z.printed = ctx.printed /\ z.last = ctx.last
    BY <1>3
  <2> HIDE DEF z
  <2>2. Told(z)
    BY <1>4, <2>1 DEF Told
  <2> QED
    BY <2>2 DEF z
<1>5. CASE ctx.unfinished > 0 /\ Len(bytes) <= ctx.unfinished
  <2>1. DumpPacket(ctx, at, bytes) = [ctx EXCEPT !.unfinished = ctx.unfinished - Len(bytes)]
    BY <1>5 DEF DumpPacket
  <2>2. ctx.unfinished - Len(bytes) \in Int
    BY <1>1, <1>2
  <2>3. ASSUME NEW p, Context(ctx, p, 0) PROVE FALSE
    BY <1>2, <1>5, <2>3 DEF Context
  <2> QED
    BY <1>3, <1>4, <2>1, <2>2, <2>3 DEF Context
<1>6. CASE ~(ctx.unfinished > 0 /\ Len(bytes) <= ctx.unfinished)
  <2> DEFINE z == [ctx EXCEPT !.unfinished = 0]
             h == bytes[1]
             en == [at |-> at, heading |-> Heading(z.last, h.type), read |-> h]
             r == PrintContainer(z, at, h, Len(bytes))
  <2>1. DumpPacket(ctx, at, bytes) = r
    BY <1>6 DEF DumpPacket
  <2>2. h \in Readings
    BY <1>1
  <2>3. /\ z \in Contexts /\ z.unfinished = 0 /\ z.printed = ctx.printed /\ z.failed = ctx.failed
        /\ Told(ctx) => Told(z)
    BY <1>3, <1>4
  <2> HIDE DEF z, h
  <2>7. /\ r \in Contexts /\ en \in Entries
        /\ ~Refused(h) =>
             /\ r.failed = z.failed /\ r.printed = Append(z.printed, en)
             /\ r.unfinished = IF h.type = "data" /\ Len(bytes) < h.length THEN h.length - Len(bytes) ELSE z.unfinished
             /\ Told(z) => Told(r)
    BY <1>1, <2>2, <2>3, PrintContainerIs
  <2>4. r \in Contexts /\ en \in Entries
    BY <2>7
  <2>5. ASSUME NEW p, NEW c, Context(ctx, p, 0), Whole(c), h = Start(c)
        PROVE  Context(r, Append(p, Start(c)),
                       IF c.type = "data" /\ Len(bytes) < c.length THEN c.length - Len(bytes) ELSE 0)
    <3>1. ~Refused(h) /\ h.length = c.length /\ h.type = c.type
      BY <2>5, StartIs
    <3>2. Told(ctx) /\ ReadOf(ctx.printed) = p /\ ~ctx.failed
      BY <2>5 DEF Context
    <3> DEFINE u == IF c.type = "data" /\ Len(bytes) < c.length THEN c.length - Len(bytes) ELSE 0
    <3>3. /\ r.failed = z.failed /\ r.printed = Append(z.printed, en) /\ Told(r)
          /\ r.unfinished = IF h.type = "data" /\ Len(bytes) < h.length THEN h.length - Len(bytes) ELSE z.unfinished
      <4>1. Told(z)
        BY <2>3, <3>2
      <4> HIDE DEF u, r, en
      <4> QED
        BY <2>7, <3>1, <4>1
    <3>4. r.unfinished = u
      <4> HIDE DEF r, en
      <4> QED
        BY <2>3, <3>1, <3>3
    <3>5. en.read = h
      OBVIOUS
    <3> HIDE DEF r, u, en
    <3>6. ReadOf(r.printed) = Append(p, h)
      BY <1>2, <2>3, <2>4, <3>2, <3>3, <3>5, ReadOfMore
    <3>7. Context(r, Append(p, h), u)
      BY <2>3, <2>4, <3>2, <3>3, <3>4, <3>6 DEF Context
    <3> QED
      BY <2>5, <3>7 DEF u
  <2>6. ASSUME NEW p, NEW u \in Nat, Context(ctx, p, u), u > 0, Len(bytes) <= u PROVE FALSE
    BY <1>6, <2>6 DEF Context
  <2> HIDE DEF r
  <2> QED
    BY <2>1, <2>4, <2>5, <2>6 DEF r, h
<1> QED
  BY <1>5, <1>6

\* Where a packet begins, and the packets of a capture.
Begin(cuts, i) == IF i = 0 THEN 0 ELSE cuts[i]
Parts(cs, cuts) ==
  [i \in 1..Len(cuts) |-> SubSeq(Flow(cs), (IF i = 1 THEN 0 ELSE cuts[i - 1]) + 1, cuts[i])]

\* Every container ends with a packet, and only data containers are cut.
Cutting(cs, cuts) ==
  /\ cuts \in Seq(Nat) /\ \A i, k \in 1..Len(cuts) : i < k => cuts[i] < cuts[k]
  /\ \A k \in 1..Len(cs) :
       /\ \E i \in 1..Len(cuts) : cuts[i] = Ends(cs)[k]
       /\ cs[k].type # "data" =>
            \A i \in 1..Len(cuts) : cuts[i] \notin Ends(cs)[k - 1] + 1..Ends(cs)[k] - 1
  /\ \A i \in 1..Len(cuts) : cuts[i] \in 1..Ends(cs)[Len(cs)]

\* Packets lie one behind the other, none reaches beyond its container, the last ends the traffic.
LEMMA BeginsGrow ==
  ASSUME NEW cs, Solid(cs), NEW cuts, Cutting(cs, cuts)
  PROVE  /\ Len(cuts) \in Nat
         /\ \A i \in 0..Len(cuts) : Begin(cuts, i) \in 0..Len(Flow(cs))
         /\ \A i, k \in 0..Len(cuts) : i < k => Begin(cuts, i) < Begin(cuts, k)
         /\ \A i \in 0..Len(cuts) - 1, k \in 1..Len(cs) :
              Begin(cuts, i) < Ends(cs)[k] => Begin(cuts, i + 1) <= Ends(cs)[k]
         /\ Begin(cuts, Len(cuts)) = Len(Flow(cs))
<1> DEFINE m == Len(cuts)
           n == Len(cs)
           e == Ends(cs)
           N == Len(Flow(cs))
           w(i) == Begin(cuts, i)
<1>1. /\ n \in Nat /\ N \in Nat /\ e \in [0..n -> Nat] /\ e[0] = 0 /\ e[n] = N
  BY Layout DEF Solid
<1>2. /\ m \in Nat /\ \A i \in 1..m : cuts[i] \in Nat /\ cuts[i] \in 1..N
      /\ \A i, k \in 1..m : i < k => cuts[i] < cuts[k]
  BY <1>1 DEF Cutting
<1>3. \A k \in 1..n : \E i \in 1..m : cuts[i] = e[k]
  BY DEF Cutting
<1> HIDE DEF m, n, e, N
<1>4. /\ w(0) = 0 /\ \A i \in 1..m : w(i) = cuts[i]
  BY <1>2 DEF Begin
<1> HIDE DEF w
<1>5. ASSUME NEW i \in 0..m PROVE w(i) \in 0..N
  <2>1. CASE i = 0
    BY <1>1, <1>4, <2>1
  <2>2. CASE i # 0
    <3>1. i \in 1..m
      BY <1>2, <2>2
    <3> QED
      BY <1>1, <1>2, <1>4, <3>1
  <2> QED
    BY <2>1, <2>2
<1>6. ASSUME NEW i \in 0..m, NEW k \in 0..m, i < k PROVE w(i) < w(k)
  <2>1. k \in 1..m
    BY <1>2, <1>6
  <2>2. CASE i = 0
    <3>1. w(k) \in 1..N
      BY <1>2, <1>4, <2>1
    <3> QED
      BY <1>1, <1>4, <2>2, <3>1
  <2>3. CASE i # 0
    <3>1. i \in 1..m
      BY <1>2, <2>3
    <3> QED
      BY <1>2, <1>4, <1>6, <2>1, <3>1
  <2> QED
    BY <2>2, <2>3
<1>7. ASSUME NEW i \in 0..m - 1, NEW k \in 1..n, w(i) < e[k] PROVE w(i + 1) <= e[k]
  <2>1. PICK x \in 1..m : cuts[x] = e[k]
    BY <1>3
  <2>2. x \in 0..m /\ i \in 0..m /\ i + 1 \in 0..m /\ w(x) = e[k]
    BY <1>2, <1>4, <2>1
  <2>3. w(x) \in Nat /\ w(i) \in Nat /\ w(i + 1) \in Nat
    BY <1>1, <1>5, <2>2
  <2>4. ~(x < i) /\ x # i
    <3>1. ~(w(x) < w(i)) /\ w(x) # w(i)
      BY <1>7, <2>2, <2>3
    <3> QED
      BY <1>6, <2>2, <3>1
  <2>5. i + 1 < x \/ i + 1 = x
    BY <1>2, <2>4
  <2> QED
    BY <1>6, <2>2, <2>3, <2>5
<1>8. w(m) = N
  <2>1. CASE n = 0
    <3>1. N = 0
      BY <1>1, <2>1
    <3>2. 1..m = {}
      BY <1>2, <3>1
    <3>3. m = 0
      BY <1>2, <3>2
    <3> QED
      BY <1>4, <3>1, <3>3
  <2>2. CASE n # 0
    <3>1. n \in 1..n
      BY <1>1, <2>2
    <3>2. PICK x \in 1..m : cuts[x] = N
      BY <1>1, <1>3, <3>1
    <3>3. x \in 0..m /\ m \in 0..m /\ (x = m \/ x < m) /\ w(x) = N
      BY <1>2, <1>4, <3>2
    <3>4. w(m) \in 0..N
      BY <1>5, <3>3
    <3> QED
      BY <1>1, <1>6, <3>3, <3>4
  <2> QED
    BY <2>1, <2>2
<1>9. \A i \in 0..m : w(i) \in 0..N
  BY <1>5
<1>10. \A i, k \in 0..m : i < k => w(i) < w(k)
  BY <1>6
<1>11. \A i \in 0..m - 1, k \in 1..n : w(i) < e[k] => w(i + 1) <= e[k]
  BY <1>7
<1> QED
  BY <1>2, <1>8, <1>9, <1>10, <1>11 DEF w, m, n, e, N

\* The bytes of a packet.
LEMMA PartIs ==
  ASSUME NEW cs, Solid(cs), NEW cuts, Cutting(cs, cuts), NEW i \in 0..Len(cuts) - 1
  PROVE  LET b == Parts(cs, cuts)[i + 1]
         IN  /\ b \in Seq(Readings) /\ b # <<>>
             /\ Len(b) = Begin(cuts, i + 1) - Begin(cuts, i)
             /\ b[1] = Flow(cs)[Begin(cuts, i) + 1]
<1> DEFINE d == Flow(cs)
           x == Begin(cuts, i)
           y == Begin(cuts, i + 1)
           b == SubSeq(d, x + 1, y)
           m == Len(cuts)
<1>1. d \in Seq(Readings)
  BY Layout
<1>2. /\ m \in Nat
      /\ \A k \in 0..m : Begin(cuts, k) \in 0..Len(d)
      /\ \A k, l \in 0..m : k < l => Begin(cuts, k) < Begin(cuts, l)
  BY BeginsGrow
<1>3. i \in 0..m /\ i + 1 \in 0..m /\ i < i + 1 /\ i + 1 \in 1..m /\ Len(d) \in Nat
  BY <1>1, <1>2
<1>4. x \in 0..Len(d) /\ y \in 0..Len(d) /\ x < y
  BY <1>2, <1>3
<1>5. Parts(cs, cuts)[i + 1] = b
  <2>1. Parts(cs, cuts)[i + 1] = SubSeq(d, (IF i + 1 = 1 THEN 0 ELSE cuts[(i + 1) - 1]) + 1, cuts[i + 1])
    BY <1>3 DEF Parts
  <2>2. i + 1 # 0 /\ (i + 1) - 1 = i /\ (i + 1 = 1 <=> i = 0)
    BY <1>2
  <2> QED
    BY <2>1, <2>2 DEF Begin
<1> HIDE DEF d, x, y
<1>6. x + 1 \in 1..Len(d) + 1 /\ y \in Int /\ y - (x + 1) + 1 = y - x /\ x + 1 <= y /\ y <= Len(d)
  BY <1>3, <1>4
<1>7. b \in Seq(Readings) /\ Len(b) = y - x /\ b[1] = d[x + 1]
  BY <1>1, <1>3, <1>4, <1>6
<1>8. b # <<>>
  <2>1. y - x # 0
    BY <1>3, <1>4
  <2> HIDE DEF b
  <2> QED
    BY <1>7, <2>1
<1> QED
  BY <1>5, <1>7, <1>8 DEF x, y, d

\* Up to "at" the containers before the k-th and a piece of it have come.
Reached(cs, ctx, k, at) ==
  /\ Context(ctx, SubSeq(Heads(cs), 1, k), Ends(cs)[k] - at)
  /\ at <= Ends(cs)[k]
  /\ k > 0 => Ends(cs)[k - 1] < at

\* The next packet leads the decoder on.
LEMMA PacketReaches ==
  ASSUME NEW cs \in Seq(Containers), \A k \in 1..Len(cs) : Whole(cs[k]), NEW cuts, Cutting(cs, cuts),
         NEW i \in 0..Len(cuts) - 1, NEW k \in 0..Len(cs), NEW ctx, NEW at \in Nat,
         Reached(cs, ctx, k, Begin(cuts, i))
  PROVE  \E l \in 0..Len(cs) : Reached(cs, DumpPacket(ctx, at, Parts(cs, cuts)[i + 1]), l, Begin(cuts, i + 1))
<1> DEFINE n == Len(cs)
           m == Len(cuts)
           e == Ends(cs)
           d == Flow(cs)
           N == Len(d)
           x == Begin(cuts, i)
           y == Begin(cuts, i + 1)
           b == Parts(cs, cuts)[i + 1]
           r == DumpPacket(ctx, at, b)
<1>1. Solid(cs)
  BY KnownList
<1>2. /\ n \in Nat /\ N \in Nat /\ e \in [0..n -> Nat] /\ e[0] = 0 /\ e[n] = N
      /\ \A j \in 1..n : e[j] = e[j - 1] + cs[j].length /\ Stands(Units(cs[j]), d, e[j - 1])
  BY <1>1, Layout
<1>3. b \in Seq(Readings) /\ b # <<>> /\ Len(b) = y - x /\ b[1] = d[x + 1]
  BY <1>1, PartIs
<1>4. /\ m \in Nat /\ i \in 0..m /\ i + 1 \in 0..m /\ i < i + 1 /\ i + 1 \in 1..m
  <2>1. m \in Nat
    BY <1>1, BeginsGrow
  <2> QED
    BY <2>1
<1>5. x \in 0..N /\ y \in 0..N /\ x < y
  BY <1>1, <1>4, BeginsGrow
<1>6. ASSUME NEW j \in 1..n, x < e[j] PROVE y <= e[j]
  BY <1>1, <1>6, BeginsGrow
<1>7. /\ Context(ctx, SubSeq(Heads(cs), 1, k), e[k] - x)
      /\ x <= e[k] /\ (k > 0 => e[k - 1] < x) /\ k \in 0..n
  BY DEF Reached
<1>8. y = cuts[i + 1]
  BY <1>4 DEF Begin
<1>9. \A j \in 1..n : Whole(cs[j])
  OBVIOUS
<1>10. ASSUME NEW j \in 1..n, cs[j].type # "data" PROVE y \notin e[j - 1] + 1..e[j] - 1
  BY <1>4, <1>8, <1>10 DEF Cutting
<1>11. ctx \in Contexts
  BY <1>7 DEF Context
<1> HIDE DEF n, m, e, d, N, x, y, b
<1>12. x \in Nat /\ y \in Nat /\ e[k] \in Nat
  BY <1>2, <1>5, <1>7
<1>13. CASE x < e[k]
  <2>1. k \in 1..n
    BY <1>2, <1>7, <1>12, <1>13
  <2>2. y <= e[k]
    BY <1>6, <1>13, <2>1
  <2>3. e[k] - x \in Nat /\ e[k] - x > 0 /\ Len(b) <= e[k] - x /\ (e[k] - x) - Len(b) = e[k] - y
    <3>1. ASSUME NEW a \in Nat, x < a, y <= a
          PROVE  a - x \in Nat /\ a - x > 0 /\ y - x <= a - x /\ (a - x) - (y - x) = a - y
      BY <1>12, <3>1
    <3> QED
      BY <1>3, <1>12, <1>13, <2>2, <3>1
  <2>4. Context(r, SubSeq(Heads(cs), 1, k), e[k] - y)
    BY <1>3, <1>7, <1>11, <2>3, DumpPacketIs
  <2>5. k > 0 => e[k - 1] < y
    <3>1. k > 0 => e[k - 1] < x /\ e[k - 1] \in Nat
      BY <1>2, <1>7, <2>1
    <3> QED
      BY <1>5, <1>12, <3>1
  <2> HIDE DEF r
  <2>6. Reached(cs, r, k, y)
    BY <2>2, <2>4, <2>5 DEF Reached, e
  <2>7. k \in 0..Len(cs)
    BY <1>7 DEF n
  <2>8. Reached(cs, DumpPacket(ctx, at, Parts(cs, cuts)[i + 1]), k, Begin(cuts, i + 1))
    BY <2>6 DEF y, r, b
  <2> QED
    BY <2>7, <2>8
<1>14. CASE x = e[k]
  <2> DEFINE l == k + 1
             c == cs[l]
  <2>1. k # n
    BY <1>2, <1>5, <1>14
  <2>2. l \in 1..n /\ l \in 0..n /\ l - 1 = k
    <3>1. ASSUME NEW p \in Nat, NEW q \in 0..p, q # p
          PROVE  q + 1 \in 1..p /\ q + 1 \in 0..p /\ (q + 1) - 1 = q
      BY <3>1
    <3>2. n \in Nat /\ k \in 0..n
      BY <1>2, <1>7
    <3> QED
      BY <2>1, <3>1, <3>2
  <2>3. /\ e[l] = e[k] + c.length /\ e[l] \in Nat /\ Stands(Units(c), d, e[k])
    BY <1>2, <2>2
  <2>4. Whole(c)
    BY <1>9, <2>2
  <2> HIDE DEF l, c
  <2>5. c \in Containers /\ c.length > 0 /\ c.length \in Nat /\ Len(Units(c)) = c.length /\ Units(c)[1] = Start(c)
    BY <2>4, StartIs, UnitsIs
  <2>6. x < e[l]
    BY <1>12, <1>14, <2>3, <2>5
  <2>7. y <= e[l]
    BY <1>6, <2>2, <2>6
  <2>8. b[1] = Start(c)
    <3>1. 1 \in 1..Len(Units(c))
      BY <2>5
    <3>2. d[e[k] + 1] = Units(c)[1]
      BY <2>3, <3>1 DEF Stands
    <3> QED
      BY <1>3, <1>14, <2>5, <3>2
  <2>9. Context(ctx, SubSeq(Heads(cs), 1, k), 0)
    <3>1. e[k] - x = 0
      BY <1>12, <1>14
    <3> QED
      BY <1>7, <3>1
  <2> DEFINE u == IF c.type = "data" /\ Len(b) < c.length THEN c.length - Len(b) ELSE 0
  <2>10. Context(r, Append(SubSeq(Heads(cs), 1, k), Start(c)), u)
    BY <1>3, <1>11, <2>4, <2>8, <2>9, DumpPacketIs
  <2>11. u = e[l] - y
    <3>1. CASE c.type = "data"
      <4>1. ASSUME NEW a \in Nat, NEW z \in Nat, NEW len \in Nat, z = a + len, y <= z, a < y
            PROVE  (IF y - a < len THEN len - (y - a) ELSE 0) = z - y
        BY <1>12, <4>1
      <4>2. (IF y - e[k] < c.length THEN c.length - (y - e[k]) ELSE 0) = e[l] - y
        BY <1>5, <1>12, <1>14, <2>3, <2>5, <2>7, <4>1
      <4> QED
        BY <1>3, <1>14, <3>1, <4>2
    <3>2. CASE c.type # "data"
      <4>1. y \notin e[k] + 1..e[l] - 1
        BY <1>10, <2>2, <3>2 DEF c
      <4>2. y = e[l]
        BY <1>5, <1>12, <1>14, <2>3, <2>7, <4>1
      <4> QED
        BY <1>12, <3>2, <4>2
    <3> QED
      BY <3>1, <3>2
  <2> HIDE DEF u, r
  <2>12. SubSeq(Heads(cs), 1, l) = Append(SubSeq(Heads(cs), 1, k), Start(c))
    <3>1. k \in 0..Len(cs) - 1
      BY <1>2, <1>7, <2>1 DEF n
    <3> QED
      BY <3>1, HeadsAre DEF l, c
  <2>13. e[l - 1] < y
    BY <1>5, <1>14, <2>2
  <2>14. Reached(cs, r, l, y)
    BY <2>7, <2>10, <2>11, <2>12, <2>13 DEF Reached, e
  <2> QED
    BY <2>2, <2>14 DEF n, y, r, b
<1> QED
  BY <1>7, <1>12, <1>13, <1>14

\* A capture prints the containers it is made of, in their order.
LEMMA PcapWhole ==
  ASSUME NEW cs \in Seq(Containers), \A k \in 1..Len(cs) : Whole(cs[k]), NEW cuts, Cutting(cs, cuts),
         NEW mode, NEW h \in Nat, mode = "wifi" => h = WifiHeader,
         NEW packets, packets = [i \in 1..Len(cuts) |-> [header |-> h, payload |-> Parts(cs, cuts)[i]]]
  PROVE  Context(DecodePcap(mode, packets), Heads(cs), 0)
<1> DEFINE n == Len(cs)
           m == Len(cuts)
           e == Ends(cs)
           N == Len(Flow(cs))
           D(g) == g = [k \in 0..m |-> IF k = 0 THEN Fresh ELSE PacketHandler(mode, g[k - 1], k, packets[k])]
           c == CHOOSE g : D(g)
           step == [k \in 1..m |-> [t \in Contexts |-> PacketHandler(mode, t, k, packets[k])]]
<1>1. Solid(cs)
  BY KnownList
<1>2. /\ n \in Nat /\ N \in Nat /\ e \in [0..n -> Nat] /\ e[0] = 0 /\ e[n] = N
  BY <1>1, Layout
<1>3. m \in Nat /\ Begin(cuts, m) = N /\ Begin(cuts, 0) = 0
  BY <1>1, BeginsGrow DEF Begin
<1>4. Len(packets) = m
  BY <1>3
<1>5. ASSUME NEW k \in 0..m - 1, NEW t \in Contexts
      PROVE  /\ PacketHandler(mode, t, k + 1, packets[k + 1]) = DumpPacket(t, k + 1, Parts(cs, cuts)[k + 1])
             /\ DumpPacket(t, k + 1, Parts(cs, cuts)[k + 1]) \in Contexts
  <2> DEFINE b == Parts(cs, cuts)[k + 1]
  <2>1. b \in Seq(Readings) /\ b # <<>>
    <3>1. k \in 0..Len(cuts) - 1
      OBVIOUS
    <3> HIDE DEF m
    <3>2. Parts(cs, cuts)[k + 1] \in Seq(Readings) /\ Parts(cs, cuts)[k + 1] # <<>>
      BY <1>1, <3>1, PartIs
    <3> QED
      BY <3>2
  <2>2. packets[k + 1] = [header |-> h, payload |-> b]
    <3>1. k + 1 \in 1..m
      BY <1>3
    <3> QED
      BY <3>1
  <2>3. k + 1 \in Nat
    BY <1>3
  <2> HIDE DEF b
  <2> QED
    BY <2>1, <2>2, <2>3, PacketHandlerIs, DumpPacketIs DEF b
<1>6. ASSUME NEW k \in 1..m, NEW t \in Contexts PROVE PacketHandler(mode, t, k, packets[k]) \in Contexts
  <2>1. k - 1 \in 0..m - 1 /\ (k - 1) + 1 = k
    BY <1>3
  <2> QED
    BY <1>5, <2>1
<1>7. /\ step \in [1..m -> [Contexts -> Contexts]]
      /\ \A k \in 1..m : \A t \in Contexts : step[k][t] = PacketHandler(mode, t, k, packets[k])
  BY <1>6
<1>8. Fresh \in Contexts
  BY FreshIs DEF Context
<1> HIDE DEF step, m
<1>9. PICK f \in [0..m -> Contexts] : Runs(f, m, Fresh, step)
  BY <1>3, <1>7, <1>8, Recursion
<1>10. D(f)
  <2>1. ASSUME NEW k \in 0..m PROVE f[k] = IF k = 0 THEN Fresh ELSE PacketHandler(mode, f[k - 1], k, packets[k])
    <3>1. CASE k = 0
      BY <1>9, <3>1 DEF Runs
    <3>2. CASE k # 0
      <4>1. k \in 1..m /\ k - 1 \in 0..m
        BY <1>3, <3>2
      <4>2. f[k] = step[k][f[k - 1]] /\ f[k - 1] \in Contexts
        BY <1>9, <4>1 DEF Runs
      <4> QED
        BY <1>7, <3>2, <4>1, <4>2
    <3> QED
      BY <3>1, <3>2
  <2> QED
    BY <2>1
<1>11. D(c)
  BY <1>10
<1>12. DecodePcap(mode, packets) = c[m]
  BY <1>4 DEF DecodePcap
<1> HIDE DEF c
<1>13. c[0] = Fresh
  <2>1. 0 \in 0..m
    BY <1>3
  <2> QED
    BY <1>11, <2>1
<1>14. ASSUME NEW i \in 0..m - 1 PROVE c[i + 1] = PacketHandler(mode, c[i], i + 1, packets[i + 1])
  <2>1. i + 1 \in 0..m /\ i + 1 # 0 /\ (i + 1) - 1 = i
    BY <1>3
  <2> QED
    BY <1>11, <2>1
<1> DEFINE R == {i \in 0..m : \E k \in 0..n : Reached(cs, c[i], k, Begin(cuts, i))}
<1>15. 0 \in R
  <2>1. SubSeq(Heads(cs), 1, 0) = <<>>
    BY HeadsAre
  <2>2. 0 \in 0..m /\ 0 \in 0..n /\ e[0] - 0 = 0 /\ ~(0 > 0) /\ 0 <= e[0]
    BY <1>2, <1>3
  <2>3. Reached(cs, Fresh, 0, 0)
    BY <1>2, <2>1, <2>2, FreshIs DEF Reached
  <2> QED
    BY <1>3, <1>13, <2>2, <2>3
<1>16. ASSUME NEW i \in 0..m - 1, i \in R PROVE i + 1 \in R
  <2>1. PICK k \in 0..n : Reached(cs, c[i], k, Begin(cuts, i))
    BY <1>16
  <2>2. c[i] \in Contexts
    BY <2>1 DEF Reached, Context
  <2>3. c[i + 1] = DumpPacket(c[i], i + 1, Parts(cs, cuts)[i + 1])
    BY <1>5, <1>14, <2>2
  <2>4. i \in 0..Len(cuts) - 1 /\ i + 1 \in Nat
    BY <1>3 DEF m
  <2>5. \E l \in 0..n : Reached(cs, c[i + 1], l, Begin(cuts, i + 1))
    BY <2>1, <2>3, <2>4, PacketReaches
  <2>6. i + 1 \in 0..m
    BY <1>3
  <2> QED
    BY <2>5, <2>6
<1> HIDE DEF R
<1>17. \A i \in 0..m : i \in R
  BY <1>3, <1>15, <1>16, UpTo
<1>18. m \in R
  BY <1>3, <1>17
<1>19. PICK k \in 0..n : Reached(cs, c[m], k, N)
  BY <1>3, <1>18 DEF R
<1>20. k = n
  <2>1. SUFFICES ASSUME k # n PROVE FALSE
    OBVIOUS
  <2>2. k < n /\ n \in 0..n
    BY <1>2, <2>1
  <2>3. e[k] < e[n]
    BY <1>1, <2>2, EndsGrow
  <2>4. N <= e[k] /\ e[k] \in Nat
    BY <1>2, <1>19 DEF Reached
  <2> QED
    BY <1>2, <2>3, <2>4
<1>21. SubSeq(Heads(cs), 1, n) = Heads(cs)
  BY HeadsAre
<1>22. e[n] - N = 0
  BY <1>2
<1>23. Context(c[m], Heads(cs), 0)
  BY <1>19, <1>20, <1>21, <1>22 DEF Reached
<1> QED
  BY <1>12, <1>23

\* Every container's start passes, one behind the other.
LEMMA DumpKept ==
  ASSUME NEW cs \in Seq(Containers), \A k \in 1..Len(cs) : Whole(cs[k]),
         NEW k \in 1..Len(cs)
  PROVE  LET at == Ends(cs)[k - 1] + 1
         IN  at \in 1..Len(Flow(cs)) /\ Passes(Flow(cs)[at])
<1> DEFINE n == Len(cs)
           N == Len(Flow(cs))
           e == Ends(cs)
           x == cs[k]
<1>1. /\ e \in [0..n -> Nat] /\ N \in Nat
      /\ \A i \in 1..n : e[i] = e[i - 1] + cs[i].length /\ Stands(Units(cs[i]), Flow(cs), e[i - 1])
  <2>1. Solid(cs)
    BY KnownList
  <2> QED
    BY <2>1, Layout
<1>2. n \in Nat /\ k \in 1..n /\ k - 1 \in 0..n
  OBVIOUS
<1>3. Whole(x)
  OBVIOUS
<1> HIDE DEF n, e, x
<1>4. x \in Containers /\ x.length \in Nat /\ x.length > 0 /\ Len(Units(x)) = x.length /\ Units(x)[1] = Start(x)
      /\ Passes(Start(x))
  BY <1>3, StartIs, UnitsIs
<1>5. e[k - 1] \in Nat /\ Stands(Units(x), Flow(cs), e[k - 1])
  BY <1>1, <1>2 DEF x
<1>6. e[k - 1] + x.length <= N /\ \A i \in 1..x.length : Flow(cs)[e[k - 1] + i] = Units(x)[i]
  BY <1>4, <1>5 DEF Stands
<1> HIDE DEF N
<1>7. e[k - 1] + 1 \in 1..N /\ 1 \in 1..x.length
  BY <1>1, <1>4, <1>5, <1>6 DEF N
<1> QED
  BY <1>4, <1>6, <1>7 DEF N, e

\* For traffic of any known containers.  A capture, cut into packets anywhere
\* behind the headers of data containers and at the end of every container: each
\* container is printed once, in order.  A raw dump, whatever is read at the
\* positions inside containers: what is printed passes for a container, in order,
\* and no container is missing before the first failure; if nothing between the
\* containers passes, they alone are printed.  Headings follow the container
\* before (dec/main.c:63-295).
THEOREM CapturesAreDecoded ==
  ASSUME \A j \in AllJobs : j.kind \in {"pcap", "dump"} => CaptureJob(j)
  PROVE  Spec => []CaptureDecoded
<1> DEFINE Job == job \in AllJobs
<1>1. Init => Job /\ CaptureDecoded
  BY DEF Init, AllJobs, CaptureDecoded, Finished, Nothing
<1>2. Job /\ CaptureDecoded /\ [Next]_vars => (Job /\ CaptureDecoded)'
  <2> SUFFICES ASSUME Job, CaptureDecoded, [Next]_vars PROVE (Job /\ CaptureDecoded)'
    OBVIOUS
  <2> DEFINE Captured(kind, r) ==
               /\ kind = "pcap" => PcapDecoded(r)
               /\ kind = "dump" => DumpDecoded(r) /\ (NoStrays(job.containers) => PcapDecoded(r))
  <2>1. job' = job
    BY Steps
  <2>2. CASE job.kind \notin {"pcap", "dump"}
    BY <2>1, <2>2 DEF CaptureDecoded, Finished
  <2>3. CASE result' = result
    <3>1. CaptureDecoded' <=> CaptureDecoded
      BY <2>1, <2>3 DEF CaptureDecoded, Finished, PcapDecoded, DumpDecoded, Stopped, Traffic
    <3> QED
      BY <2>1, <3>1
  <2>4. CASE job.kind \in {"pcap", "dump"} /\ result' # result
    <3> DEFINE cs == job.containers
               r == result'.value
    <3>1. CaptureJob(job)
      BY <2>4
    <3>2. cs \in Seq(Containers) /\ \A k \in 1..Len(cs) : Whole(cs[k])
      BY <3>1 DEF CaptureJob
    <3>3. Traffic = Flow(cs)
      BY DEF Traffic, Flow
    <3>4. ASSUME NEW x, Context(x, Heads(cs), 0) PROVE PcapDecoded(x)
      BY <3>4 DEF Context, Told, PcapDecoded
    <3>5. ASSUME job.kind = "dump"
          PROVE  DumpDecoded(r) /\ (NoStrays(cs) => PcapDecoded(r))
      <4> DEFINE d == Flow(cs)
                 fatal == job.fatal
      <4>1. r = DecodeDump(d, fatal)
        BY <2>4, <3>3, <3>5, Steps
      <4>2. d \in Seq(Readings)
        BY <3>2, KnownList, Layout
      <4>3. DumpedTo(r, d, Len(d), fatal)
        BY <4>1, <4>2, DumpDecodes
      <4>4. ASSUME NEW k \in 1..Len(cs), ~Stopped(Ends(cs)[k - 1] + 1)
            PROVE  \E i \in 1..Len(r.printed) : r.printed[i].at = Ends(cs)[k - 1] + 1
        <5> DEFINE at == Ends(cs)[k - 1] + 1
        <5>1. at \in 1..Len(d) /\ Passes(d[at])
          BY <3>2, DumpKept
        <5>2. ~StoppedBy(d, at, fatal)
          BY <3>3, <4>4 DEF Stopped, StoppedBy
        <5> HIDE DEF at, r, d, fatal
        <5>3. \E i \in 1..Len(r.printed) : r.printed[i].at = at
          BY <4>3, <5>1, <5>2 DEF DumpedTo, NoneMissing
        <5> QED
          BY <5>3 DEF at
      <4>5. Stopped(Len(Traffic)) <=> StoppedBy(d, Len(d), fatal)
        BY <3>3 DEF Stopped, StoppedBy
      <4>6. \A i \in 1..Len(r.printed) : r.printed[i].read = Traffic[r.printed[i].at] /\ Passes(r.printed[i].read)
        BY <3>3, <4>3 DEF DumpedTo, PlacesRead
      <4>7. /\ \A i \in 1..Len(r.printed) - 1 : r.printed[i].at < r.printed[i + 1].at
            /\ r.failed <=> Stopped(Len(Traffic))
            /\ Announced(r.printed)
        BY <4>3, <4>5 DEF DumpedTo, Ascending, Told
      <4> HIDE DEF r
      <4>8. DumpDecoded(r)
        BY <4>4, <4>6, <4>7 DEF DumpDecoded
      <4>9. ASSUME NoStrays(cs) PROVE PcapDecoded(r)
        <5>1. Context(DecodeDump(Flow(cs), fatal), Heads(cs), 0)
          BY <3>2, <4>9, DumpWhole
        <5> QED
          BY <3>4, <4>1, <5>1
      <4> QED
        BY <4>8, <4>9 DEF r
    <3>6. ASSUME job.kind = "pcap" PROVE PcapDecoded(r)
      <4>1. r = DecodePcap(job.mode, Packets)
        BY <2>4, <3>6, Steps
      <4>2. job.header \in Nat /\ (job.mode = "wifi" => job.header = WifiHeader) /\ Cutting(cs, job.cuts)
        <5>1. /\ job.header \in Nat /\ (job.mode = "wifi" => job.header = WifiHeader)
              /\ job.cuts \in Seq(Nat) /\ \A i, k \in 1..Len(job.cuts) : i < k => job.cuts[i] < job.cuts[k]
              /\ \A i \in 1..Len(job.cuts) : job.cuts[i] \in 1..Ends(cs)[Len(cs)]
          BY <3>1, <3>6 DEF CaptureJob
        <5>2. ASSUME NEW k \in 1..Len(cs)
              PROVE  /\ \E i \in 1..Len(job.cuts) : job.cuts[i] = Ends(cs)[k]
                     /\ cs[k].type # "data" =>
                          \A i \in 1..Len(job.cuts) : job.cuts[i] \notin Ends(cs)[k - 1] + 1..Ends(cs)[k] - 1
          BY <3>1, <3>6 DEF CaptureJob
        <5> QED
          BY <5>1, <5>2 DEF Cutting
      <4>3. Packets = [i \in 1..Len(job.cuts) |-> [header |-> job.header, payload |-> Parts(cs, job.cuts)[i]]]
        BY <3>3 DEF Packets, Parts
      <4>4. Context(r, Heads(cs), 0)
        BY <3>2, <4>1, <4>2, <4>3, PcapWhole
      <4> QED
        BY <3>4, <4>4
    <3>7. Captured(job.kind, r)
      BY <2>4, <3>5, <3>6
    <3>8. CaptureDecoded' <=> ((Finished("pcap"))' => PcapDecoded(r)) /\ ((Finished("dump"))' => DumpDecoded(r))
                              /\ ((Finished("dump"))' /\ NoStrays(cs) => PcapDecoded(r))
      BY <2>1 DEF CaptureDecoded, Finished, PcapDecoded, DumpDecoded, Stopped, Traffic
    <3> HIDE DEF r, cs
    <3>9. ((Finished("pcap"))' => job.kind = "pcap") /\ ((Finished("dump"))' => job.kind = "dump")
      BY <2>1 DEF Finished
    <3> QED
      BY <2>1, <3>7, <3>8, <3>9 DEF cs
  <2> QED
    BY <2>2, <2>3, <2>4
<1> QED
  BY <1>1, <1>2, PTL DEF Spec

-----------------------------------------------------------------------------
(* Pictures.                                                               *)

\* The last row that stores a place is the row of its pixel.
LEMMA RowOf ==
  ASSUME NEW x \in 0..ScreenWidth - 1, NEW y \in Rows
  PROVE  LastRow(y * ScreenWidth + x) = y
<1> DEFINE p == y * ScreenWidth + x
<1>1. ScreenWidth \in Nat /\ ScreenWidth > 0 /\ y \in Nat /\ x \in Nat /\ ScreenHeight \in Nat
  BY ScreenAssumption DEF Rows
<1>2. y * ScreenWidth \in Int /\ p \in Int
  BY <1>1
<1>3. y \in Stored(p)
  BY <1>1, <1>2 DEF Stored, Columns
<1>4. ASSUME NEW z \in Stored(p) PROVE z <= y
  <2>1. z \in Nat /\ p - z * ScreenWidth \in 0..ScreenWidth /\ z \in Rows
    BY <1>1 DEF Stored, Columns, Rows
  <2>2. SUFFICES ASSUME z >= y + 1 PROVE FALSE
    BY <1>1, <2>1
  <2>3. z * ScreenWidth >= (y + 1) * ScreenWidth
    BY <1>1, <2>1, <2>2
  <2>4. (y + 1) * ScreenWidth = y * ScreenWidth + ScreenWidth
    BY <1>1
  <2>5. z * ScreenWidth \in Int
    BY <1>1, <2>1
  <2> QED
    BY <1>1, <1>2, <2>1, <2>3, <2>4, <2>5
<1>5. LastRow(p) \in Stored(p) /\ \A z \in Stored(p) : z <= LastRow(p)
  <2>1. \E w \in Stored(p) : \A z \in Stored(p) : z <= w
    BY <1>3, <1>4
  <2> QED
    BY <2>1 DEF LastRow
<1>6. LastRow(p) \in Nat
  BY <1>1, <1>5 DEF Stored, Rows
<1> QED
  BY <1>1, <1>3, <1>4, <1>5, <1>6

\* What the frame shows at a pixel.
LEMMA FramePixel ==
  ASSUME NEW bmp, NEW palette, NEW x \in 0..ScreenWidth - 1, NEW y \in 0..ScreenHeight - 1
  PROVE  Frame(bmp, palette)[y * ScreenWidth + x] = Pixel(palette, bmp[y * VramWidth + x])
<1> DEFINE p == y * ScreenWidth + x
<1>1. y \in Rows /\ x \in Columns /\ x \in Int /\ y * ScreenWidth \in Int
  BY ScreenAssumption DEF Rows, Columns
<1>2. LastRow(p) = y
  BY <1>1, RowOf
<1>3. p - y * ScreenWidth = x
  BY <1>1
<1>4. Frame(bmp, palette)[p] = Pixel(palette, bmp[Source(p - LastRow(p) * ScreenWidth, LastRow(p))])
  BY <1>1 DEF Frame
<1> QED
  BY <1>2, <1>3, <1>4 DEF Source

\* For any screen, overlay and palette: a pixel of the frame has the colour its
\* byte of the overlay has in the palette, rows and columns in place (ml.c:99-152).
THEOREM FrameIsThePicture == Spec => []FrameIsPicture
<1>1. Init => FrameIsPicture
  BY DEF Init, FrameIsPicture, Finished, Nothing
<1>2. FrameIsPicture /\ [Next]_vars => FrameIsPicture'
  <2> SUFFICES ASSUME FrameIsPicture, [Next]_vars PROVE FrameIsPicture'
    OBVIOUS
  <2>1. CASE UNCHANGED vars
    BY <2>1 DEF vars, FrameIsPicture, Finished
  <2>2. CASE Bitmap
    <3>1. result'.value = Frame(job.bmp, job.palette) /\ job' = job
      BY <2>2 DEF Bitmap, Perform, Returns
    <3> QED
      BY <3>1, FramePixel DEF FrameIsPicture, Finished
  <2>3. CASE String_ \/ ObjectInfo \/ StorageInfo \/ DeviceInfo \/ Handles \/ PropDesc \/ PropValue
             \/ EventProc \/ Capture \/ RawDump \/ Firmware \/ Request \/ PrintInfo \/ Execute
    <3>1. job' = job /\ job.kind # "bitmap"
      BY <2>3 DEF String_, ObjectInfo, StorageInfo, DeviceInfo, Handles, PropDesc, PropValue,
           EventProc, Capture, RawDump, Firmware, Request, PrintInfo, Execute, Perform
    <3> QED
      BY <3>1 DEF FrameIsPicture, Finished
  <2> QED
    BY <2>1, <2>2, <2>3 DEF Next
<1> QED
  BY <1>1, <1>2, PTL DEF Spec
=============================================================================

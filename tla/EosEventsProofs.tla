-------------------------- MODULE EosEventsProofs --------------------------
(* r->avail and its memory, and the events that fill it: proofs about      *)
(* PropAvail, for any codes, values and lengths of lists, and EosEvents,   *)
(* for any properties and any number of entries on their way.              *)
EXTENDS EosEvents, SequenceTheorems, TLAPS

-----------------------------------------------------------------------------
(* PropAvail.                                                              *)

\* A list is stored at the beginning of memory that holds it, place by place.
Stored(vals, data) ==
  /\ Len(vals) <= Len(data)
  /\ \A k \in 1..Len(vals) : data[k] = vals[k]

\* What is known of the entry e of a code whose last list is l, with members of
\* s bytes: validation reads memb_cnt members, which were written; they are whole
\* after a list like the first; and as long as the code is none of mix, whose
\* lists came with members of several sizes, the memory is that of its members.
Fits(c, e, s, l, mix) ==
  /\ s # 0
  /\ e.cnt <= Len(e.data) /\ Stored(l, e.data)
  /\ s = e.memb /\ Len(l) >= e.cnt => e.torn = "no"
  /\ c \notin mix => e.memb = s /\ e.room = s * Len(e.data)

\* A code the camera has listed has one entry, which holds its last list; one
\* it has not listed has none.
Known ==
  /\ \A c \in Codes : latest[c] = <<>> => Found(c) = {}
  /\ \A c \in Codes : latest[c] # <<>> =>
       \E i \in 1..Len(avail) : Found(c) = {i} /\ Fits(c, avail[i], size[c], latest[c], mixed)

BlankAlone == \A i \in 1..Len(avail) : avail[i].code = Blank => Len(avail) = 1

\* Only among lists with members of several sizes is one too large.
SpiltMixed == spilt # Blank => spilt \in mixed

PInv == TypeOK /\ Known /\ BlankAlone /\ SpiltMixed

-----------------------------------------------------------------------------
(* Lists and memory.                                                       *)

LEMMA StoredIsPrefix ==
  ASSUME NEW s \in Seq(Values), NEW t \in Seq(Values), Stored(s, t)
  PROVE  IsPrefix(s, t)
<1>1. /\ Len(s) \in Nat /\ Len(t) \in Nat
      /\ \A k \in 1..Len(s) : s[k] \in Values
      /\ \A k \in 1..Len(s) : t[k] \in Values
  BY DEF Stored
<1>2. SubSeq(s, 1, Len(s)) \in Seq(Values) /\ SubSeq(t, 1, Len(s)) \in Seq(Values)
  BY <1>1, SubSeqProperties
<1>3. /\ Len(SubSeq(s, 1, Len(s))) = Len(s) /\ Len(SubSeq(t, 1, Len(s))) = Len(s)
      /\ \A k \in 1..Len(s) : SubSeq(s, 1, Len(s))[k] = s[k] /\ SubSeq(t, 1, Len(s))[k] = t[k]
  BY <1>1, SubSeqProperties
<1>4. SubSeq(s, 1, Len(s)) = SubSeq(t, 1, Len(s))
  BY <1>2, <1>3, SeqEqual DEF Stored
<1> QED
  BY <1>4 DEF IsPrefix, Stored

LEMMA ListsAreLists ==
  ASSUME NEW c \in Codes, NEW vals \in Lists(c)
  PROVE  vals \in Seq(Values) /\ vals # <<>> /\ Len(vals) \in Nat
<1>1. PICK n \in Counts[c] : vals \in [1..n -> Values]
  BY DEF Lists
<1>2. n \in Nat \ {0}
  BY CountsAssumption
<1>3. vals \in Seq(Values) /\ Len(vals) = n
  BY <1>1, <1>2
<1> QED
  BY <1>2, <1>3

LEMMA TimesGrows == ASSUME NEW m \in Nat, NEW a \in Nat, NEW b \in Nat, a <= b
                    PROVE  m * a <= m * b /\ m * a \in Nat /\ m * b \in Nat
OBVIOUS

\* The codes known to have lists of several sizes after one with members of m.
Mixes(c, s, m, mix) == IF s \in {0, m} THEN mix ELSE mix \cup {c}

\* An entry after a list of the same code: realloc and memcpy.
Changed(e, m, vals) == [e EXCEPT !.room = Realloc(e, m, vals), !.data = Memcpy(e, vals),
                                 !.torn = Torn(e, m, vals)]

\* The memory holds the new list, and still memb_cnt members.
LEMMA MemcpyHolds ==
  ASSUME NEW e \in Entry, e.cnt <= Len(e.data), NEW vals \in Seq(Values)
  PROVE  /\ Memcpy(e, vals) \in Seq(Values)
         /\ Stored(vals, Memcpy(e, vals))
         /\ e.cnt <= Len(Memcpy(e, vals))
         /\ Len(Memcpy(e, vals)) = IF Len(vals) > e.cnt THEN Len(vals) ELSE Len(e.data)
<1>1. e.cnt \in Nat /\ e.data \in Seq(Values) /\ Len(e.data) \in Nat /\ Len(vals) \in Nat
  BY DEF Entry
<1>2. CASE Len(vals) > e.cnt
  BY <1>1, <1>2 DEF Memcpy, Stored
<1>3. CASE ~(Len(vals) > e.cnt)
  <2> DEFINE rest == SubSeq(e.data, Len(vals) + 1, Len(e.data))
  <2>1. \A i \in Len(vals) + 1..Len(e.data) : e.data[i] \in Values
    BY <1>1
  <2>2. rest \in Seq(Values) /\ Len(rest) = Len(e.data) - Len(vals)
    BY <1>1, <1>3, <2>1, SubSeqProperties
  <2> HIDE DEF rest
  <2>3. /\ vals \o rest \in Seq(Values)
        /\ Len(vals \o rest) = Len(e.data)
        /\ \A k \in 1..Len(vals) : (vals \o rest)[k] = vals[k]
    BY <1>1, <1>3, <2>2, ConcatProperties
  <2>4. Memcpy(e, vals) = vals \o rest
    BY <1>3 DEF Memcpy, rest
  <2> QED
    BY <1>1, <1>3, <2>3, <2>4 DEF Stored
<1> QED
  BY <1>2, <1>3

\* What is known of an entry is known of it after another list, and the list is
\* too large for the memory only if its members are not of the size before.
LEMMA ChangedFits ==
  ASSUME NEW c \in Codes, NEW e \in Entry, NEW s \in Nat, NEW l \in Seq(Values),
         NEW mix \in SUBSET Codes, Fits(c, e, s, l, mix),
         NEW m \in Nat \ {0}, NEW vals \in Seq(Values)
  PROVE  /\ Changed(e, m, vals) \in Entry /\ Changed(e, m, vals).code = e.code
         /\ Fits(c, Changed(e, m, vals), m, vals, Mixes(c, s, m, mix))
         /\ m * Len(vals) > Realloc(e, m, vals) => c \in Mixes(c, s, m, mix)
<1> DEFINE data == Memcpy(e, vals)
           room == Realloc(e, m, vals)
           torn == Torn(e, m, vals)
           n == Len(vals)
           x == Changed(e, m, vals)
<1>1. /\ e.cnt \in Nat /\ e.memb \in Nat /\ e.room \in Nat /\ e.data \in Seq(Values)
      /\ Len(e.data) \in Nat /\ n \in Nat /\ m \in Nat
  BY DEF Entry
<1>2. e.cnt <= Len(e.data) /\ s # 0
  BY DEF Fits
<1>3. /\ data \in Seq(Values) /\ Stored(vals, data) /\ e.cnt <= Len(data)
      /\ Len(data) = IF n > e.cnt THEN n ELSE Len(e.data)
  BY <1>2, MemcpyHolds
<1>4. room \in Nat
  BY <1>1 DEF Realloc
<1>5. torn \in {"no", "yes"} /\ (m = e.memb /\ n >= e.cnt => torn = "no")
  BY DEF Torn, Entry
<1> HIDE DEF data, room, torn
<1>6. /\ x \in Entry /\ x.code = e.code /\ x.memb = e.memb /\ x.cnt = e.cnt
      /\ x.room = room /\ x.data = data /\ x.torn = torn
  BY <1>3, <1>4, <1>5 DEF Changed, Entry, data, room, torn
<1> HIDE DEF x
<1>7. ASSUME c \notin Mixes(c, s, m, mix)
      PROVE  /\ e.memb = m /\ room = m * Len(data) /\ ~(m * n > room)
  <2>1. s = m /\ c \notin mix
    BY <1>2, <1>7 DEF Mixes
  <2>2. e.memb = m /\ e.room = m * Len(e.data)
    BY <2>1 DEF Fits
  <2>3. room = IF n > e.cnt THEN m * n ELSE e.room
    BY DEF room, Realloc
  <2>4. room = m * Len(data)
    BY <1>3, <2>2, <2>3
  <2>5. n <= Len(data)
    BY <1>3 DEF Stored
  <2>6. m * n <= m * Len(data) /\ m * n \in Nat
    <3>1. Len(data) \in Nat
      BY <1>3
    <3> QED
      BY <1>1, <2>5, <3>1, TimesGrows
  <2>7. ~(m * n > room)
    <3> DEFINE y == m * n
    <3>1. y \in Nat /\ y <= room
      BY <2>4, <2>6
    <3> HIDE DEF y
    <3>2. ~(y > room)
      BY <1>4, <3>1
    <3> QED
      BY <3>2 DEF y
  <2> QED
    BY <2>2, <2>4, <2>7
<1>8. Fits(c, x, m, vals, Mixes(c, s, m, mix))
  BY <1>1, <1>3, <1>5, <1>6, <1>7 DEF Fits
<1>9. m * n > room => c \in Mixes(c, s, m, mix)
  BY <1>7
<1> QED
  BY <1>6, <1>8, <1>9 DEF x, room, n

\* Where a code has one entry both walks find it.
LEMMA FindOnly ==
  ASSUME TypeOK, NEW c \in Codes, NEW i \in 1..Len(avail), Found(c) = {i}
  PROVE  Find(c) = i
<1>1. i \in Nat
  BY DEF TypeOK
<1> QED
  BY <1>1 DEF Find

-----------------------------------------------------------------------------
(* The steps.                                                              *)

LEMMA InitPInv == Init => PInv
<1> SUFFICES ASSUME Init PROVE PInv
  OBVIOUS
<1> DEFINE e == [code |-> Blank, memb |-> 0, cnt |-> 0, room |-> 0, data |-> <<>>,
                 torn |-> "no"]
<1>1. e \in Entry
  BY DEF Entry
<1>2. /\ avail = <<e>> /\ latest = [c \in Codes |-> <<>>] /\ verdict = 1
      /\ size = [c \in Codes |-> 0] /\ mixed = {} /\ spilt = Blank
  BY DEF Init
<1>3. Len(avail) = 1 /\ avail[1] = e /\ e.code = Blank
  BY <1>2
<1> HIDE DEF e
<1>4. TypeOK
  BY <1>1, <1>2 DEF TypeOK
<1>5. Known
  BY <1>2, <1>3, CodesAssumption DEF Known, Found
<1>6. BlankAlone /\ SpiltMixed
  BY <1>2, <1>3 DEF BlankAlone, SpiltMixed
<1> QED
  BY <1>4, <1>5, <1>6 DEF PInv

\* The codes with lists of several sizes, after one of c.
NowMixed(c, m) == Mixes(c, size[c], m, mixed)

\* An event for a known code changes the memory of its entry and no other.
LEMMA UpdatePlaces ==
  ASSUME PInv, NEW c \in Codes, NEW m \in Nat \ {0}, NEW vals \in Seq(Values),
         Update(c, m, vals)
  PROVE  /\ latest[c] # <<>>
         /\ avail' \in Seq(Entry) /\ Len(avail') = Len(avail)
         /\ \E k \in 1..Len(avail) :
              /\ Found(c) = {k}
              /\ avail'[k].code = c /\ Fits(c, avail'[k], m, vals, NowMixed(c, m))
              /\ \A i \in 1..Len(avail) \ {k} : avail'[i] = avail[i]
         /\ (spilt' = spilt \/ (spilt' = c /\ c \in NowMixed(c, m)))
<1> USE DEF PInv
<1>1. latest[c] # <<>>
  BY DEF Known, Update
<1>2. PICK k \in 1..Len(avail) :
        Found(c) = {k} /\ Fits(c, avail[k], size[c], latest[c], mixed)
  BY <1>1 DEF Known
<1>3. Find(c) = k
  BY <1>2, FindOnly
<1>4. avail[k] \in Entry /\ avail[k].code = c
  BY <1>2 DEF TypeOK, Found
<1>5. size[c] \in Nat /\ latest[c] \in Seq(Values) /\ mixed \in SUBSET Codes
  BY DEF TypeOK
<1> DEFINE e == Changed(avail[k], m, vals)
<1>6. /\ e \in Entry /\ e.code = c /\ Fits(c, e, m, vals, NowMixed(c, m))
      /\ m * Len(vals) > Realloc(avail[k], m, vals) => c \in NowMixed(c, m)
  BY <1>2, <1>4, <1>5, ChangedFits DEF NowMixed
<1>7. avail' = [avail EXCEPT ![k] = e]
  BY <1>3 DEF Update, Changed
<1>s. spilt' = IF m * Len(vals) > Realloc(avail[k], m, vals) THEN c ELSE spilt
  BY <1>3 DEF Update
<1> HIDE DEF e
<1>8. /\ avail' \in Seq(Entry) /\ Len(avail') = Len(avail)
      /\ \A i \in 1..Len(avail) : avail'[i] = IF i = k THEN e ELSE avail[i]
  BY <1>6, <1>7, ExceptSeq DEF TypeOK
<1>9. (spilt' = spilt) \/ (spilt' = c /\ c \in NowMixed(c, m))
  BY <1>6, <1>s
<1> QED
  BY <1>1, <1>2, <1>6, <1>8, <1>9

\* Where an event has put its list: c has this one entry, and the entries of
\* the other codes are where they were.
Placed(c, m, vals, k) ==
  /\ avail' \in Seq(Entry) /\ Len(avail) <= Len(avail') /\ k \in 1..Len(avail')
  /\ avail'[k].code = c /\ Fits(c, avail'[k], m, vals, NowMixed(c, m))
  /\ \A i \in 1..Len(avail') \ {k} :
       i \in 1..Len(avail) /\ avail'[i] = avail[i] /\ avail[i].code \notin {c, Blank}
  /\ k \in 1..Len(avail) => avail[k].code \in {c, Blank}

LEMMA UpdatePlaced ==
  ASSUME PInv, NEW c \in Codes, NEW m \in Nat \ {0}, NEW vals \in Seq(Values),
         Update(c, m, vals)
  PROVE  \E k \in 1..Len(avail') : Placed(c, m, vals, k)
<1>1. PICK k \in 1..Len(avail) :
        /\ Found(c) = {k}
        /\ avail'[k].code = c /\ Fits(c, avail'[k], m, vals, NowMixed(c, m))
        /\ \A i \in 1..Len(avail) \ {k} : avail'[i] = avail[i]
  BY UpdatePlaces
<1>2. avail' \in Seq(Entry) /\ Len(avail') = Len(avail) /\ Len(avail) \in Nat
  BY UpdatePlaces DEF PInv, TypeOK
<1>3. avail[k].code = c /\ \A i \in 1..Len(avail) \ {k} : avail[i].code # c
  BY <1>1 DEF Found
<1>4. \A i \in 1..Len(avail) \ {k} : avail[i].code # Blank
  <2>1. CASE Len(avail) = 1
    BY <2>1, <1>1
  <2>2. CASE Len(avail) # 1
    BY <2>2 DEF PInv, BlankAlone
  <2> QED
    BY <2>1, <2>2
<1> QED
  BY <1>1, <1>2, <1>3, <1>4 DEF Placed

\* A new code goes into the blank entry, which is alone then, or after the last.
LEMMA InsertPlaced ==
  ASSUME PInv, NEW c \in Codes, NEW m \in Nat \ {0}, NEW vals \in Seq(Values),
         Insert(c, m, vals)
  PROVE  \E k \in 1..Len(avail') : Placed(c, m, vals, k)
<1> DEFINE n == First(c, m, vals)
<1>1. /\ n \in Entry /\ n.code = c /\ n.cnt = Len(n.data) /\ n.data = vals
      /\ n.memb = m /\ n.room = m * Len(n.data) /\ n.torn = "no" /\ Len(vals) \in Nat
  <2>1. Len(vals) \in Nat /\ m * Len(vals) \in Nat
    OBVIOUS
  <2> QED
    BY <2>1 DEF Entry, First
<1> HIDE DEF n
<1>2. Fits(c, n, m, vals, NowMixed(c, m))
  BY <1>1 DEF Fits, Stored
<1>3. avail \in Seq(Entry) /\ Len(avail) \in Nat \ {0} /\ Last(avail) = avail[Len(avail)]
  BY DEF PInv, TypeOK, Last
<1>4. \A i \in 1..Len(avail) : avail[i].code # c
  BY DEF Insert, Found
<1>5. CASE Last(avail).code = Blank
  <2>1. Len(avail) = 1
    BY <1>3, <1>5 DEF PInv, BlankAlone
  <2>2. Front(avail) = <<>>
    BY <2>1 DEF Front
  <2>3. avail' = Front(avail) \o <<n>>
    BY <1>5 DEF Insert, n
  <2>4. <<n>> \in Seq(Entry) /\ Len(<<n>>) = 1 /\ <<n>>[1] = n
    BY <1>1
  <2>5. avail' = <<n>>
    BY <2>2, <2>3, <2>4
  <2> QED
    BY <1>1, <1>2, <1>3, <1>5, <2>1, <2>4, <2>5 DEF Placed
<1>6. CASE Last(avail).code # Blank
  <2>1. avail' = Append(avail, n)
    BY <1>6 DEF Insert, n
  <2>2. /\ avail' \in Seq(Entry) /\ Len(avail') = Len(avail) + 1
        /\ avail'[Len(avail) + 1] = n
        /\ \A i \in 1..Len(avail) : avail'[i] = avail[i]
    BY <1>1, <1>3, <2>1, AppendProperties
  <2>3. \A i \in 1..Len(avail) : avail[i].code # Blank
    BY <1>3, <1>6 DEF PInv, BlankAlone
  <2> QED
    BY <1>1, <1>2, <1>3, <1>4, <2>2, <2>3 DEF Placed
<1> QED
  BY <1>5, <1>6

\* Each walk for another code ends where it did.
LEMMA FoundAfter ==
  ASSUME TypeOK, NEW c \in Codes, NEW m, NEW vals, NEW k \in 1..Len(avail'),
         Placed(c, m, vals, k)
  PROVE  /\ Found(c)' = {k}
         /\ \A d \in Codes \ {c} : Found(d)' = Found(d) /\ k \notin Found(d)
<1>1. Len(avail) \in Nat /\ Len(avail') \in Nat
  BY DEF TypeOK, Placed
<1>2. Found(c)' = {k}
  BY <1>1 DEF Found, Placed
<1>3. ASSUME NEW d \in Codes \ {c} PROVE Found(d)' = Found(d) /\ k \notin Found(d)
  <2>1. d # Blank /\ d # c
    BY CodesAssumption
  <2>2. k \notin Found(d) /\ k \notin Found(d)'
    BY <1>2, <2>1 DEF Found, Placed
  <2>3. ASSUME NEW i \in Found(d) PROVE i \in Found(d)'
    BY <1>1, <2>1, <2>2, <2>3 DEF Found, Placed
  <2>4. ASSUME NEW i \in Found(d)' PROVE i \in Found(d)
    BY <1>1, <2>1, <2>2, <2>4 DEF Found, Placed
  <2> QED
    BY <2>2, <2>3, <2>4
<1> QED
  BY <1>2, <1>3

LEMMA NextPInv == PInv /\ [Next]_vars => PInv'
<1> SUFFICES ASSUME PInv, [Next]_vars PROVE PInv'
  OBVIOUS
<1>1. ASSUME NEW c \in Codes, NEW m \in Sizes[c], NEW vals \in Lists(c),
             SetPropAvailInfo(c, m, vals)
      PROVE  PInv'
  <2>1. vals \in Seq(Values) /\ vals # <<>> /\ m \in Nat \ {0}
    <3>1. Sizes[c] \subseteq Nat \ {0}
      BY CountsAssumption
    <3> QED
      BY <3>1, ListsAreLists
  <2>2. PICK k \in 1..Len(avail') : Placed(c, m, vals, k)
    BY <1>1, <2>1, UpdatePlaced, InsertPlaced DEF SetPropAvailInfo
  <2>3. /\ Found(c)' = {k}
        /\ \A d \in Codes \ {c} : Found(d)' = Found(d) /\ k \notin Found(d)
    BY <2>2, FoundAfter DEF PInv
  <2>4. /\ latest' \in [Codes -> Seq(Values)] /\ latest'[c] = vals
        /\ \A d \in Codes \ {c} : latest'[d] = latest[d]
    BY <1>1, <2>1 DEF SetPropAvailInfo, PInv, TypeOK
  <2>a. /\ size' \in [Codes -> Nat] /\ size'[c] = m
        /\ \A d \in Codes \ {c} : size'[d] = size[d]
    BY <1>1, <2>1 DEF SetPropAvailInfo, PInv, TypeOK
  <2>b. /\ mixed' = NowMixed(c, m) /\ mixed' \in SUBSET Codes /\ mixed \subseteq mixed'
        /\ \A d \in Codes \ {c} : d \in mixed' <=> d \in mixed
    BY <1>1 DEF SetPropAvailInfo, NowMixed, Mixes, PInv, TypeOK
  <2>c. (spilt' = spilt) \/ (spilt' = c /\ c \in mixed')
    <3>1. CASE Update(c, m, vals)
      BY <2>1, <2>b, <3>1, UpdatePlaces
    <3>2. CASE Insert(c, m, vals)
      BY <3>2 DEF Insert
    <3> QED
      BY <1>1, <3>1, <3>2 DEF SetPropAvailInfo
  <2>5. TypeOK'
    <3>1. avail' \in Seq(Entry) /\ avail' # <<>> /\ verdict' = verdict
      BY <1>1, <2>2 DEF SetPropAvailInfo, Placed
    <3>2. spilt' \in Codes \cup {Blank}
      BY <2>c DEF PInv, TypeOK
    <3> QED
      BY <2>4, <2>a, <2>b, <3>1, <3>2 DEF PInv, TypeOK
  <2>6. Known'
    <3>1. ASSUME NEW d \in Codes, latest'[d] = <<>> PROVE Found(d)' = {}
      BY <2>1, <2>3, <2>4, <3>1 DEF PInv, Known
    <3>2. ASSUME NEW d \in Codes, latest'[d] # <<>>
          PROVE  \E i \in 1..Len(avail') :
                   Found(d)' = {i} /\ Fits(d, avail'[i], size'[d], latest'[d], mixed')
      <4>1. CASE d = c
        BY <4>1, <2>2, <2>3, <2>4, <2>a, <2>b DEF Placed
      <4>2. CASE d # c
        <5>1. PICK i \in 1..Len(avail) :
                Found(d) = {i} /\ Fits(d, avail[i], size[d], latest[d], mixed)
          BY <4>2, <2>4, <3>2 DEF PInv, Known
        <5>2. Found(d)' = {i} /\ i # k /\ latest'[d] = latest[d] /\ size'[d] = size[d]
          BY <4>2, <2>3, <2>4, <2>a, <5>1
        <5>3. i \in 1..Len(avail')
          BY <5>2 DEF Found
        <5>4. avail'[i] = avail[i]
          BY <5>2, <5>3, <2>2 DEF Placed
        <5>5. Fits(d, avail[i], size[d], latest[d], mixed')
          BY <4>2, <5>1, <2>b DEF Fits
        <5> QED
          BY <5>2, <5>3, <5>4, <5>5
      <4> QED
        BY <4>1, <4>2
    <3> QED
      BY <3>1, <3>2 DEF Known, Fits, Stored
  <2>7. SpiltMixed'
    BY <2>b, <2>c DEF PInv, SpiltMixed
  <2>8. BlankAlone'
    BY <2>2, CodesAssumption DEF BlankAlone, Placed
  <2> QED
    BY <2>5, <2>6, <2>7, <2>8 DEF PInv
<1>2. ASSUME NEW c \in Codes, NEW v \in Values, SetValidateProp(c, v)
      PROVE  PInv'
  <2>1. verdict' \in 0..3
    BY <1>2 DEF SetValidateProp, Validate
  <2>2. UNCHANGED <<avail, latest, size, mixed, spilt>>
    BY <1>2 DEF SetValidateProp
  <2> QED
    BY <2>1, <2>2 DEF PInv, TypeOK, Known, Found, SpiltMixed, BlankAlone
<1>3. CASE UNCHANGED vars
  BY <1>3 DEF vars, PInv, TypeOK, Known, Found, SpiltMixed, BlankAlone
<1> QED
  BY <1>1, <1>2, <1>3 DEF Next, Stopped

LEMMA PInvAlways == Spec => []PInv
  BY InitPInv, NextPInv, PTL DEF Spec

-----------------------------------------------------------------------------
(* What follows.                                                           *)

\* Every entry of r->avail is one, and the list is never empty.
THEOREM AvailTypeCorrect == Spec => []TypeOK
<1>1. PInv => TypeOK
  BY DEF PInv
<1> QED
  BY <1>1, PInvAlways, PTL

\* However the lists of a code grow and shrink, as long as their members keep
\* their size the memory of its entry holds the last one and validation reads
\* inside it; only with members of several sizes does memcpy leave the memory.
THEOREM ListsInsideMemory == Spec => []InsideMemory
<1>1. PInv => InsideMemory
  <2> SUFFICES ASSUME PInv PROVE InsideMemory
    OBVIOUS
  <2>1. spilt # Blank => spilt \in mixed
    BY DEF PInv, SpiltMixed
  <2>2. ASSUME NEW c \in Codes \ mixed, latest[c] # <<>>
        PROVE  /\ Found(c) # {}
               /\ avail[Find(c)].memb * avail[Find(c)].cnt <= avail[Find(c)].room
               /\ size[c] * Len(latest[c]) <= avail[Find(c)].room
               /\ IsPrefix(latest[c], avail[Find(c)].data)
    <3>1. PICK i \in 1..Len(avail) :
            Found(c) = {i} /\ Fits(c, avail[i], size[c], latest[c], mixed)
      BY <2>2 DEF PInv, Known
    <3>2. Find(c) = i
      BY <3>1, FindOnly DEF PInv
    <3>3. avail[i] \in Entry /\ latest[c] \in Seq(Values) /\ size[c] \in Nat
      BY DEF PInv, TypeOK
    <3>4. avail[i].data \in Seq(Values) /\ avail[i].cnt \in Nat
      BY <3>3 DEF Entry
    <3>5. /\ avail[i].memb = size[c] /\ avail[i].room = size[c] * Len(avail[i].data)
          /\ avail[i].cnt <= Len(avail[i].data) /\ Len(latest[c]) <= Len(avail[i].data)
          /\ Stored(latest[c], avail[i].data)
      BY <2>2, <3>1 DEF Fits, Stored
    <3>6. /\ size[c] * avail[i].cnt <= size[c] * Len(avail[i].data)
          /\ size[c] * Len(latest[c]) <= size[c] * Len(avail[i].data)
      <4>1. Len(avail[i].data) \in Nat /\ Len(latest[c]) \in Nat
        BY <3>3, <3>4
      <4> QED
        BY <3>3, <3>4, <3>5, <4>1, TimesGrows
    <3> QED
      BY <3>1, <3>2, <3>3, <3>4, <3>5, <3>6, StoredIsPrefix
  <2> QED
    BY <2>1, <2>2 DEF InsideMemory
<1> QED
  BY <1>1, PInvAlways, PTL

\* The walk from r->avail finds one entry for each code the camera has listed,
\* none for another, and the blank entry only while nothing is listed.
THEOREM OneEntry == Spec => []OneEntryPerCode
<1>1. PInv => OneEntryPerCode
  <2> SUFFICES ASSUME PInv PROVE OneEntryPerCode
    OBVIOUS
  <2>1. ASSUME NEW c \in Codes
        PROVE  latest[c] # <<>> <=> \E i \in Found(c) : Found(c) = {i}
    BY DEF PInv, Known
  <2>2. Blank \in {avail[i].code : i \in 1..Len(avail)} => Len(avail) = 1
    BY DEF PInv, BlankAlone
  <2> QED
    BY <2>1, <2>2 DEF OneEntryPerCode
<1> QED
  BY <1>1, PInvAlways, PTL

\* ptp_eos_set_validate_prop judges a value by the camera's last list, up to
\* that list having the length and the member size the entry remembers from the
\* first, whatever the lists between them were.
THEOREM JudgedRight == Spec => JudgedAtFirstLength
<1>1. ASSUME PInv, NEW c \in Codes, NEW v \in Values, SetValidateProp(c, v), SameForm(c)
      PROVE  Judged(c, v)
  <2>1. CASE latest[c] = <<>>
    <3>1. verdict' \in {1}
      BY <1>1, <2>1 DEF PInv, Known, SetValidateProp, Validate
    <3> QED
      BY <2>1, <3>1 DEF Judged
  <2>2. CASE latest[c] # <<>>
    <3>1. PICK i \in 1..Len(avail) :
            Found(c) = {i} /\ Fits(c, avail[i], size[c], latest[c], mixed)
      BY <1>1, <2>2 DEF PInv, Known
    <3>2. Find(c) = i
      BY <1>1, <3>1, FindOnly DEF PInv
    <3>3. /\ avail[i].cnt = Len(latest[c]) /\ avail[i].memb \in Readable
          /\ size[c] = avail[i].memb
      BY <1>1, <2>2, <3>2 DEF SameForm
    <3>4. \A k \in 1..Len(latest[c]) : avail[i].data[k] = latest[c][k]
      BY <3>1 DEF Fits, Stored
    <3>5. avail[i].torn = "no"
      <4>1. Len(latest[c]) \in Nat
        BY <1>1 DEF PInv, TypeOK
      <4> QED
        BY <3>1, <3>3, <4>1 DEF Fits
    <3>6. verdict' = IF Supported(c, v) THEN 0 ELSE 2
      <4>1. verdict' \in Validate(c, v)
        BY <1>1 DEF SetValidateProp
      <4>2. Validate(c, v) = IF \E k \in 1..avail[i].cnt : avail[i].data[k] = v THEN {0} ELSE {2}
        BY <3>1, <3>2, <3>3, <3>5 DEF Validate
      <4>3. (\E k \in 1..avail[i].cnt : avail[i].data[k] = v) <=> Supported(c, v)
        BY <3>3, <3>4 DEF Supported
      <4> QED
        BY <4>1, <4>2, <4>3
    <3> QED
      BY <2>2, <3>6 DEF Judged
  <2> QED
    BY <2>1, <2>2
<1>2. PInv => [\A c \in Codes, v \in Values :
                 SetValidateProp(c, v) /\ SameForm(c) => Judged(c, v)]_vars
  BY <1>1
<1> QED
  BY <1>2, PInvAlways, PTL DEF JudgedAtFirstLength

-----------------------------------------------------------------------------
(* Entries on their way.                                                   *)

Entries == Others \cup {ValueEntry(p, d) : p \in Props, d \in Nat}
           \cup UNION {{Record("list", p, o) : o \in Offers[p]} : p \in Codes}

\* An entry of type t that says something about p.
Concerns(e, t, p) == e.type = t /\ e.code = p /\ e.data # <<>>

\* Of s[m] .. s[n], the last entry about p says x; none is about p.
LastSays(s, m, n, t, p, x) ==
  \E i \in m..n : /\ Concerns(s[i], t, p) /\ s[i].data = x
                  /\ \A j \in m..n : j > i => ~Concerns(s[j], t, p)
Silent(s, m, n, t, p) == \A i \in m..n : ~Concerns(s[i], t, p)

\* The same of s[m] .. s[n] with q behind them.
Ends(q, s, m, n, t, p, x) ==
  \/ LastSays(q, 1, Len(q), t, p, x)
  \/ Silent(q, 1, Len(q), t, p) /\ LastSays(s, m, n, t, p, x)
Nothing(q, s, m, n, t, p) == Silent(q, 1, Len(q), t, p) /\ Silent(s, m, n, t, p)

\* What the front end shows, with the entries on their way applied, is the camera.
ValuesCome ==
  \A p \in Props :
    \/ Ends(queue, payload, 1, Length(payload), "value", p, <<camera[p]>>)
    \/ /\ Nothing(queue, payload, 1, Length(payload), "value", p)
       /\ shown[p] = Shows(p, camera[p])

\* What r->avail has seen, with the lists not yet unpacked, is what was offered.
ListsCome ==
  \A p \in Codes :
    \/ Ends(queue, payload, Len(events) + 1, Length(payload), "list", p, offer[p])
    \/ /\ Nothing(queue, payload, Len(events) + 1, Length(payload), "list", p)
       /\ latest[p] = offer[p]

\* Entries keep their form, and the array holds what was unpacked so far.
Unpacking ==
  /\ queue \in Seq(Entries) /\ payload \in Seq(Entries \cup {End})
  /\ Length(payload) \in Nat
  /\ \A i \in 1..Length(payload) : payload[i] \in Entries
  /\ events \in Seq({Unpack(e) : e \in Entries}) /\ Len(events) <= Length(payload)
  /\ \A i \in 1..Len(events) : events[i] = Unpack(payload[i])
  /\ pc = "idle" => payload = <<>> /\ events = <<>>

\* What was set by name and taken is still set.
Wished == \A p \in Props : \A v \in wish[p] :
            p \in DOMAIN Wishes /\ v \in Wishes[p] /\ camera[p] = Data(p, v)

Kinds == /\ camera \in [Props -> Nat]
         /\ wish \in [Props -> SUBSET UNION {Wishes[p] : p \in DOMAIN Wishes}]
         /\ offer \in [Codes -> Seq(Values)] /\ latest \in [Codes -> Seq(Values)]

EInv == Kinds /\ Unpacking /\ ValuesCome /\ ListsCome /\ Wished

\* No entry but the terminator is one.
LEMMA EntriesAre ==
  ASSUME NEW e \in Entries
  PROVE  /\ e.type # "end"
         /\ e.type = "value" =>
              \E p \in Props, d \in Nat : e = Record("value", p, <<d>>)
         /\ e.type = "list" =>
              \E p \in Codes : \E o \in Offers[p] : e = Record("list", p, o)
<1>1. CASE e \in Others
  <2>1. e \in {Info, Unknown, RequestTransfer, ObjectAdded}
    BY <1>1, OthersAssumption
  <2> QED
    BY <2>1 DEF Info, Unknown, RequestTransfer, ObjectAdded, Record
<1>2. CASE e \in {ValueEntry(p, d) : p \in Props, d \in Nat}
  BY <1>2 DEF ValueEntry, Record
<1>3. CASE e \in UNION {{Record("list", p, o) : o \in Offers[p]} : p \in Codes}
  <2>1. PICK p \in Codes : \E o \in Offers[p] : e = Record("list", p, o)
    BY <1>3
  <2> QED
    BY <2>1 DEF Record
<1> QED
  BY <1>1, <1>2, <1>3 DEF Entries

\* The entries before the terminator, with or without one.
LEMMA LengthIs ==
  ASSUME NEW q \in Seq(Entries)
  PROVE  /\ Length(q) = Len(q) /\ Length(Append(q, End)) = Len(q)
<1>1. Len(q) \in Nat /\ \A i \in 1..Len(q) : q[i] \in Entries /\ q[i].type # "end"
  BY EntriesAre
<1>2. Length(q) = Len(q)
  <2>1. {i \in 1..Len(q) : q[i].type = "end"} = {}
    BY <1>1
  <2> QED
    BY <2>1 DEF Length
<1>3. Length(Append(q, End)) = Len(q)
  <2> DEFINE a == Append(q, End)
  <2>1. /\ Len(a) = Len(q) + 1
        /\ \A i \in 1..Len(q) : a[i] = q[i]
        /\ a[Len(q) + 1] = End
    <3>1. q \in Seq(Entries \cup {End}) /\ End \in Entries \cup {End}
      BY SeqMonotonic
    <3> QED
      BY <3>1, AppendProperties
  <2> HIDE DEF a
  <2>2. a[Len(q) + 1].type = "end"
    BY <2>1 DEF End, Record
  <2>3. {i \in 1..Len(a) : a[i].type = "end"} = {Len(q) + 1}
    <3>1. \A i \in 1..Len(a) : i \in 1..Len(q) \/ i = Len(q) + 1
      BY <1>1, <2>1
    <3>2. Len(q) + 1 \in 1..Len(a)
      BY <1>1, <2>1
    <3> QED
      BY <1>1, <2>1, <2>2, <3>1, <3>2
  <2> DEFINE ends == {i \in 1..Len(a) : a[i].type = "end"}
  <2>4. ends # {} /\ (CHOOSE i \in ends : \A j \in ends : i <= j) = Len(q) + 1
    <3>1. \A j \in ends : Len(q) + 1 <= j
      BY <1>1, <2>3
    <3> QED
      BY <2>3, <3>1
  <2>5. Length(a) = (Len(q) + 1) - 1
    BY <2>4 DEF Length
  <2> QED
    BY <1>1, <2>5 DEF a
<1> QED
  BY <1>2, <1>3

LEMMA LengthOfNone == Length(<<>>) = 0
<1>1. <<>> \in Seq(Entries) /\ Len(<<>>) = 0
  OBVIOUS
<1> QED
  BY <1>1, LengthIs

-----------------------------------------------------------------------------
(* What the steps do with them.                                            *)

LEMMA QueueGrows ==
  ASSUME NEW q \in Seq(Entries), NEW e \in Entries, NEW s, NEW m, NEW n, NEW t, NEW p
  PROVE  /\ Concerns(e, t, p) => Ends(Append(q, e), s, m, n, t, p, e.data)
         /\ \A x : ~Concerns(e, t, p) /\ Ends(q, s, m, n, t, p, x)
                     => Ends(Append(q, e), s, m, n, t, p, x)
         /\ ~Concerns(e, t, p) /\ Nothing(q, s, m, n, t, p)
              => Nothing(Append(q, e), s, m, n, t, p)
<1> DEFINE r == Append(q, e)
<1>1. /\ Len(q) \in Nat /\ Len(r) = Len(q) + 1 /\ r[Len(q) + 1] = e
      /\ \A i \in 1..Len(q) : r[i] = q[i]
  BY AppendProperties
<1> HIDE DEF r
<1>2. /\ \A i \in 1..Len(r) : i \in 1..Len(q) \/ i = Len(q) + 1
      /\ \A i \in 1..Len(q) : i \in 1..Len(r)
      /\ Len(q) + 1 \in 1..Len(r)
      /\ \A i \in 1..Len(r) : ~(i > Len(q) + 1)
  BY <1>1
<1>3. ASSUME Concerns(e, t, p) PROVE LastSays(r, 1, Len(r), t, p, e.data)
  BY <1>1, <1>2, <1>3 DEF LastSays
<1>4. ASSUME ~Concerns(e, t, p), Silent(q, 1, Len(q), t, p) PROVE Silent(r, 1, Len(r), t, p)
  BY <1>1, <1>2, <1>4 DEF Silent
<1>5. ASSUME NEW x, ~Concerns(e, t, p), LastSays(q, 1, Len(q), t, p, x)
      PROVE  LastSays(r, 1, Len(r), t, p, x)
  <2>1. PICK i \in 1..Len(q) : /\ Concerns(q[i], t, p) /\ q[i].data = x
                               /\ \A j \in 1..Len(q) : j > i => ~Concerns(q[j], t, p)
    BY <1>5 DEF LastSays
  <2>2. i \in 1..Len(r) /\ Concerns(r[i], t, p) /\ r[i].data = x
    BY <1>1, <1>2, <2>1
  <2>3. \A j \in 1..Len(r) : j > i => ~Concerns(r[j], t, p)
    BY <1>1, <1>2, <1>5, <2>1
  <2> QED
    BY <2>2, <2>3 DEF LastSays
<1> QED
  BY <1>3, <1>4, <1>5 DEF Ends, Nothing, r

\* A poll takes what was collected.
LEMMA Polled ==
  ASSUME NEW q \in Seq(Entries), NEW s, NEW o, \A i \in 1..Len(q) : s[i] = q[i], NEW t, NEW p
  PROVE  /\ \A x : Ends(q, o, 1, 0, t, p, x) => Ends(<<>>, s, 1, Len(q), t, p, x)
         /\ Nothing(q, o, 1, 0, t, p) => Nothing(<<>>, s, 1, Len(q), t, p)
<1>1. /\ ~(\E i \in 1..0 : TRUE) /\ Silent(<<>>, 1, Len(<<>>), t, p)
  BY DEF Silent
<1>2. ASSUME NEW x, LastSays(q, 1, Len(q), t, p, x) PROVE LastSays(s, 1, Len(q), t, p, x)
  BY <1>2 DEF LastSays
<1>3. ASSUME Silent(q, 1, Len(q), t, p) PROVE Silent(s, 1, Len(q), t, p)
  BY <1>3 DEF Silent
<1>4. \A x : ~LastSays(o, 1, 0, t, p, x)
  BY <1>1 DEF LastSays
<1> QED
  BY <1>1, <1>2, <1>3, <1>4 DEF Ends, Nothing

\* An entry is unpacked.
LEMMA OneLess ==
  ASSUME NEW s, NEW k \in Nat, NEW n \in Nat, k <= n, NEW q, NEW t, NEW p
  PROVE  /\ \A x : Ends(q, s, k, n, t, p, x) =>
              \/ Ends(q, s, k + 1, n, t, p, x)
              \/ /\ Nothing(q, s, k + 1, n, t, p)
                 /\ Concerns(s[k], t, p) /\ s[k].data = x
         /\ Nothing(q, s, k, n, t, p) =>
              Nothing(q, s, k + 1, n, t, p) /\ ~Concerns(s[k], t, p)
<1>1. /\ \A i \in k..n : i = k \/ i \in (k + 1)..n
      /\ \A i \in (k + 1)..n : i \in k..n /\ i > k
      /\ k \in k..n
  OBVIOUS
<1>2. ASSUME NEW x, LastSays(s, k, n, t, p, x)
      PROVE  \/ LastSays(s, k + 1, n, t, p, x)
             \/ Silent(s, k + 1, n, t, p) /\ Concerns(s[k], t, p) /\ s[k].data = x
  <2>1. PICK i \in k..n : /\ Concerns(s[i], t, p) /\ s[i].data = x
                          /\ \A j \in k..n : j > i => ~Concerns(s[j], t, p)
    BY <1>2 DEF LastSays
  <2>2. CASE i = k
    BY <1>1, <2>1, <2>2 DEF Silent
  <2>3. CASE i \in (k + 1)..n
    BY <1>1, <2>1, <2>3 DEF LastSays
  <2> QED
    BY <1>1, <2>2, <2>3
<1>3. ASSUME Silent(s, k, n, t, p) PROVE Silent(s, k + 1, n, t, p) /\ ~Concerns(s[k], t, p)
  BY <1>1, <1>3 DEF Silent
<1> QED
  BY <1>2, <1>3 DEF Ends, Nothing

\* All of an answer is used.
LEMMA AllUsed ==
  ASSUME NEW q, NEW s, NEW m, NEW n, NEW t, NEW p
  PROVE  /\ \A x : Ends(q, s, m, n, t, p, x) =>
              \/ Ends(q, <<>>, 1, 0, t, p, x)
              \/ Nothing(q, <<>>, 1, 0, t, p) /\ LastSays(s, m, n, t, p, x)
         /\ Nothing(q, s, m, n, t, p) =>
              Nothing(q, <<>>, 1, 0, t, p) /\ Silent(s, m, n, t, p)
<1>1. Silent(<<>>, 1, 0, t, p)
  BY DEF Silent
<1> QED
  BY <1>1 DEF Ends, Nothing

-----------------------------------------------------------------------------
(* The lines of the array.                                                 *)

\* A line with the key of a property is of a value of it, and says what the
\* front end has to show for it.
LEMMA LineIs ==
  ASSUME NEW e \in Entries, NEW p \in Props
  PROVE  /\ ~Skipped(Unpack(e)) /\ Item(Unpack(e)).key = p <=> Concerns(e, "value", p)
         /\ Concerns(e, "value", p) => Item(Unpack(e)).text = Shows(p, e.data[1])
<1>1. p # Blank /\ p \notin OtherKeys
  BY ReadingsAssumption, NamesAssumption
<1>2. NoName \notin Named /\ \A k \in OtherKeys : k # NoName
  BY DEF NoName, Named, OtherKeys
<1>3. CASE e \in Others
  <2>1. e \in {Info, Unknown, RequestTransfer, ObjectAdded}
    BY <1>3, OthersAssumption
  <2>2. ~Concerns(e, "value", p)
    BY <2>1 DEF Concerns, Info, Unknown, RequestTransfer, ObjectAdded, Record
  <2>3. CASE e = Unknown
    <3>1. Skipped(Unpack(e))
      BY <2>3 DEF Unknown, Record, Unpack, Event, Skipped
    <3> QED
      BY <2>2, <3>1
  <2>4. CASE e # Unknown
    <3>1. Unpack(e).name \in OtherKeys
      BY <2>1, <2>4 DEF Info, RequestTransfer, ObjectAdded, Record, Unpack, Event, OtherKeys
    <3>2. Item(Unpack(e)).key \in OtherKeys
      BY <1>2, <3>1 DEF Item
    <3> QED
      BY <1>1, <2>2, <3>2
  <2> QED
    BY <2>3, <2>4
<1>4. CASE e \in {ValueEntry(q, d) : q \in Props, d \in Nat}
  <2>1. PICK q \in Props, d \in Nat : e = ValueEntry(q, d)
    BY <1>4
  <2>2. e.type = "value" /\ e.code = q /\ e.data = <<d>> /\ e.data # <<>> /\ e.data[1] = d
    BY <2>1 DEF ValueEntry, Record
  <2>3. Unpack(e) = Event(IF q \in Named THEN q ELSE NoName, q, Reading(q, d)[1], Reading(q, d)[2])
    BY <2>2 DEF Unpack
  <2>4. ~Skipped(Unpack(e))
    BY <2>3, ReadingsAssumption DEF Event, Skipped
  <2>5. Item(Unpack(e)).key = q
    BY <1>2, <2>3 DEF Event, Item
  <2>6. Item(Unpack(e)).text = Shows(q, d)
    BY <2>3 DEF Event, Item, Shows
  <2> QED
    BY <2>2, <2>4, <2>5, <2>6 DEF Concerns
<1>5. CASE e \in UNION {{Record("list", q, o) : o \in Offers[q]} : q \in Codes}
  <2>1. e.type = "list"
    BY <1>5 DEF Record
  <2>3. Skipped(Unpack(e))
    <3>1. Unpack(e).name = NoName /\ Unpack(e).code = Blank
      BY <2>1 DEF Unpack, Event
    <3> QED
      BY <3>1 DEF Skipped
  <2>4. ~Concerns(e, "value", p)
    BY <2>1 DEF Concerns
  <2> QED
    BY <2>3, <2>4
<1> QED
  BY <1>3, <1>4, <1>5 DEF Entries

\* What the front end shows after the array of an answer of n entries.
LEMMA LinesAre ==
  ASSUME NEW n \in Nat, NEW s, \A i \in 1..n : s[i] \in Entries,
         NEW evs, Len(evs) = n, \A i \in 1..n : evs[i] = Unpack(s[i]), NEW p \in Props
  PROVE  /\ Silent(s, 1, n, "value", p) => Lines(Json(evs), p) = {}
         /\ \A d : LastSays(s, 1, n, "value", p, <<d>>) =>
              /\ Lines(Json(evs), p) # {}
              /\ LastText(Json(evs), p) = Shows(p, d)
<1> DEFINE js == Json(evs)
<1>1. /\ DOMAIN js = {i \in 1..n : ~Skipped(evs[i])}
      /\ \A i \in DOMAIN js : js[i].item = Item(evs[i])
  BY DEF Json
<1> HIDE DEF js
<1>2. Lines(js, p) = {i \in 1..n : Concerns(s[i], "value", p)}
  <2>1. \A i \in 1..n : ~Skipped(evs[i]) /\ Item(evs[i]).key = p <=> Concerns(s[i], "value", p)
    BY LineIs
  <2> QED
    BY <1>1, <2>1 DEF Lines
<1>3. ASSUME Silent(s, 1, n, "value", p) PROVE Lines(js, p) = {}
  BY <1>2, <1>3 DEF Silent
<1>4. ASSUME NEW d, LastSays(s, 1, n, "value", p, <<d>>)
      PROVE  Lines(js, p) # {} /\ LastText(js, p) = Shows(p, d)
  <2>1. PICK i \in 1..n : /\ Concerns(s[i], "value", p) /\ s[i].data = <<d>>
                          /\ \A j \in 1..n : j > i => ~Concerns(s[j], "value", p)
    BY <1>4 DEF LastSays
  <2>2. i \in Lines(js, p) /\ \A j \in Lines(js, p) : j <= i
    BY <1>2, <2>1
  <2>3. (CHOOSE k \in Lines(js, p) : \A j \in Lines(js, p) : j <= k) = i
    <3>1. \A k \in Lines(js, p) : k \in Nat
      BY <1>2
    <3>2. \A k \in Lines(js, p) : (\A j \in Lines(js, p) : j <= k) => k = i
      BY <2>2, <3>1
    <3> QED
      BY <2>2, <3>2
  <2>4. LastText(js, p) = js[i].item.text
    BY <2>3 DEF LastText
  <2>5. js[i].item = Item(Unpack(s[i]))
    BY <1>1, <2>2 DEF Lines
  <2>6. Item(Unpack(s[i])).text = Shows(p, d)
    <3>1. s[i].data[1] = d /\ s[i] \in Entries
      BY <2>1
    <3>2. Item(Unpack(s[i])).text = Shows(p, s[i].data[1])
      BY <2>1, <3>1, LineIs
    <3> QED
      BY <3>1, <3>2
  <2> QED
    BY <2>2, <2>4, <2>5, <2>6
<1> QED
  BY <1>3, <1>4 DEF js

-----------------------------------------------------------------------------
(* The steps.                                                              *)

LEMMA InitEInv == EosInit => EInv
<1> SUFFICES ASSUME EosInit PROVE EInv
  OBVIOUS
<1> USE DEF EosInit
<1>1. Kinds
  <2>1. camera \in [Props -> Nat]
    <3>1. camera \in [Props -> UNION {Readings[p] : p \in Props}]
      OBVIOUS
    <3>2. \A p \in Props : camera[p] \in Nat
      BY ReadingsAssumption
    <3> QED
      BY <3>1, <3>2
  <2>2. wish \in [Props -> SUBSET UNION {Wishes[p] : p \in DOMAIN Wishes}]
    OBVIOUS
  <2>3. offer \in [Codes -> Seq(Values)] /\ latest \in [Codes -> Seq(Values)]
    BY DEF Init
  <2> QED
    BY <2>1, <2>2, <2>3 DEF Kinds
<1>2. Unpacking
  BY LengthOfNone DEF Unpacking
<1>3. \A t, p : Nothing(<<>>, <<>>, 1, 0, t, p)
  BY DEF Nothing, Silent
<1>4. ValuesCome
  BY <1>3, LengthOfNone DEF ValuesCome
<1>5. ListsCome
  <2>1. Len(events) + 1 = 1
    OBVIOUS
  <2>2. \A p \in Codes : latest[p] = offer[p]
    BY DEF Init
  <2> QED
    BY <1>3, <2>1, <2>2, LengthOfNone DEF ListsCome
<1>6. Wished
  BY DEF Wished
<1> QED
  BY <1>1, <1>2, <1>4, <1>5, <1>6 DEF EInv

\* Something is collected: a value of c[1], a list, or neither.
LEMMA CollectKeeps ==
  ASSUME EInv, NEW e \in Entries, queue' = Append(queue, e), UNCHANGED clientVars,
         latest' = latest, Kinds', Wished',
         \A p \in Props : IF Concerns(e, "value", p) THEN e.data = <<camera'[p]>>
                                                     ELSE camera'[p] = camera[p],
         \A p \in Codes : IF Concerns(e, "list", p) THEN e.data = offer'[p]
                                                    ELSE offer'[p] = offer[p]
  PROVE  EInv'
<1>1. /\ queue \in Seq(Entries)
      /\ UNCHANGED <<payload, events, shown, pc>>
  BY DEF EInv, Unpacking, clientVars
<1>2. queue' \in Seq(Entries)
  BY <1>1, AppendProperties
<1>3. Unpacking'
  BY <1>1, <1>2 DEF EInv, Unpacking
<1>4. ValuesCome'
  <2> SUFFICES ASSUME NEW p \in Props
               PROVE  \/ Ends(queue', payload, 1, Length(payload), "value", p, <<camera'[p]>>)
                      \/ /\ Nothing(queue', payload, 1, Length(payload), "value", p)
                         /\ shown[p] = Shows(p, camera'[p])
    BY <1>1 DEF ValuesCome
  <2>1. CASE Concerns(e, "value", p)
    BY <1>1, <2>1, QueueGrows
  <2>2. CASE ~Concerns(e, "value", p)
    <3>1. camera'[p] = camera[p]
      BY <2>2
    <3>2. \/ Ends(queue, payload, 1, Length(payload), "value", p, <<camera[p]>>)
          \/ /\ Nothing(queue, payload, 1, Length(payload), "value", p)
             /\ shown[p] = Shows(p, camera[p])
      BY DEF EInv, ValuesCome
    <3> QED
      BY <1>1, <2>2, <3>1, <3>2, QueueGrows
  <2> QED
    BY <2>1, <2>2
<1>5. ListsCome'
  <2> SUFFICES ASSUME NEW p \in Codes
               PROVE  \/ Ends(queue', payload, Len(events) + 1, Length(payload), "list", p, offer'[p])
                      \/ /\ Nothing(queue', payload, Len(events) + 1, Length(payload), "list", p)
                         /\ latest[p] = offer'[p]
    BY <1>1 DEF ListsCome
  <2>1. CASE Concerns(e, "list", p)
    BY <1>1, <2>1, QueueGrows
  <2>2. CASE ~Concerns(e, "list", p)
    <3>1. offer'[p] = offer[p]
      BY <2>2
    <3>2. \/ Ends(queue, payload, Len(events) + 1, Length(payload), "list", p, offer[p])
          \/ /\ Nothing(queue, payload, Len(events) + 1, Length(payload), "list", p)
             /\ latest[p] = offer[p]
      BY DEF EInv, ListsCome
    <3> QED
      BY <1>1, <2>2, <3>1, <3>2, QueueGrows
  <2> QED
    BY <2>1, <2>2
<1> QED
  BY <1>3, <1>4, <1>5 DEF EInv

\* A property takes a value: its entry is collected.
LEMMA TakeKeeps ==
  ASSUME EInv, NEW p \in Props, NEW d \in Nat, camera' = [camera EXCEPT ![p] = d],
         queue' = Append(queue, ValueEntry(p, d)), UNCHANGED <<clientVars, latest, offer>>,
         NEW w \in SUBSET UNION {Wishes[q] : q \in DOMAIN Wishes},
         \A v \in w : p \in DOMAIN Wishes /\ v \in Wishes[p] /\ d = Data(p, v),
         wish' = [wish EXCEPT ![p] = w]
  PROVE  EInv'
<1>1. Kinds /\ Wished
  BY DEF EInv
<1>2. ValueEntry(p, d) \in Entries
  BY DEF Entries
<1>3. /\ camera'[p] = d /\ \A q \in Props : q # p => camera'[q] = camera[q]
      /\ wish'[p] = w /\ \A q \in Props : q # p => wish'[q] = wish[q]
  BY <1>1 DEF Kinds
<1>4. Kinds'
  BY <1>1 DEF Kinds
<1>5. Wished'
  BY <1>1, <1>3 DEF Wished
<1>6. \A q \in Props : IF Concerns(ValueEntry(p, d), "value", q)
                         THEN ValueEntry(p, d).data = <<camera'[q]>>
                         ELSE camera'[q] = camera[q]
  BY <1>3 DEF Concerns, ValueEntry, Record
<1>7. \A q \in Codes : ~Concerns(ValueEntry(p, d), "list", q)
  BY DEF Concerns, ValueEntry, Record
<1> QED
  BY <1>2, <1>4, <1>5, <1>6, <1>7, CollectKeeps

LEMMA TurnKeeps == ASSUME EInv, NEW p \in Props, NEW d \in Readings[p], Turn(p, d) PROVE EInv'
<1>1. d \in Nat
  BY ReadingsAssumption
<1>2. /\ camera' = [camera EXCEPT ![p] = d] /\ queue' = Append(queue, ValueEntry(p, d))
      /\ wish' = [wish EXCEPT ![p] = {}] /\ UNCHANGED <<clientVars, latest, offer>>
  BY DEF Turn, Collect, availVars
<1>3. {} \in SUBSET UNION {Wishes[q] : q \in DOMAIN Wishes}
      /\ \A v \in {} : p \in DOMAIN Wishes /\ v \in Wishes[p] /\ d = Data(p, v)
  OBVIOUS
<1> QED
  BY <1>1, <1>2, <1>3, TakeKeeps

LEMMA OfferKeeps == ASSUME EInv, NEW p \in Codes, NEW o \in Offers[p], Offer(p, o) PROVE EInv'
<1>1. /\ queue' = Append(queue, Record("list", p, o))
      /\ offer' = [offer EXCEPT ![p] = IF o = <<>> THEN @ ELSE o]
      /\ UNCHANGED <<camera, wish, clientVars, latest>>
  BY DEF Offer, Collect, availVars
<1>2. Record("list", p, o) \in Entries
  BY DEF Entries
<1>3. Kinds /\ Wished
  BY DEF EInv
<1>4. o = <<>> \/ o \in Seq(Values)
  BY OffersAssumption, ListsAreLists
<1>5. Kinds'
  BY <1>1, <1>3, <1>4 DEF Kinds
<1>6. Wished'
  BY <1>1, <1>3 DEF Wished
<1>7. \A q \in Codes : IF Concerns(Record("list", p, o), "list", q)
                         THEN Record("list", p, o).data = offer'[q]
                         ELSE offer'[q] = offer[q]
  <2>1. /\ offer'[p] = IF o = <<>> THEN offer[p] ELSE o
        /\ \A q \in Codes : q # p => offer'[q] = offer[q]
    BY <1>1, <1>3 DEF Kinds
  <2> QED
    BY <2>1 DEF Concerns, Record
<1>8. \A q \in Props : ~Concerns(Record("list", p, o), "value", q)
  BY DEF Concerns, Record
<1> QED
  BY <1>1, <1>2, <1>5, <1>6, <1>7, <1>8, CollectKeeps

LEMMA HappenKeeps == ASSUME EInv, NEW e \in Others, Happen(e) PROVE EInv'
<1>1. /\ queue' = Append(queue, e)
      /\ UNCHANGED <<camera, offer, wish, clientVars, latest>>
  BY DEF Happen, Collect, availVars
<1>2. e \in Entries
  BY DEF Entries
<1>3. Kinds' /\ Wished'
  BY <1>1 DEF EInv, Kinds, Wished
<1>4. \A p : ~Concerns(e, "value", p) /\ ~Concerns(e, "list", p)
  BY OthersAssumption DEF Concerns, Info, Unknown, RequestTransfer, ObjectAdded, Record
<1> QED
  BY <1>1, <1>2, <1>3, <1>4, CollectKeeps

LEMMA GetEventKeeps == ASSUME EInv, GetEvent PROVE EInv'
<1>1. /\ pc = "idle" /\ payload' \in {queue, Append(queue, End)} /\ queue' = <<>>
      /\ events' = <<>> /\ pc' = "unpack"
      /\ UNCHANGED <<camera, offer, shown, wish, latest>>
  BY DEF GetEvent, availVars
<1>2. /\ queue \in Seq(Entries) /\ payload = <<>> /\ events = <<>>
      /\ Len(queue) \in Nat /\ \A i \in 1..Len(queue) : queue[i] \in Entries
  BY <1>1 DEF EInv, Unpacking
<1>3. Length(payload') = Len(queue)
  BY <1>1, <1>2, LengthIs
<1>4. /\ payload' \in Seq(Entries \cup {End})
      /\ \A i \in 1..Len(queue) : payload'[i] = queue[i]
  <2>1. queue \in Seq(Entries \cup {End}) /\ End \in Entries \cup {End}
    BY <1>2, SeqMonotonic
  <2>2. /\ Append(queue, End) \in Seq(Entries \cup {End})
        /\ \A i \in 1..Len(queue) : Append(queue, End)[i] = queue[i]
    BY <2>1, AppendProperties
  <2> QED
    BY <1>1, <2>1, <2>2
<1>5. Unpacking'
  <2>1. events' \in Seq({Unpack(e) : e \in Entries}) /\ Len(events') = 0
    BY <1>1
  <2> QED
    BY <1>1, <1>2, <1>3, <1>4, <2>1 DEF Unpacking
<1>6. Length(payload) = 0 /\ Len(events) + 1 = 1 /\ Len(events') + 1 = 1
  BY <1>1, <1>2, LengthOfNone
<1>7. ValuesCome'
  <2> SUFFICES ASSUME NEW p \in Props
               PROVE  \/ Ends(<<>>, payload', 1, Len(queue), "value", p, <<camera[p]>>)
                      \/ /\ Nothing(<<>>, payload', 1, Len(queue), "value", p)
                         /\ shown[p] = Shows(p, camera[p])
    BY <1>1, <1>3 DEF ValuesCome
  <2>1. \/ Ends(queue, payload, 1, 0, "value", p, <<camera[p]>>)
        \/ /\ Nothing(queue, payload, 1, 0, "value", p)
           /\ shown[p] = Shows(p, camera[p])
    BY <1>6 DEF EInv, ValuesCome
  <2> QED
    BY <1>2, <1>4, <2>1, Polled
<1>8. ListsCome'
  <2> SUFFICES ASSUME NEW p \in Codes
               PROVE  \/ Ends(<<>>, payload', 1, Len(queue), "list", p, offer[p])
                      \/ /\ Nothing(<<>>, payload', 1, Len(queue), "list", p)
                         /\ latest[p] = offer[p]
    BY <1>1, <1>3, <1>6 DEF ListsCome
  <2>1. \/ Ends(queue, payload, 1, 0, "list", p, offer[p])
        \/ /\ Nothing(queue, payload, 1, 0, "list", p)
           /\ latest[p] = offer[p]
    BY <1>6 DEF EInv, ListsCome
  <2> QED
    BY <1>2, <1>4, <2>1, Polled
<1>9. Kinds' /\ Wished'
  BY <1>1 DEF EInv, Kinds, Wished
<1> QED
  BY <1>5, <1>7, <1>8, <1>9 DEF EInv

\* What unpacking an entry does to what r->avail has seen.
LEMMA UnpackListIs ==
  ASSUME Kinds, NEW e \in Entries, UnpackList(e)
  PROVE  /\ \A p \in Codes : latest'[p] = IF Concerns(e, "list", p) THEN e.data ELSE latest[p]
         /\ latest' \in [Codes -> Seq(Values)]
         /\ \/ UNCHANGED availVars
            \/ \E p \in Codes : \E m \in Sizes[p], o \in Lists(p) : SetPropAvailInfo(p, m, o)
<1>1. CASE e.type = "list" /\ e.data # <<>>
  <2>1. PICK p \in Codes : \E o \in Offers[p] : e = Record("list", p, o)
    BY <1>1, EntriesAre
  <2>2. PICK o \in Offers[p] : e = Record("list", p, o)
    BY <2>1
  <2>3. e.code = p /\ e.data = o /\ o # <<>>
    BY <1>1, <2>2 DEF Record
  <2>4. o \in Lists(p) /\ o \in Seq(Values)
    BY <2>3, OffersAssumption, ListsAreLists
  <2>5. PICK m \in Sizes[p] : SetPropAvailInfo(p, m, o)
    BY <1>1, <2>3 DEF UnpackList
  <2>6. latest' = [latest EXCEPT ![p] = o]
    BY <2>5 DEF SetPropAvailInfo
  <2>7. latest' \in [Codes -> Seq(Values)]
    BY <2>4, <2>6 DEF Kinds
  <2>8. \A q \in Codes : latest'[q] = IF q = p THEN o ELSE latest[q]
    BY <2>6 DEF Kinds
  <2>9. \A q \in Codes : Concerns(e, "list", q) <=> q = p
    BY <1>1, <2>3 DEF Concerns
  <2> QED
    BY <2>3, <2>4, <2>5, <2>7, <2>8, <2>9
<1>2. CASE ~(e.type = "list" /\ e.data # <<>>)
  <2>1. UNCHANGED availVars
    BY <1>2 DEF UnpackList
  <2>2. latest' = latest
    BY <2>1 DEF availVars
  <2>3. \A p \in Codes : ~Concerns(e, "list", p)
    BY <1>2 DEF Concerns
  <2> QED
    BY <2>1, <2>2, <2>3 DEF Kinds
<1> QED
  BY <1>1, <1>2

LEMMA UnpackEntryKeeps == ASSUME EInv, UnpackEntry PROVE EInv'
<1> DEFINE k == Len(events) + 1
<1>1. /\ pc = "unpack" /\ Len(events) < Length(payload) /\ UnpackList(payload[k])
      /\ events' = Append(events, Unpack(payload[k]))
      /\ UNCHANGED <<camera, offer, queue, payload, shown, wish, pc>>
  BY DEF UnpackEntry
<1>2. /\ Kinds /\ Unpacking
      /\ Length(payload) \in Nat /\ Len(events) \in Nat
      /\ events \in Seq({Unpack(e) : e \in Entries})
      /\ \A i \in 1..Len(events) : events[i] = Unpack(payload[i])
      /\ \A i \in 1..Length(payload) : payload[i] \in Entries
  BY DEF EInv, Unpacking
<1>3. k \in 1..Length(payload) /\ k \in Nat /\ k <= Length(payload) /\ payload[k] \in Entries
  BY <1>1, <1>2
<1>4. /\ events' \in Seq({Unpack(e) : e \in Entries}) /\ Len(events') = k
      /\ \A i \in 1..k : events'[i] = Unpack(payload[i])
  <2>1. Unpack(payload[k]) \in {Unpack(e) : e \in Entries}
    BY <1>3
  <2>2. /\ events' \in Seq({Unpack(e) : e \in Entries}) /\ Len(events') = k
        /\ \A i \in 1..Len(events) : events'[i] = events[i]
        /\ events'[k] = Unpack(payload[k])
    BY <1>1, <1>2, <2>1, AppendProperties
  <2>3. \A i \in 1..k : i \in 1..Len(events) \/ i = k
    BY <1>2
  <2> QED
    BY <1>2, <2>2, <2>3
<1>5. /\ \A p \in Codes : latest'[p] = IF Concerns(payload[k], "list", p)
                                         THEN payload[k].data ELSE latest[p]
      /\ latest' \in [Codes -> Seq(Values)]
  BY <1>1, <1>2, <1>3, UnpackListIs
<1>6. Kinds'
  BY <1>1, <1>2, <1>5 DEF Kinds
<1>7. Unpacking'
  <2>1. Length(payload)' = Length(payload) /\ pc' = "unpack"
    BY <1>1
  <2> QED
    BY <1>1, <1>2, <1>3, <1>4, <2>1 DEF Unpacking
<1>8. ValuesCome' /\ Wished'
  BY <1>1 DEF EInv, ValuesCome, Wished
<1>9. ListsCome'
  <2> SUFFICES ASSUME NEW p \in Codes
               PROVE  \/ Ends(queue, payload, k + 1, Length(payload), "list", p, offer[p])
                      \/ /\ Nothing(queue, payload, k + 1, Length(payload), "list", p)
                         /\ latest'[p] = offer[p]
    BY <1>1, <1>4 DEF ListsCome
  <2>1. \/ Ends(queue, payload, k, Length(payload), "list", p, offer[p])
        \/ /\ Nothing(queue, payload, k, Length(payload), "list", p)
           /\ latest[p] = offer[p]
    BY DEF EInv, ListsCome
  <2>2. latest'[p] = IF Concerns(payload[k], "list", p) THEN payload[k].data ELSE latest[p]
    BY <1>5
  <2> HIDE DEF k
  <2>3. CASE Ends(queue, payload, k, Length(payload), "list", p, offer[p])
    <3>1. \/ Ends(queue, payload, k + 1, Length(payload), "list", p, offer[p])
          \/ /\ Nothing(queue, payload, k + 1, Length(payload), "list", p)
             /\ Concerns(payload[k], "list", p) /\ payload[k].data = offer[p]
      BY <1>2, <1>3, <2>3, OneLess
    <3> QED
      BY <2>2, <3>1
  <2>4. CASE Nothing(queue, payload, k, Length(payload), "list", p) /\ latest[p] = offer[p]
    <3>1. /\ Nothing(queue, payload, k + 1, Length(payload), "list", p)
          /\ ~Concerns(payload[k], "list", p)
      BY <1>2, <1>3, <2>4, OneLess
    <3> QED
      BY <2>2, <2>4, <3>1
  <2> QED
    BY <2>1, <2>3, <2>4
<1> QED
  BY <1>6, <1>7, <1>8, <1>9 DEF EInv

LEMMA EventsJsonKeeps == ASSUME EInv, EventsJson PROVE EInv'
<1>1. /\ pc = "unpack" /\ Len(events) = Length(payload)
      /\ shown' = [p \in Props |-> IF Lines(Json(events), p) = {} THEN shown[p]
                                   ELSE LastText(Json(events), p)]
      /\ pc' = "idle" /\ payload' = <<>> /\ events' = <<>>
      /\ UNCHANGED <<camera, offer, queue, wish, latest>>
  BY DEF EventsJson, availVars
<1> DEFINE n == Length(payload)
<1>2. /\ queue \in Seq(Entries) /\ n \in Nat /\ Len(events) = n
      /\ \A i \in 1..n : payload[i] \in Entries
      /\ \A i \in 1..n : events[i] = Unpack(payload[i])
  BY <1>1 DEF EInv, Unpacking
<1>3. Length(payload') = 0 /\ Len(events') + 1 = 1
  BY <1>1, LengthOfNone
<1>4. Unpacking'
  <2>1. /\ payload' \in Seq(Entries \cup {End}) /\ events' \in Seq({Unpack(e) : e \in Entries})
        /\ Len(events') = 0 /\ \A i \in 1..0 : FALSE
    BY <1>1
  <2> QED
    BY <1>1, <1>2, <1>3, <2>1 DEF Unpacking
<1>5. ValuesCome'
  <2> SUFFICES ASSUME NEW p \in Props
               PROVE  \/ Ends(queue, <<>>, 1, 0, "value", p, <<camera[p]>>)
                      \/ /\ Nothing(queue, <<>>, 1, 0, "value", p)
                         /\ shown'[p] = Shows(p, camera[p])
    <3>1. payload' = <<>> /\ queue' = queue /\ camera' = camera
      BY <1>1
    <3> QED
      BY <1>3, <3>1 DEF ValuesCome
  <2>1. shown'[p] = IF Lines(Json(events), p) = {} THEN shown[p] ELSE LastText(Json(events), p)
    BY <1>1
  <2>2. \/ Ends(queue, payload, 1, n, "value", p, <<camera[p]>>)
        \/ /\ Nothing(queue, payload, 1, n, "value", p)
           /\ shown[p] = Shows(p, camera[p])
    BY DEF EInv, ValuesCome
  <2> HIDE DEF n
  <2>3. /\ Silent(payload, 1, n, "value", p) => Lines(Json(events), p) = {}
        /\ \A d : LastSays(payload, 1, n, "value", p, <<d>>) =>
             /\ Lines(Json(events), p) # {}
             /\ LastText(Json(events), p) = Shows(p, d)
    BY <1>2, LinesAre
  <2>4. /\ \A x : Ends(queue, payload, 1, n, "value", p, x) =>
              \/ Ends(queue, <<>>, 1, 0, "value", p, x)
              \/ Nothing(queue, <<>>, 1, 0, "value", p) /\ LastSays(payload, 1, n, "value", p, x)
        /\ Nothing(queue, payload, 1, n, "value", p) =>
              Nothing(queue, <<>>, 1, 0, "value", p) /\ Silent(payload, 1, n, "value", p)
    BY AllUsed
  <2>5. CASE Ends(queue, payload, 1, n, "value", p, <<camera[p]>>)
    BY <2>1, <2>3, <2>4, <2>5
  <2>6. CASE Nothing(queue, payload, 1, n, "value", p) /\ shown[p] = Shows(p, camera[p])
    BY <2>1, <2>3, <2>4, <2>6
  <2> QED
    BY <2>2, <2>5, <2>6
<1>6. ListsCome'
  <2> SUFFICES ASSUME NEW p \in Codes
               PROVE  \/ Ends(queue, <<>>, 1, 0, "list", p, offer[p])
                      \/ /\ Nothing(queue, <<>>, 1, 0, "list", p)
                         /\ latest[p] = offer[p]
    <3>1. payload' = <<>> /\ queue' = queue /\ offer' = offer /\ latest' = latest
      BY <1>1
    <3> QED
      BY <1>3, <3>1 DEF ListsCome
  <2>1. \/ Ends(queue, payload, n + 1, n, "list", p, offer[p])
        \/ /\ Nothing(queue, payload, n + 1, n, "list", p)
           /\ latest[p] = offer[p]
    BY <1>1 DEF EInv, ListsCome
  <2> HIDE DEF n
  <2>2. \A x : ~LastSays(payload, n + 1, n, "list", p, x)
    BY <1>2 DEF LastSays
  <2> QED
    BY <2>1, <2>2, AllUsed
<1>7. Kinds' /\ Wished'
  BY <1>1 DEF EInv, Kinds, Wished
<1> QED
  BY <1>4, <1>5, <1>6, <1>7 DEF EInv

LEMMA StandsStill ==
  ASSUME EInv, UNCHANGED <<camera, queue, wish, offer, clientVars, latest>>
  PROVE  EInv'
<1>1. UNCHANGED <<payload, events, shown, pc>>
  BY DEF clientVars
<1> QED
  BY <1>1 DEF EInv, Kinds, Unpacking, ValuesCome, ListsCome, Wished

LEMMA SetGenericKeeps ==
  ASSUME EInv, NEW p \in DOMAIN Wishes, NEW v \in Wishes[p], SetGenericProperty(p, v)
  PROVE  EInv'
<1> DEFINE d == Data(p, v)
<1>1. p \in Props /\ d \in Nat
  BY WishesAssumption, ReadingsAssumption
<1>2. /\ UNCHANGED <<offer, clientVars, latest>>
      /\ \/ UNCHANGED <<camera, queue, wish>>
         \/ Take(p, d) /\ wish' = [wish EXCEPT ![p] = {v}]
  BY DEF SetGenericProperty, SetValidateProp
<1> HIDE DEF d
<1>3. CASE UNCHANGED <<camera, queue, wish>>
  BY <1>2, <1>3, StandsStill
<1>4. CASE Take(p, d) /\ wish' = [wish EXCEPT ![p] = {v}]
  <2>1. camera' = [camera EXCEPT ![p] = d] /\ queue' = Append(queue, ValueEntry(p, d))
    BY <1>4 DEF Take, Collect
  <2>2. PICK w : w = {v}
    OBVIOUS
  <2>3. /\ w \in SUBSET UNION {Wishes[q] : q \in DOMAIN Wishes}
        /\ \A u \in w : p \in DOMAIN Wishes /\ u \in Wishes[p] /\ d = Data(p, u)
    BY <2>2 DEF d
  <2>4. wish' = [wish EXCEPT ![p] = w] /\ UNCHANGED <<clientVars, latest, offer>>
    BY <1>2, <1>4, <2>2
  <2> QED
    BY <1>1, <2>1, <2>3, <2>4, TakeKeeps
<1> QED
  BY <1>2, <1>3, <1>4

LEMMA SetPropKeeps ==
  ASSUME EInv, NEW p \in Props, NEW d \in Readings[p], SetPropValue(p, d)
  PROVE  EInv'
<1>1. d \in Nat
  BY ReadingsAssumption
<1>2. /\ camera' = [camera EXCEPT ![p] = d] /\ queue' = Append(queue, ValueEntry(p, d))
      /\ wish' = [wish EXCEPT ![p] = {}] /\ UNCHANGED <<clientVars, latest, offer>>
  BY DEF SetPropValue, Take, Collect, availVars
<1>3. {} \in SUBSET UNION {Wishes[q] : q \in DOMAIN Wishes}
      /\ \A v \in {} : p \in DOMAIN Wishes /\ v \in Wishes[p] /\ d = Data(p, v)
  OBVIOUS
<1> QED
  BY <1>1, <1>2, <1>3, TakeKeeps

LEMMA NextEInv == EInv /\ [EosNext]_eosVars => EInv'
<1> SUFFICES ASSUME EInv, [EosNext]_eosVars PROVE EInv'
  OBVIOUS
<1>1. CASE Camera
  BY <1>1, TurnKeeps, OfferKeeps, HappenKeeps DEF Camera
<1>2. CASE Client
  BY <1>2, GetEventKeeps, UnpackEntryKeeps, EventsJsonKeeps, SetGenericKeeps, SetPropKeeps
     DEF Client
<1>3. CASE UNCHANGED eosVars
  BY <1>3, StandsStill DEF eosVars, availVars
<1> QED
  BY <1>1, <1>2, <1>3 DEF EosNext

LEMMA EInvAlways == EosSpec => []EInv
  BY InitEInv, NextEInv, PTL DEF EosSpec

-----------------------------------------------------------------------------
(* The theorems about the front end.                                       *)

\* A front end that has polled everything shows what the camera is set to: no
\* entry is lost, taken twice or applied out of order by ptp_eos_events_length,
\* ptp_eos_events and ptp_eos_events_json, for any entries between them.
THEOREM FrontEndCatchesUp == EosSpec => []ShownIsCamera
<1>1. EInv => ShownIsCamera
  <2> SUFFICES ASSUME EInv, AtRest, NEW p \in Props PROVE shown[p] = Shows(p, camera[p])
    BY DEF ShownIsCamera
  <2>1. queue = <<>> /\ payload = <<>> /\ Length(payload) = 0
    BY LengthOfNone DEF EInv, Unpacking, AtRest
  <2>2. \A x : ~Ends(queue, payload, 1, 0, "value", p, x)
    BY <2>1 DEF Ends, LastSays
  <2> QED
    BY <2>1, <2>2 DEF EInv, ValuesCome
<1> QED
  BY <1>1, EInvAlways, PTL

\* At rest r->avail has seen the last list of every property that was not empty.
THEOREM OffersAreKnown == EosSpec => []OffersKnown
<1>1. EInv => OffersKnown
  <2> SUFFICES ASSUME EInv, AtRest PROVE latest = offer
    BY DEF OffersKnown
  <2>1. queue = <<>> /\ payload = <<>> /\ Length(payload) = 0 /\ Len(events) + 1 = 1
    BY LengthOfNone DEF EInv, Unpacking, AtRest
  <2>2. \A p, x : ~Ends(queue, payload, 1, 0, "list", p, x)
    BY <2>1 DEF Ends, LastSays
  <2>3. \A p \in Codes : latest[p] = offer[p]
    BY <2>1, <2>2 DEF EInv, ListsCome
  <2> QED
    BY <2>3 DEF EInv, Kinds
<1> QED
  BY <1>1, EInvAlways, PTL

\* The values the front end sets come back through the tables of conv.c; 640,
\* for one, does not.
ReadsBack == \A p \in DOMAIN Wishes : \A v \in Wishes[p] : Shows(p, Data(p, v)) = <<v, "">>

\* A value set by name and taken by the camera is shown as that value once
\* everything is polled, unless the property was changed since.
THEOREM SettingsReadBack == ASSUME ReadsBack PROVE EosSpec => []SetReadsBack
<1>1. EInv /\ ShownIsCamera => SetReadsBack
  BY DEF EInv, Wished, ShownIsCamera, SetReadsBack, ReadsBack
<1> QED
  BY <1>1, EInvAlways, FrontEndCatchesUp, PTL

\* The unpacked lists and the settings use r->avail as PropAvail describes it:
\* an empty list is not stored, the rest is one ptp_set_prop_avail_info each.
THEOREM ImplementsPropAvail == EosSpec => AvailSpec
<1>1. EosInit => Init
  BY DEF EosInit
<1>2. ASSUME EInv, [EosNext]_eosVars PROVE [Next]_vars
  <2>1. CASE Up /\ UnpackEntry
    <3>1. payload[Len(events) + 1] \in Entries /\ UnpackList(payload[Len(events) + 1])
      <4>1. Len(events) + 1 \in 1..Length(payload)
        BY <1>2, <2>1 DEF EInv, Unpacking, UnpackEntry
      <4> QED
        BY <1>2, <2>1, <4>1 DEF EInv, Unpacking, UnpackEntry
    <3>2. \/ UNCHANGED availVars
          \/ \E p \in Codes : \E m \in Sizes[p], o \in Lists(p) : SetPropAvailInfo(p, m, o)
      BY <1>2, <3>1, UnpackListIs DEF EInv
    <3> QED
      BY <2>1, <3>2 DEF Next, vars, availVars
  <2>2. CASE Up /\ \E p \in DOMAIN Wishes : \E v \in Wishes[p] : SetGenericProperty(p, v)
    <3>1. PICK p \in DOMAIN Wishes : \E v \in Wishes[p] : SetGenericProperty(p, v)
      BY <2>2
    <3>2. PICK v \in Wishes[p] : SetGenericProperty(p, v)
      BY <3>1
    <3>3. p \in Codes /\ Data(p, v) \in Values
      BY WishesAssumption
    <3>4. SetValidateProp(p, Data(p, v))
      BY <3>2 DEF SetGenericProperty
    <3> QED
      BY <2>2, <3>3, <3>4 DEF Next
  <2>3. CASE \/ Camera \/ GetEvent \/ EventsJson \/ UNCHANGED eosVars
             \/ \E p \in Props : \E d \in Readings[p] : SetPropValue(p, d)
    <3>1. UNCHANGED availVars
      BY <2>3 DEF Camera, Turn, Offer, Happen, GetEvent, EventsJson, SetPropValue, eosVars
    <3> QED
      BY <3>1 DEF vars, availVars
  <2> QED
    BY <1>2, <2>1, <2>2, <2>3 DEF EosNext, Client
<1>3. EInv /\ [EosNext]_eosVars => [Next]_vars
  BY <1>2
<1> QED
  BY <1>1, <1>3, EInvAlways, PTL DEF EosSpec, AvailSpec, Spec

\* ... and so keep inside its memory, with one entry for each code.
THEOREM EventListsInside == EosSpec => []InsideMemory /\ []OneEntryPerCode
  BY ImplementsPropAvail, ListsInsideMemory, OneEntry, PTL DEF AvailSpec
=============================================================================

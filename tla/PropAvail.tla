----------------------------- MODULE PropAvail -----------------------------
(***************************************************************************)
(* r->avail, the list of properties and the values the camera supports for *)
(* them: ptp_set_prop_avail_info fills it from AvailListChanged events,    *)
(* ptp_eos_set_validate_prop asks it before it sends a value.  Lists of a  *)
(* code may differ in length and in the size of their members.             *)
(***************************************************************************)
EXTENDS Naturals, Sequences, SequencesExt

CONSTANTS Codes,     \* property codes, none of them 0
          Values,    \* values of properties
          Counts,    \* numbers of values an event may list for a code:
                     \*   [Codes -> SUBSET Nat]
          Sizes,     \* bytes of a member in them: [Codes -> SUBSET Nat]
          Blank      \* code 0, of the entry ptp_init allocates

ASSUME CodesAssumption == Blank \notin Codes
ASSUME CountsAssumption == /\ Counts \in [Codes -> SUBSET (Nat \ {0})]
                           /\ Sizes \in [Codes -> SUBSET (Nat \ {0})]

VARIABLES
  avail,     \* the list from its oldest entry to r->avail
  latest,    \* history: what the last event for each code listed
  size,      \* history: the size of its members, 0 before it
  mixed,     \* history: codes whose lists came with members of several sizes
  spilt,     \* the code whose memory memcpy has written past, or Blank
  verdict    \* the last return code of ptp_validate_property_value; 3 when it
             \*   has stopped the program

vars == <<avail, latest, size, mixed, spilt, verdict>>

\* memb_size and memb_cnt, of the code's first list, and the memory at data:
\* the bytes allocated, and the members last written to each place.  Where
\* members of another size were written it is torn, and is not followed.
Entry == [code : Codes \cup {Blank}, memb : Nat, cnt : Nat, room : Nat,
          data : Seq(Values), torn : {"no", "yes"}]

TypeOK ==
  /\ avail \in Seq(Entry) /\ avail # <<>>
  /\ latest \in [Codes -> Seq(Values)]
  /\ size \in [Codes -> Nat] /\ mixed \in SUBSET Codes
  /\ spilt \in Codes \cup {Blank} /\ verdict \in 0..3

\* ptp_init allocates one entry of zeros.
Init ==
  /\ avail = <<[code |-> Blank, memb |-> 0, cnt |-> 0, room |-> 0, data |-> <<>>,
                torn |-> "no"]>>
  /\ latest = [c \in Codes |-> <<>>] /\ size = [c \in Codes |-> 0] /\ mixed = {}
  /\ spilt = Blank /\ verdict = 1

\* Once memory was overwritten nothing is known of the program, and after
\* ptp_panic it is gone.
Up == spilt = Blank /\ verdict # 3

-----------------------------------------------------------------------------
\* Both functions walk prev from r->avail: the youngest entry of a code.
Found(c) == {i \in 1..Len(avail) : avail[i].code = c}
Find(c) == CHOOSE i \in Found(c) : \A j \in Found(c) : j <= i

\* Mutant: the memory always gets the size of the new list.
ReallocAlways(e, m, vals) == m * Len(vals)

\* The memory when a list with members of m bytes arrives: realloc goes by the
\* number of members alone, and memb_cnt keeps the length of the first list.
Realloc(e, m, vals) == IF Len(vals) > e.cnt THEN m * Len(vals) ELSE e.room

\* Mutant: nothing is copied unless the memory grows.
MemcpyKeeps(e, vals) == IF Len(vals) > e.cnt THEN vals ELSE e.data

\* The members in it after memcpy.
Memcpy(e, vals) ==
  IF Len(vals) > e.cnt THEN vals
  ELSE vals \o SubSeq(e.data, Len(vals) + 1, Len(e.data))

Torn(e, m, vals) ==
  IF m # e.memb THEN "yes" ELSE IF Len(vals) >= e.cnt THEN "no" ELSE e.torn

Update(c, m, vals) ==
  LET e == avail[Find(c)]
  IN  /\ Found(c) # {}
      /\ avail' = [avail EXCEPT ![Find(c)] =
                     [e EXCEPT !.room = Realloc(e, m, vals), !.data = Memcpy(e, vals),
                               !.torn = Torn(e, m, vals)]]
      /\ spilt' = IF m * Len(vals) > Realloc(e, m, vals) THEN c ELSE spilt

First(c, m, vals) == [code |-> c, memb |-> m, cnt |-> Len(vals),
                      room |-> m * Len(vals), data |-> vals, torn |-> "no"]

\* Mutant: the entry of ptp_init is filled again and again.
InsertFirst(c, m, vals) ==
  /\ Found(c) = {}
  /\ avail' = Front(avail) \o <<First(c, m, vals)>>
  /\ UNCHANGED spilt

\* The first code goes into the entry of ptp_init, the others follow it.
Insert(c, m, vals) ==
  /\ Found(c) = {}
  /\ avail' = IF Last(avail).code = Blank THEN Front(avail) \o <<First(c, m, vals)>>
                                          ELSE Append(avail, First(c, m, vals))
  /\ UNCHANGED spilt

SetPropAvailInfo(c, m, vals) ==
  /\ Update(c, m, vals) \/ Insert(c, m, vals)
  /\ latest' = [latest EXCEPT ![c] = vals]
  /\ size' = [size EXCEPT ![c] = m]
  /\ mixed' = IF size[c] \in {0, m} THEN mixed ELSE mixed \cup {c}
  /\ UNCHANGED verdict

\* ptp_validate_property_value reads the memory by the members of the first
\* list: 0 valid, 1 nothing known, 2 not supported.
Readable == {1, 2, 4}
Validate(c, v) ==
  IF Found(c) = {} THEN {1}
  ELSE LET e == avail[Find(c)]
       IN  IF e.memb \notin Readable THEN {3}
           ELSE IF e.torn = "yes" THEN {0, 2}
           ELSE IF \E i \in 1..e.cnt : e.data[i] = v THEN {0} ELSE {2}

\* ptp_eos_set_validate_prop: the value is sent unless the verdict is 2.
SetValidateProp(c, v) ==
  /\ verdict' \in Validate(c, v)
  /\ UNCHANGED <<avail, latest, size, mixed, spilt>>

Lists(c) == UNION {[1..n -> Values] : n \in Counts[c]}

Stopped == ~Up /\ UNCHANGED vars

Next == \/ /\ Up
           /\ \E c \in Codes :
                \/ \E m \in Sizes[c], vals \in Lists(c) : SetPropAvailInfo(c, m, vals)
                \/ \E v \in Values : SetValidateProp(c, v)
        \/ Stopped

Spec == Init /\ [][Next]_vars

-----------------------------------------------------------------------------
(* Properties.                                                             *)

\* Only of a code whose lists came with members of several sizes does memcpy
\* leave the memory, or validation read past it: otherwise the memory has room
\* for the first list, which validation reads, and holds the last one, however
\* they alternate in length.
InsideMemory ==
  /\ spilt # Blank => spilt \in mixed
  /\ \A c \in Codes \ mixed : latest[c] # <<>> =>
       /\ Found(c) # {}
       /\ LET e == avail[Find(c)]
          IN  /\ e.memb * e.cnt <= e.room
              /\ size[c] * Len(latest[c]) <= e.room
              /\ IsPrefix(latest[c], e.data)

\* Nothing is known twice and no code gets lost on the way from r->avail back
\* to the oldest entry.
OneEntryPerCode ==
  /\ \A c \in Codes : latest[c] # <<>> <=> \E i \in Found(c) : Found(c) = {i}
  /\ Blank \in {avail[i].code : i \in 1..Len(avail)} => Len(avail) = 1

\* libpict.h: r->avail holds "a linked list of properties and an array of
\* their supported values".  A value is judged by the camera's last list.
Supported(c, v) == \E i \in 1..Len(latest[c]) : latest[c][i] = v
Judged(c, v) == verdict' = IF latest[c] = <<>> THEN 1
                              ELSE IF Supported(c, v) THEN 0 ELSE 2
JudgedByLatest ==
  [][\A c \in Codes, v \in Values : SetValidateProp(c, v) => Judged(c, v)]_vars

\* This much holds: whenever the last list has the length of the code's first
\* one, and its members the size, which can be read, a value is judged by the
\* last list, whatever came between.
SameForm(c) ==
  latest[c] # <<>> => LET e == avail[Find(c)]
                      IN  Len(latest[c]) = e.cnt /\ size[c] = e.memb /\ e.memb \in Readable
JudgedAtFirstLength ==
  [][\A c \in Codes, v \in Values :
       SetValidateProp(c, v) /\ SameForm(c) => Judged(c, v)]_vars

\* lib.c:73: "Only realloc if needed".  What memcpy writes has its room.
ReallocIfNeeded == spilt = Blank
=============================================================================

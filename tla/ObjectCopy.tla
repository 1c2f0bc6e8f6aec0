----------------------------- MODULE ObjectCopy -----------------------------
(***************************************************************************)
(* What the callers of ptp_download_object get: an object is fetched from  *)
(* its beginning to its end, what is fetched goes to the file in order,    *)
(* and success means that the end was reached.  A full disk leaves gaps in *)
(* the file, and a camera that is short passes for the end of its object.  *)
(***************************************************************************)
EXTENDS Naturals, Sequences

CONSTANTS Copies,  \* the downloads
          Object   \* their objects, each a sequence of units

VARIABLES file,    \* per download: what has been written
          at,      \* per download: how much has been fetched
          faults,  \* per download: "chunk", "disk"
          result   \* per download: "none" while it runs

CopyInit == /\ file = [c \in Copies |-> <<>>]
            /\ at = [c \in Copies |-> 0]
            /\ faults = [c \in Copies |-> {}]
            /\ result = [c \in Copies |-> "none"]

\* More is fetched, and the disk takes the first m units of it.
Extend(c) ==
  /\ result[c] = "none"
  /\ \E n \in (at[c] + 1)..Len(Object[c]), m \in at[c]..Len(Object[c]) :
       /\ m <= n
       /\ at' = [at EXCEPT ![c] = n]
       /\ file' = [file EXCEPT ![c] = @ \o SubSeq(Object[c], at[c] + 1, m)]
       /\ faults' = [faults EXCEPT ![c] = IF m < n THEN @ \cup {"disk"} ELSE @]
  /\ UNCHANGED result

\* The camera sends less than was asked for, though it has more.
Short(c) == /\ result[c] = "none" /\ at[c] < Len(Object[c])
            /\ faults' = [faults EXCEPT ![c] = @ \cup {"chunk"}]
            /\ UNCHANGED <<file, at, result>>

Complete(c) == /\ result[c] = "none"
               /\ at[c] = Len(Object[c]) \/ "chunk" \in faults[c]
               /\ result' = [result EXCEPT ![c] = "ok"]
               /\ UNCHANGED <<file, at, faults>>

Abandon(c) == /\ result[c] = "none"
              /\ result' = [result EXCEPT ![c] = "failed"]
              /\ UNCHANGED <<file, at, faults>>

CopyNext == \E c \in Copies : Extend(c) \/ Short(c) \/ Complete(c) \/ Abandon(c)

CopySpec == CopyInit /\ [][CopyNext]_<<file, at, faults, result>>
=============================================================================

--------------------------- MODULE DownloadObject ---------------------------
(***************************************************************************)
(* ptp_download_object as bind_download_file calls it, in several threads  *)
(* of one PtpRuntime: each copies its own object chunk by chunk through    *)
(* the one buffer r->data, while yet other threads send commands of their  *)
(* own.  The file may not open, the disk may be full, and the camera may   *)
(* send less than it was asked for; the code looks at none of the three.   *)
(***************************************************************************)
EXTENDS Naturals, Sequences

CONSTANTS Downloads,   \* one thread, object and file each
          Other,       \* owner of what other commands leave in r->data
          NoOne,       \* the mutex is free
          Size,        \* object lengths: [Downloads -> Nat]
          Max,         \* chunk length asked for
          MaxOthers    \* bound: commands of other threads

ASSUME DownloadsAssumption == Other \notin Downloads /\ NoOne \notin Downloads
ASSUME LengthsAssumption == /\ Size \in [Downloads -> Nat]
                            /\ Max \in Nat \ {0} /\ MaxOthers \in Nat

VARIABLES
  pc,       \* per thread: "fopen", "lock", "send", "write", "unlock",
            \*   "fclose" or "done"
  owner,    \* holder of r->mutex between two calls
  payload,  \* the answer in r->data: whose, from which offset, how long
  read,     \* per thread: offset of the next chunk
  partial,  \* per thread: partial_len of the last chunk
  file,     \* per thread: units written
  open,     \* per thread: "file", or "null" when fopen failed
  faults,   \* history, per thread: "chunk" once the camera sent less than it
            \*   had, "disk" once the disk did not take all of a chunk
  closes,   \* per thread: calls of fclose on the file
  result,   \* per thread: what ptp_download_object returned
  others,   \* commands of other threads so far
  crashed   \* "yes" once the program has used a FILE that is not there

vars == <<pc, owner, payload, read, partial, file, open, faults, closes, result,
          others, crashed>>

Unit(d, i) == [of |-> d, at |-> i]
Results == {"none", "ok", "failed"}

TypeOK ==
  /\ pc \in [Downloads -> {"fopen", "lock", "send", "write", "unlock", "fclose",
                           "done"}]
  /\ owner \in Downloads \cup {NoOne}
  /\ payload \in [of : Downloads \cup {Other}, from : Nat, len : 0..Max]
  /\ read \in [Downloads -> Nat]
  /\ partial \in [Downloads -> 0..Max]
  /\ file \in [Downloads -> Seq([of : Downloads \cup {Other}, at : Nat])]
  /\ open \in [Downloads -> {"file", "null"}]
  /\ faults \in [Downloads -> SUBSET {"chunk", "disk"}]
  /\ closes \in [Downloads -> 0..2]
  /\ result \in [Downloads -> Results]
  /\ others \in 0..MaxOthers /\ crashed \in {"no", "yes"}

Init ==
  /\ pc = [d \in Downloads |-> "fopen"]
  /\ owner = NoOne
  /\ payload = [of |-> Other, from |-> 0, len |-> 0]
  /\ read = [d \in Downloads |-> 0]
  /\ partial = [d \in Downloads |-> 0]
  /\ file = [d \in Downloads |-> <<>>]
  /\ open = [d \in Downloads |-> "file"]
  /\ faults = [d \in Downloads |-> {}]
  /\ closes = [d \in Downloads |-> 0]
  /\ result = [d \in Downloads |-> "none"]
  /\ others = 0 /\ crashed = "no"

At(d, l) == pc[d] = l
Go(d, l) == pc' = [pc EXCEPT ![d] = l]

-----------------------------------------------------------------------------
\* The result of fopen is not looked at.
Fopen(d) ==
  /\ At(d, "fopen") /\ Go(d, "lock")
  /\ \E f \in {"file", "null"} : open' = [open EXCEPT ![d] = f]
  /\ UNCHANGED <<owner, payload, read, partial, file, faults, closes, result,
                 others, crashed>>

Lock(d) ==
  /\ At(d, "lock") /\ owner = NoOne
  /\ owner' = d /\ Go(d, "send")
  /\ UNCHANGED <<payload, read, partial, file, open, faults, closes, result,
                 others, crashed>>

\* What the camera has for GetPartialObject; it may send less of it.
Chunk(d) == LET rest == Size[d] - read[d] IN IF rest < Max THEN rest ELSE Max

\* ptp_get_partial_object, which takes the mutex a second time meanwhile.
Send(d) ==
  /\ At(d, "send")
  /\ \E l \in 0..Chunk(d) :
       /\ payload' = [of |-> d, from |-> read[d], len |-> l]
       /\ faults' = [faults EXCEPT ![d] = IF l < Chunk(d) THEN @ \cup {"chunk"} ELSE @]
  /\ Go(d, "write")
  /\ UNCHANGED <<owner, read, partial, file, open, closes, result, others, crashed>>

SendFails(d) ==
  /\ At(d, "send")
  /\ owner' = NoOne
  /\ result' = [result EXCEPT ![d] = "failed"]
  /\ Go(d, "fclose")
  /\ UNCHANGED <<payload, read, partial, file, open, faults, closes, others, crashed>>

\* Mutant: an empty chunk is asked for again.
EmptyAgain(d) ==
  /\ At(d, "write") /\ payload.len = 0 /\ open[d] = "file"
  /\ owner' = NoOne
  /\ Go(d, "lock")
  /\ UNCHANGED <<payload, read, partial, file, open, faults, closes, result, others,
                 crashed>>

\* An empty chunk ends the download and closes the caller's file.
Empty(d) ==
  /\ At(d, "write") /\ payload.len = 0 /\ open[d] = "file"
  /\ closes' = [closes EXCEPT ![d] = @ + 1]
  /\ owner' = NoOne
  /\ result' = [result EXCEPT ![d] = "ok"]
  /\ Go(d, "fclose")
  /\ UNCHANGED <<payload, read, partial, file, open, faults, others, crashed>>

\* The first n units of the chunk.
Bytes(n) == [i \in 1..n |-> Unit(payload.of, payload.from + i)]

\* What of a chunk gets into the file, by fwrite or when its buffer is flushed
\* later, is what the disk takes; the code goes on as if it were all of it.
Write(d) ==
  /\ At(d, "write") /\ payload.len # 0 /\ open[d] = "file"
  /\ \E n \in 0..payload.len :
       /\ file' = [file EXCEPT ![d] = @ \o Bytes(n)]
       /\ faults' = [faults EXCEPT ![d] = IF n < payload.len THEN @ \cup {"disk"} ELSE @]
  /\ partial' = [partial EXCEPT ![d] = payload.len]
  /\ Go(d, "unlock")
  /\ UNCHANGED <<owner, payload, read, open, closes, result, others, crashed>>

\* Mutant: the first chunk ends the loop.
AdvanceOnce(d, len) ==
  /\ read' = [read EXCEPT ![d] = @ + len]
  /\ result' = [result EXCEPT ![d] = "ok"] /\ Go(d, "fclose")

\* After the mutex was released: only the thread's own variables count.  A
\* chunk of another length than asked for is taken for the last.
Advance(d, len) ==
  /\ read' = [read EXCEPT ![d] = @ + len]
  /\ IF len = Max THEN Go(d, "lock") /\ UNCHANGED result
                  ELSE result' = [result EXCEPT ![d] = "ok"] /\ Go(d, "fclose")

Unlock(d) ==
  /\ At(d, "unlock")
  /\ owner' = NoOne
  /\ Advance(d, partial[d])
  /\ UNCHANGED <<payload, partial, file, open, faults, closes, others, crashed>>

\* bind_download_file closes the file it opened.
Fclose(d) ==
  /\ At(d, "fclose") /\ open[d] = "file"
  /\ closes' = [closes EXCEPT ![d] = @ + 1]
  /\ Go(d, "done")
  /\ UNCHANGED <<owner, payload, read, partial, file, open, faults, result, others,
                 crashed>>

\* fwrite or fclose of a file that did not open.
Crash(d) ==
  /\ pc[d] \in {"write", "fclose"} /\ open[d] = "null"
  /\ crashed' = "yes"
  /\ UNCHANGED <<pc, owner, payload, read, partial, file, open, faults, closes,
                 result, others>>

\* Another thread's command and its answer, under the mutex of ptp_send.
OtherCommand ==
  /\ crashed = "no" /\ owner = NoOne /\ others < MaxOthers
  /\ payload' = [of |-> Other, from |-> 0, len |-> Max]
  /\ others' = others + 1
  /\ UNCHANGED <<pc, owner, read, partial, file, open, faults, closes, result,
                 crashed>>

Done == /\ crashed = "yes" \/ \A d \in Downloads : pc[d] = "done"
        /\ UNCHANGED vars

Step(d) == /\ crashed = "no"
           /\ \/ Fopen(d) \/ Lock(d) \/ Send(d) \/ SendFails(d) \/ Empty(d)
              \/ Write(d) \/ Unlock(d) \/ Fclose(d) \/ Crash(d)

Next == (\E d \in Downloads : Step(d)) \/ OtherCommand \/ Done

Spec == Init /\ [][Next]_vars

\* Every thread keeps running and the kernel hands the mutex on.
FairSpec == Spec /\ \A d \in Downloads : WF_vars(Step(d))

-----------------------------------------------------------------------------
(* Properties.                                                             *)

\* Whatever the other threads put into the shared buffer between two chunks, a
\* file has units of its own object only, each once and in order; there is no
\* gap as long as the disk takes what is written, and a download that succeeds
\* has the whole object unless the camera was short or the disk full.
FileIsPrefix ==
  \A d \in Downloads :
    /\ \A i \in 1..Len(file[d]) : file[d][i].of = d
    /\ \A i, j \in 1..Len(file[d]) : i < j => file[d][i].at < file[d][j].at
    /\ "disk" \notin faults[d] => \A i \in 1..Len(file[d]) : file[d][i] = Unit(d, i)
    /\ result[d] = "ok" /\ faults[d] = {} => Len(file[d]) = Size[d]

\* Each download implements ObjectCopy: chunk after chunk of the object goes to
\* the disk in order, and success means that the object has been fetched to its
\* end or that the camera was short.
Units == [d \in Downloads |-> [i \in 1..Size[d] |-> Unit(d, i)]]
Fetched == [d \in Downloads |-> IF pc[d] = "unlock" THEN read[d] + partial[d]
                                                    ELSE read[d]]
Copy == INSTANCE ObjectCopy WITH Copies <- Downloads, Object <- Units, at <- Fetched
CopiesObject == Copy!CopySpec

\* Every download comes back to its caller, unless the program crashes.
DownloadsEnd == \A d \in Downloads : <>(pc[d] = "done" \/ crashed = "yes")

\* cl_ops.h: ptp_download_object downloads to the file it is given; the file
\* is its caller's, which opened it and closes it.
ClosedByCaller == \A d \in Downloads : closes[d] <= 1

\* cl_ops.h: "Download an object from handle, to a local file".  When the
\* function returns 0 the object is in the file.
WholeOnSuccess ==
  \A d \in Downloads : result[d] = "ok" => file[d] = Units[d]
=============================================================================

----------------------------- MODULE RemoteCall -----------------------------
(***************************************************************************)
(* What a caller of ptp_send believes: a call that returns 0 had its       *)
(* command executed by the camera exactly once, and what is in the buffer  *)
(* is the answer to that command.                                          *)
(***************************************************************************)
EXTENDS Naturals

VARIABLES call,     \* number of the current call, 0 before the first
          runs,     \* how often the camera has executed its command
          result,   \* "none" while the call is in progress
          answer    \* call whose answer the buffer holds when result = "ok"

rcVars == <<call, runs, result, answer>>

CallInit == call = 0 /\ runs = 0 /\ result = "ok" /\ answer = 0

Start == /\ result = "ok"
         /\ call' = call + 1
         /\ runs' = 0
         /\ result' = "none"
         /\ UNCHANGED answer

\* Also after the caller has given up: the camera may be late.
Execute == /\ call > 0 /\ runs = 0 /\ result # "ok"
           /\ runs' = 1
           /\ UNCHANGED <<call, result, answer>>

Succeed == /\ result = "none" /\ runs = 1
           /\ result' = "ok"
           /\ answer' = call
           /\ UNCHANGED <<call, runs>>

GiveUp == /\ result = "none"
          /\ result' = "failed"
          /\ UNCHANGED <<call, runs, answer>>

CallNext == Start \/ Execute \/ Succeed \/ GiveUp

CallSpec == CallInit /\ [][CallNext]_rcVars
=============================================================================

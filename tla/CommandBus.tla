----------------------------- MODULE CommandBus -----------------------------
(***************************************************************************)
(* What the PTP pipe promises to the camera, whatever the number of        *)
(* threads that call the library: one command is outstanding at a time; a  *)
(* command that got no answer is repeated at most once, unchanged and      *)
(* before any other command; after that the initiator gives up.            *)
(* PtpRuntime implements this specification.                               *)
(***************************************************************************)
EXTENDS Naturals

CONSTANT CommandIds      \* one identity per call of the operation API

VARIABLE bus             \* what the initiator has outstanding

IdleBus == [state |-> "idle", id |-> 0, tid |-> 0]

BusTypeOK == bus \in [state : {"idle", "sent", "lost", "resent"},
                      id : CommandIds \cup {0}, tid : Nat]

BusInit == bus = IdleBus

\* A new command goes out only when nothing is outstanding.
Issue == /\ bus.state = "idle"
         /\ bus' \in [state : {"sent"}, id : CommandIds, tid : Nat]

\* The camera answered the outstanding command.
Answer == /\ bus.state \in {"sent", "resent"}
          /\ bus' = IdleBus

\* The camera stayed silent on the first try.
Ignore == /\ bus.state = "sent"
          /\ bus' = [bus EXCEPT !.state = "lost"]

\* The very same command goes out a second time.
Reissue == /\ bus.state = "lost"
           /\ bus' = [bus EXCEPT !.state = "resent"]

\* The initiator stops waiting for, or does not repeat, the command.
GiveUp == /\ bus.state # "idle"
          /\ bus' = IdleBus

BusNext == Issue \/ Answer \/ Ignore \/ Reissue \/ GiveUp

BusSpec == BusInit /\ [][BusNext]_bus
=============================================================================

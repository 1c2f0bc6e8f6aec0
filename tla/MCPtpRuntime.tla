---------------------------- MODULE MCPtpRuntime ----------------------------
(* Instances of PtpRuntime for TLC.                                        *)
EXTENDS PtpRuntime, TLC

CONSTANTS t1, t2, t3

TwoThreads == {t1, t2}
ThreeThreads == {t1, t2, t3}
Symmetry == Permutations(Threads)

\* Traffic on an open session, and the shutdown of it.
SerialOutcomes == {"OK", "goodbye", "ignored"}
AllOutcomes == Codes \cup {"ignored", "ioerr"}
QueryCalls == {"send", "query", "quit"}
LifeCalls == {"query", "sendData", "abort", "quit", "connect", "disconnect"}
FaultCalls == {"send", "info", "open", "event"}
=============================================================================

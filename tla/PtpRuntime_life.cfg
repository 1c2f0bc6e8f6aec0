\* Queries, shutdown, disconnection and reconnection under traffic, every outcome.
CONSTANTS
  t1 = t1
  t2 = t2
  t3 = t3
  NoThread = NoThread
  Threads <- TwoThreads
  Calls <- LifeCalls
  Outcomes <- AllOutcomes
  MaxCalls = 4
SYMMETRY Symmetry
SPECIFICATION Spec
INVARIANTS TypeOK MutexMatchesCalls QueryReadsOwnAnswer WireExclusion SessionStaysClosed
PROPERTY BusSpec

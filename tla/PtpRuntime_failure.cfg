\* A command after a failed one.
CONSTANTS
  t1 = t1
  t2 = t2
  t3 = t3
  NoThread = NoThread
  Threads <- TwoThreads
  Calls <- QueryCalls
  Outcomes <- AllOutcomes
  MaxCalls = 2
SPECIFICATION Spec
INVARIANT FailureStopsCommands

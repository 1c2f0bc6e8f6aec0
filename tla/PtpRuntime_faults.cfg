\* Parsing after the mutex is released, OpenSession beside a command, ptp_get_event.
CONSTANTS
  t1 = t1
  t2 = t2
  t3 = t3
  NoThread = NoThread
  Threads <- TwoThreads
  Calls <- FaultCalls
  Outcomes <- SerialOutcomes
  MaxCalls = 2
SPECIFICATION Spec
INVARIANTS InfoReadsOwnAnswer OpenTidZero EventIsEvent

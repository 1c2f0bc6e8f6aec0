\* Every pair of calls, every outcome: calls return.
CONSTANTS
  t1 = t1
  t2 = t2
  t3 = t3
  NoThread = NoThread
  Threads <- TwoThreads
  Calls <- AllCalls
  Outcomes <- AllOutcomes
  MaxCalls = 2
SPECIFICATION FairSpec
PROPERTY CallsReturn

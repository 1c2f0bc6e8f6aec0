\* The manager opens only what is closed.
CONSTANTS
  Manager = Manager
  Workers = {w1, w2}
  NoOne = NoOne
  Reopens = FALSE
  MaxHandles = 3
SPECIFICATION DeviceSpec
INVARIANTS ActiveMeansClaimed MutexReleased

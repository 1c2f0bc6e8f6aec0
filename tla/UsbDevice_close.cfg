\* A device closed while commands are under way.
CONSTANTS
  Manager = Manager
  Workers = {w1, w2}
  NoOne = NoOne
  Reopens = FALSE
  MaxHandles = 3
SPECIFICATION DeviceSpec
INVARIANT TransferOnClaimed

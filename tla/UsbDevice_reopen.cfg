\* ptp_device_open while a connection is active.
CONSTANTS
  Manager = Manager
  Workers = {w1, w2}
  NoOne = NoOne
  Reopens = TRUE
  MaxHandles = 3
SPECIFICATION DeviceSpec
INVARIANT MutexReleased

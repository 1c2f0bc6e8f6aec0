\* A camera that closes the connection inside a packet.
CONSTANTS
  WaitDefault = 1
  Asked = {0, 2}
  LenField = 2
  Modulus = 30
  Lens = {1, 2, 3, 4, 29}
  Huge = 2
  Buffer = 4
  Extra = 0
  MaxFails = 2
  HangsUp = TRUE
  Stops = FALSE
  Strange = FALSE
  MaxCalls = 1
SPECIFICATION FairSpec
INVARIANT NeverOverrun
PROPERTY ReceiveEnds

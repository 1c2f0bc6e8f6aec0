\* Failing reads, a closed connection, a silent camera, packets of other types.
CONSTANTS
  WaitDefault = 1
  Asked = {0, 2}
  LenField = 2
  Modulus = 30
  Lens = {1, 2, 3, 4, 29}
  Huge = 2
  Buffer = 4
  Extra = 0
  MaxFails = 2
  HangsUp = TRUE
  Stops = TRUE
  Strange = TRUE
  MaxCalls = 2
SPECIFICATION FairSpec
INVARIANTS ExactAnswer WaitHonoured BufferHolds
PROPERTY ReceiveEndsWithPeer

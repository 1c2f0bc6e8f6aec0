\* A camera that drops commands or answers within the wait budget.
CONSTANTS
  WaitDefault = 3
  Asked <- NoAsk
  Hdr = 2
  MaxPacket = 4
  Outs <- SmallOuts
  Payloads <- SmallPayloads
  Params <- SmallParams
  Patience = 2
  Drops = TRUE
  MaxCalls = 3
SPECIFICATION FairSpec
INVARIANTS WholePackets WholeAnswer AccessorsAgree
PROPERTIES RemoteSpec CallEnds

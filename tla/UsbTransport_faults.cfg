\* A caller that asks for a longer wait, a camera that needs it, and a data phase.
CONSTANTS
  WaitDefault = 1
  Asked <- AskThree
  Hdr = 2
  MaxPacket = 4
  Outs <- OneCommand
  Payloads <- SmallPayloads
  Params <- SmallParams
  Patience = 3
  Drops = FALSE
  MaxCalls = 1
SPECIFICATION Spec
INVARIANTS WaitHonoured IgnoredMeansSilence ParamsAgree

\* Any three calls of the front end beside a thread that polls.
CONSTANTS
  Pollers <- MCPollers
  Poller = poller
  Kinds <- MCKinds
  Modes <- OneMode
  MaxCalls = 3
SPECIFICATION Spec
INVARIANTS ReleasedWhenTold ShotsTold LiveviewTold

\* What a thread that polls, a refused or failed command and ML BMP break.
CONSTANTS
  Pollers <- MCPollers
  Poller = poller
  Kinds <- MCKinds
  Modes <- MCModes
  MaxCalls = 3
SPECIFICATION Spec
INVARIANTS BulbStopTold LiveviewTakenDown WhiteBalanceTold
PROPERTY PictureTaken

\* What the README lists as refuted; run with -continue.
CONSTANTS
  NameMax = 8
  DateMax = 6
  TextMax = 8
  ArrayMax = 3
  DataLength = 200
  MaxStr = 8
  MaxTok = 4
  PackBuffer = 81
  WifiHeader = 1
  BulkHeader = 2
  CommandMax = 3
  FirmMax = 6
  FirmName = 2
  ScreenWidth = 3
  ScreenHeight = 2
  VramWidth = 5
  EnumCount = 3
  Turns = 6
  Jobs <- BadJobs
SPECIFICATION Spec
CHECK_DEADLOCK FALSE
INVARIANTS AllAnswersAreJson Utf8Inside CutStrings SignKept RangeEnds RangeComplete FormsRead LineEnds LongLineRefused StringsDecoded AnyCutDecoded DumpIsContainers LinesPacked FirmwareArrives CopiedWhenFetched FrameInside

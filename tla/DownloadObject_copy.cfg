\* Two downloads, objects of a whole and of a broken number of chunks.
CONSTANTS
  d1 = d1
  d2 = d2
  Downloads = {d1, d2}
  Other = Other
  NoOne = NoOne
  Size <- Sizes
  Max = 2
  MaxOthers = 2
SPECIFICATION FairSpec
PROPERTIES CopiesObject DownloadsEnd

\* Two properties, lists of one to three values with members of two sizes.
CONSTANTS
  c1 = c1
  c2 = c2
  Codes = {c1, c2}
  Values = {v1, v2}
  Counts <- Changing
  Sizes <- Growing
  Blank = Blank
SPECIFICATION Spec
INVARIANTS InsideMemory OneEntryPerCode
PROPERTY JudgedAtFirstLength

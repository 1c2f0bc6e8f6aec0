\* Claims about r->avail that do not hold; tlc -continue shows both.
CONSTANTS
  c1 = c1
  c2 = c2
  Codes = {c1, c2}
  Values = {v1, v2, v3}
  Counts <- Changing
  Sizes <- Growing
  Blank = Blank
SPECIFICATION Spec
INVARIANT ReallocIfNeeded
PROPERTY JudgedByLatest

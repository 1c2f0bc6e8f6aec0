\* Claims of cl_ops.h that do not hold: a file closed twice, and an object that is
\* not whole when 0 is returned.  tlc -continue shows both.
CONSTANTS
  d1 = d1
  d2 = d2
  Downloads = {d1, d2}
  Other = Other
  NoOne = NoOne
  Size <- Sizes
  Max = 2
  MaxOthers = 2
SPECIFICATION Spec
INVARIANTS ClosedByCaller WholeOnSuccess

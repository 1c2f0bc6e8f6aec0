\* A sound program, and files that take every number that is free.
CONSTANTS
  MaxNumber = 3
  ZeroFree = FALSE
  HangsUp = TRUE
  Habits = {}
SPECIFICATION Spec
INVARIANTS OwnDescriptors DiAlive
PROPERTY ConnectReturns

\* A careless program, a failing getsockopt, and no stdin.  TLC stops at the
\* first of these; each is refuted when it stands alone.
CONSTANTS
  MaxNumber = 2
  ZeroFree = TRUE
  HangsUp = TRUE
  Habits = {"reconnects", "goesOn", "drops"}
SPECIFICATION FaultSpec
INVARIANTS OwnDescriptors DiAlive NothingLost BindConnects
PROPERTIES AcceptedWhenTold TypeKnown

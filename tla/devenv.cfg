SPECIFICATION LiveSpec
CONSTANTS
  Shells = {s1}
  Runner = r1
  Ops = {o1}
  Bases = {b1, b2}
  None = None
  Orphan = Orphan
  MaxCreates = 1
  MaxRebases = 1
  MaxRemovals = 1
  MaxFaults = 1
INVARIANTS TypeOK InsideIsWhole
PROPERTIES WorldKeptUnderJob DestroyedStaysGone RebaseSettles
CHECK_DEADLOCK FALSE

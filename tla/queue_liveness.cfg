SPECIFICATION LiveSpec
CONSTANTS
  t1 = t1
  t2 = t2
  p1 = p1
  v1 = v1
  Jobs = {t1, t2, v1}
  Kind <- KindOf
  Group <- OneOrigin
  Remote = {t2}
  MaxRetry = 1
  SlowTail = FALSE
  MaxCrashes = 1
  MaxDbFaults = 0
PROPERTIES JobSettles QueuedSettles
CHECK_DEADLOCK FALSE

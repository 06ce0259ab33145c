SPECIFICATION LiveSpec
CONSTANTS
  Builders = {b1, b2}
  Ports = {p1}
  NoRun = NoRun
  Absent = Absent
  Disabled = Disabled
  MaxRuns = 2
  StaleHours = 1
  MaxLost = 2
INVARIANTS TypeOK PortStatusAgrees RunsNotShared
PROPERTY DeadRunCloses
CHECK_DEADLOCK FALSE

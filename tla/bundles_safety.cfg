SPECIFICATION Spec
CONSTANTS
  BundleIds = {b1, b2}
  NoBundle = NoBundle
  Users = {u1}
  Acts <- StakeActs
  NoReq = NoReq
  NoJob = NoJob
  MaxRev = 1
  MaxFix = 0
  MaxQueued = 1
  MaxCrashes = 1
SYMMETRY Siblings
INVARIANTS TypeOK OneRetriageInFlight
PROPERTIES StakeKept OwnedIsStaked
CHECK_DEADLOCK FALSE

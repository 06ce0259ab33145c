SPECIFICATION LiveSpec
CONSTANTS
  Issues = {i1}
  Bundles = {b1}
  NoBundle = NoBundle
  Operators = {o1}
  Acts <- AllActs
  NoReq = NoReq
  NoJob = NoJob
  Threshold = 2
  MaxFailures = 2
  MaxGen = 2
  MaxPending = 2
  MaxCrashes = 1
  MaxDbFaults = 1
INVARIANTS TypeOK MarkerHasBuild
PROPERTIES RefinesLifecycle ConfirmedMonotone AskedBuildIsSettled

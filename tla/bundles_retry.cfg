SPECIFICATION LiveSpec
CONSTANTS
  BundleIds = {b1}
  NoBundle = NoBundle
  Users = {u1}
  Acts <- RetryActs
  NoReq = NoReq
  NoJob = NoJob
  MaxRev = 2
  MaxFix = 1
  MaxQueued = 1
  MaxCrashes = 0
PROPERTY RetryReachesTriage
CHECK_DEADLOCK FALSE

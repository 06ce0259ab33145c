SPECIFICATION DeliveryLiveSpec
CONSTANTS
  BundleIds = {b1}
  Branches = {n1}
  Base = Base
  Threads = {t1}
  Pollers = {p1, p2}
  Idle = Idle
  MaxDeliveries = 2
  MaxCrashes = 0
PROPERTIES RowSettles
CHECK_DEADLOCK FALSE

SPECIFICATION DeliverySpec
CONSTANTS
  BundleIds = {b1, b2}
  Branches = {n1, n2}
  Base = Base
  Threads = {t1, t2}
  Pollers = {p1}
  Idle = Idle
  MaxDeliveries = 2
  MaxCrashes = 1
SYMMETRY Alike
INVARIANTS PushedIsOwn AcceptNotLost
CHECK_DEADLOCK FALSE

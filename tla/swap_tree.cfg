SPECIFICATION Spec
CONSTANTS
  MaxBuilds = 5
  MaxFaults = 3
INVARIANTS
  IInv
  NoSingleFaultLosesFeed
  NoSingleErrorHidesFeed
PROPERTIES
  ImplementsServedFeed
CHECK_DEADLOCK FALSE

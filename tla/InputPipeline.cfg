CONSTANTS
  Capacity = 2
  Request = {q1}
  NoRequest = NoRequest
  MaxNest = 1
SPECIFICATION FairSpec
INVARIANT NeverStuckPressed
PROPERTIES ReleaseReachesWidgets PressesAlternate AcceptedRuns
CHECK_DEADLOCK FALSE

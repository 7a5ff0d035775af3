CONSTANTS
  MaxId = 4
  MaxDepth = 3
SPECIFICATION FairSpec
INVARIANTS OnePlaceEach DispatchCallsAll
PROPERTY WaitingIsServed
CHECK_DEADLOCK FALSE

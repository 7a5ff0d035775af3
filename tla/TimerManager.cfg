CONSTANTS
  MaxId = 3
  MaxDepth = 2
  Duration = {0, 1, 2}
  MaxTime = 3
  Wrap = 1000000
SPECIFICATION Spec
INVARIANTS OnePlaceEach NeverEarly DispatchFiresAllDue NextTimeIsEarliest
CHECK_DEADLOCK FALSE

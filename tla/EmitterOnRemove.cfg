CONSTANTS
  MaxItem = 2
  MaxDepth = 1
  Type = {"a", "b"}
  Disciplines = {{"on", "remove"}}
SPECIFICATION EmitterSpec
INVARIANT OffTakesEffect
CHECK_DEADLOCK FALSE

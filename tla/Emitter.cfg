CONSTANTS
  MaxItem = 4
  MaxDepth = 3
  Type = {"a", "b"}
  Disciplines = {{"on", "off_other"}, {"remove", "off_self"}, {"remove", "off_self", "stop"}, {"on", "nest"}}
SPECIFICATION EmitterSpec
INVARIANTS EmitterTypeOK NoUseAfterFree CallsEachOnce OffTakesEffect
CHECK_DEADLOCK FALSE

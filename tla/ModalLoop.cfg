CONSTANTS
  Dialog = {d1, d2}
  Main = Main
  Other = Other
  NoWindow = NoWindow
  Frames = 1
SPECIFICATION FairSpec
INVARIANTS FlagIsPerLoop ClosedOnce
CHECK_DEADLOCK FALSE
PROPERTIES ReturnedIsFreed QuitEnds

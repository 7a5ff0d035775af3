CONSTANTS
  Capacity = 2
  Event = {e1, e2}
  NoEvent = NoEvent
  Gui = Gui
  Thread = {input, worker, Gui}
  NoThread = NoThread
SPECIFICATION LockedSpec
PROPERTY LockedImplementsFifo

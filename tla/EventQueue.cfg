CONSTANTS
  Capacity = 3
  Event = {e1, e2}
  NoEvent = NoEvent
SPECIFICATION RingSpec
INVARIANT FullOnlyWhenMet
PROPERTY ImplementsFifo

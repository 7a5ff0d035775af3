CONSTANTS
  Button = {button}
  Edit = {edit}
  Item = {item}
  Image = {image}
  Slide = {slide}
  Animated = {button}
  Animator = {a1}
  None = None
  Rounds = 2
  MaxNest = 1
  Patient = TRUE
SPECIFICATION FairSpec
INVARIANTS NoTimerOfTheDead OwnersKnowTheirTimers RepeatStopsOnRelease
PROPERTIES CaretStops
CHECK_DEADLOCK FALSE

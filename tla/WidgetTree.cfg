CONSTANTS
  win = win
  box = box
  item = item
  view = view
  Widget = {win, box, item, view}
  Root = win
  NoWidget = NoWidget
  TreeParent <- MCParent
  Grabber = {item, view}
  Scroll = {view}
  Switch = {}
  Patient = TRUE
SPECIFICATION Spec
INVARIANTS TargetsAreChildren FocusIsAPath ReleaseReachesGrabber NoGhostGrab

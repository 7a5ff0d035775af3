CONSTANTS
  Window = {home, page, dialog, popup}
  Normal = {home, page}
  Popup = {popup}
  OpenHint = {page, dialog, popup}
  CloseHint = {page, dialog}
  NoWindow = NoWindow
  Duration = 2
  Patient = TRUE
  OneAtATime = TRUE
SPECIFICATION FairSpec
INVARIANTS TypeOK NothingDangles FocusIsOpen
PROPERTIES OpenedIsNotified ClosedIsFreed InputComesBack

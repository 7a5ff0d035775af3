CONSTANTS
  Edit = {name, mail, age, sum}
  Numeric = {age, sum}
  Low = {mail, sum}
  Other = other
  NoWidget = NoWidget
  MaxKeyboard = 3
  DefaultHeight = 2
  NumericHeight = 2
  OncePerRound = TRUE
SPECIFICATION FairSpec
INVARIANTS NoOrphan KeyboardFollowsFocus WindowComesBack
PROPERTIES FocusOpensKeyboard

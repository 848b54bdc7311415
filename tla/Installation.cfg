SPECIFICATION FairSpec
CONSTANTS
  Slots = {p1, p2}
  None = None
  p1 = p1
  p2 = p2
  MaxLogins = 2
  MaxCrashes = 1
  MaxCommands = 2
  MaxEdits = 1
INVARIANTS LogoutSilences
PROPERTIES ComesBack
CHECK_DEADLOCK FALSE

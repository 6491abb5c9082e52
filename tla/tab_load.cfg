SPECIFICATION Spec
CONSTANTS
  home = home
  goal = goal
  chrome = chrome
  blank = blank
  None = None
  Urls <- MCUrls
  Internal <- MCInternal
  Refused <- MCRefused
  MaxMoves = 1
INVARIANTS TypeOK GotoArrives NoLoadMissed
PROPERTY CallEnds
CHECK_DEADLOCK FALSE

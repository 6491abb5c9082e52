SPECIFICATION Spec
CONSTANTS
  t1 = t1
  t2 = t2
  w1 = w1
  w2 = w2
  w3 = w3
  c1 = c1
  Tabs <- MCTwoTabs
  Windows <- MCWindows
  Window = w1
  Calls <- MCCalls
  Kinds = {"goto"}
  None = none
  MaxMoves = 0
  CanRebind = FALSE
SYMMETRY OtherSymmetry
INVARIANTS TouchedWasOurs
CHECK_DEADLOCK FALSE

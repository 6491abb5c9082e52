SPECIFICATION Spec
CONSTANTS
  t1 = t1
  t2 = t2
  w1 = w1
  w2 = w2
  w3 = w3
  c1 = c1
  Tabs <- MCTwoTabs
  Windows <- MCWindows
  Window = w1
  Calls <- MCCalls
  Kinds = {"relay", "native"}
  None = none
  MaxMoves = 2
  CanRebind = TRUE
SYMMETRY OtherSymmetry
INVARIANTS TypeOK PointerCatchesUp TouchedWasOurs
CHECK_DEADLOCK FALSE

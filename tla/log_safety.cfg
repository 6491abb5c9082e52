SPECIFICATION Spec
CONSTANTS
  Tabs = {t1, t2}
  Requests = {r1, r2, r3}
  MAX_PER_TAB = 2
  MAX_GLOBAL = 3
  MaxEntries = 5
SYMMETRY Symmetry
INVARIANTS TypeOK KeepsTheLatest TellsItsOwnEnd
CHECK_DEADLOCK FALSE

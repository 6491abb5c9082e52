SPECIFICATION Spec
CONSTANTS
  MaxCalls = 3
  MaxCells = 2
  CanAbort = TRUE
INVARIANTS TypeOK EachCallOnce StatusTellsOfCalls
PROPERTY CellEnds
CHECK_DEADLOCK FALSE

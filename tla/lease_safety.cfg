SPECIFICATION Spec
CONSTANTS
  MaxElements = 3
  d1 = d1
  d2 = d2
  Looks <- MCLooks
  Drawn <- MCDrawn
  Copies = TRUE
  None = none
INVARIANTS TypeOK ActsAsShownIfUnique
PROPERTY AllocatedIsFree
CHECK_DEADLOCK FALSE

SPECIFICATION Spec
CONSTANTS
  p1 = p1
  m1 = m1
  Calls <- MCCalls
  PageCalls <- MCPageCalls
  MaxPending = 1
INVARIANTS TypeOK TablesExact CancelsAreSafe
PROPERTIES RefinesAsyncCall NothingHangs
CHECK_DEADLOCK FALSE

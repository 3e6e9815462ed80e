SPECIFICATION Spec
CONSTANTS
  Tables <- MCTables
  PageSize = 2
  OtherSize = 4
  FirstRows <- MCFirstRows
  NewRow <- MCNewRow
  Touched <- MCTouched
  Found <- MCFound
  Typed <- MCTyped
  MaxRequests = 3
  MaxArrays = 3
  MaxOutstanding = 2
  MaxFaults = 1
INVARIANTS
  OutcomeOnItsRow
  CalmScreen
  PagesInOrder
PROPERTIES
  LoadingEnds
CHECK_DEADLOCK FALSE

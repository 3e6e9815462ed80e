SPECIFICATION Spec
CONSTANTS
  Forms <- MCForms
  Ids = {1, 2}
  Self = 3
  TokenCount = 2
  MaxOpens = 2
  MaxRequests = 3
  MaxOutstanding = 2
  MaxHasty = 2
  MaxFaults = 1
  MaxChanges = 1
INVARIANTS
  OwnColumns
  ConvertedOnce
  OneAddition
  FormShowsRecord
PROPERTIES
  EditorReturns
CHECK_DEADLOCK FALSE

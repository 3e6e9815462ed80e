SPECIFICATION Spec
CONSTANTS
  Sections <- AllSections
  Options <- MCOptions
  MaxTyped = 2
  MaxRequests = 3
  MaxOutstanding = 2
  MaxHasty = 1
  MaxFaults = 1
  MaxChanges = 1
INVARIANTS
  SecretsKept
  NothingUnasked
  ShownIsStored
  WarnedBeforeOff
PROPERTIES
  SavingEnds
CHECK_DEADLOCK FALSE

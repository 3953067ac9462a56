SPECIFICATION Spec
CONSTANTS
  Limits = {1, 2}
  MaxRows = 3
  MaxSecond = 3
INVARIANTS TypeOK QuietListingComplete InsertsHideNothing DeparturesRepeatNothing BalanceCoversEntries
CHECK_DEADLOCK FALSE

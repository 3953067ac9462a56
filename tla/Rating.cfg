SPECIFICATION Spec
CONSTANTS
  Types <- MCTypes
  Scale = 4
  MaxCdrs = 3
  MaxQuantity = 5
  MaxRate = 3
INVARIANTS BillErrorBounded NoAggregateBias
CHECK_DEADLOCK FALSE

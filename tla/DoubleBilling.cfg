SPECIFICATION Spec
CONSTANTS
  alice = alice
  bob = bob
  c1 = c1
  c2 = c2
  Users = {alice}
  Cdrs = {c1, c2}
  CdrUser <- MCCdrUserOne
  Services = {"CALL"}
  Rates = {1, 4}
  Price <- MCPrice
  BillCap = 5
  LedgerCap = 3
  w1 = w1
  w2 = w2
  Workers = {w1, w2}
  NoRow = NoRow
  NoUser = NoUser
  MaxBills = 2
  MaxEntries = 3
SYMMETRY WorkerSymmetry
INVARIANT NoDoubleBilling
CHECK_DEADLOCK FALSE

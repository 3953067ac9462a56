SPECIFICATION MCPooledSpec
CONSTANTS
  alice = alice
  bob = bob
  c1 = c1
  c2 = c2
  Users = {alice, bob}
  Cdrs = {c1, c2}
  CdrUser <- MCCdrUserTwo
  Services = {"CALL"}
  Rates = {2}
  Price <- MCPrice
  BillCap = 5
  LedgerCap = 3
  w1 = w1
  w2 = w2
  Workers = {w1, w2}
  NoRow = NoRow
  NoUser = NoUser
  MaxBills = 2
  MaxEntries = 3
  auditor = auditor
  Auditors = {auditor}
  Clients = {w1, w2, auditor}
  pod1 = pod1
  pod2 = pod2
  Pods = {pod1, pod2}
  PodOf <- MCPodOf
  ConnectionLimit = 1
INVARIANTS LedgerOwesUnpaid ConnectionsAccountedFor AuditCrossCheck AlarmsAreTrue
PROPERTIES ImplementsLedger ClientsServed
CHECK_DEADLOCK FALSE

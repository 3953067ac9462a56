SPECIFICATION Spec
CONSTANTS
  ip1 = ip1
  ann = ann
  Emails = {ann}
  Ips = {ip1}
  Rows = {1, 2, 3, 4}
  MaxAttempts = 2
  AttemptWindow = 2
  NoRow = NoRow
  Pods = {1}
  Workers = {1, 2}
  Requests <- MCRequests
  AuthMax = 2
  MaxHits = 3
  NoRequest = NoRequest
INVARIANT EntitledAreServed

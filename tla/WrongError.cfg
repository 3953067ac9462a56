SPECIFICATION Spec
CONSTANTS
  call = call
  again = again
  plain = plain
  stray = stray
  bad = bad
  key1 = key1
  NoKey = NoKey
  NoCdr = NoCdr
  Submissions = {call, again, plain, stray, bad}
  Wellformed = {call, again, plain, stray}
  Storable = {call, again, plain}
  Key <- MCKey
  Workers = {w1, w2}
  Admins = {root1, root2}
  Nobody = Nobody
  NoItem = NoItem
  MaxSends = 2
  MaxItems = 4
INVARIANT ValidationErrorReported
CHECK_DEADLOCK FALSE

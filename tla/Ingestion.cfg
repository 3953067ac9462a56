SPECIFICATION Spec
SYMMETRY Symmetry
CONSTANTS
  call = call
  again = again
  plain = plain
  stray = stray
  bad = bad
  key1 = key1
  NoKey = NoKey
  NoCdr = NoCdr
  Submissions = {call, again, stray, bad}
  Wellformed = {call, again, stray}
  Storable = {call, again}
  Key <- MCKey
  Workers = {w1, w2}
  Admins = {root1}
  Nobody = Nobody
  NoItem = NoItem
  MaxSends = 3
  MaxItems = 6
INVARIANTS TypeOK KeyStoredOnce AnswerIsTrue
PROPERTY DecisionsStand
CHECK_DEADLOCK FALSE

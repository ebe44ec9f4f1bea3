CONSTANTS
  o1 = o1
  i1 = i1
  e1 = e1
  e2 = e2
  w1 = w1
  w2 = w2
  r1 = r1
  p1 = p1
  p2 = p2
  NoBody = NoBody
  Operations = {o1}
  Investigations = {}
  Events = {e1}
  Bodies <- StatusBodies
  References = {}
  Workers = {w1, w2}
  Requests = {r1}
  MAX_ATTEMPTS = 2
  LeaseTicks = 1
  BatchSize = 2
SPECIFICATION FairSpec
CHECK_DEADLOCK FALSE
INVARIANT InboxLedger
PROPERTY CallbackSettles

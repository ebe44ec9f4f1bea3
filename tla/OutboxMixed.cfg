CONSTANTS
  o1 = o1
  o2 = o2
  i1 = i1
  t1 = t1
  w1 = w1
  w2 = w2
  r1 = r1
  r2 = r2
  ThreadOf <- SharedThread
  Kinds <- TwoKinds
  Threads = {t1}
  Operations = {o1}
  Investigations = {i1}
  Workers = {w1}
  Requests = {r1}
  MAX_ATTEMPTS = 1
  LeaseTicks = 1
  BatchSize = 2
  MaxCases = 0
SPECIFICATION Spec
CHECK_DEADLOCK FALSE
INVARIANT InvestigationHistory
PROPERTY OutboxImplementsLifecycle

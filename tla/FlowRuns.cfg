CONSTANTS
  m1 = m1
  m2 = m2
  m3 = m3
  t1 = t1
  t2 = t2
  o1 = o1
  o2 = o2
  Operations = {m1, m2, m3}
  Investigations = {}
  Threads = {t1, t2}
  Orders = {o1, o2}
  ThreadOf <- ThreadOfMessage
  OrderOf <- OrderOfMessage
  ManualDecisions = {m2, m3}
  MAX_WRITE_ATTEMPTS = 2
  MaxVersion = 3
  MaxCases = 2
  MaxCrashes = 1
SPECIFICATION FairSpec
CHECK_DEADLOCK FALSE
INVARIANT OneActivePerOrder
INVARIANT TruthfulAnswers
INVARIANT ReviewHandedOver
PROPERTY Lifecycle
PROPERTY RunsComeToRest

CONSTANTS
  o1 = o1
  o2 = o2
  i1 = i1
  t1 = t1
  w1 = w1
  w2 = w2
  r1 = r1
  r2 = r2
  ThreadOf <- SharedThread
  Kinds <- TwoKinds
  Threads = {t1}
  Operations = {o1}
  Investigations = {}
  Workers = {w1, w2}
  Requests = {r1}
  MAX_ATTEMPTS = 2
  LeaseTicks = 1
  BatchSize = 2
  MaxCases = 0
SPECIFICATION FairSpec
CHECK_DEADLOCK FALSE
INVARIANT TypeOK
INVARIANT LeaseLedger
INVARIANT AttemptBudget
INVARIANT OperationFollowsCommand
INVARIANT ProviderAgreement
INVARIANT OneEventPerCycle
INVARIANT CyclesAudited
INVARIANT DeadIsRedrivable
INVARIANT NeverPoisoned
PROPERTY DecisionIsFinal
PROPERTY Settles

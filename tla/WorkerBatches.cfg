SPECIFICATION FairSpec
CONSTANTS
  c1 = c1 c2 = c2 c3 = c3 n1 = n1
  Commands = {c1, c2, c3}
  Connections = {n1}
  ConnectionOf <- MCConnectionOf
  BatchSize = 3
  max_concurrency <- MCConcurrency
  interval <- MCInterval
  MaxAhead = 4
INVARIANT NothingOutlives
INVARIANT RateKept
CHECK_DEADLOCK FALSE
PROPERTY BatchEnds

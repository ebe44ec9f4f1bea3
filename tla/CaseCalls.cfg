CONSTANTS
  None = None
  k1 = k1
  k2 = k2
  a1 = a1
  a2 = a2
  h1 = h1
  h2 = h2
  h3 = h3
  s1 = s1
  s2 = s2
  s3 = s3
  r1 = r1
  r2 = r2
  Calls = {h1, h2, h3, s1, s2, s3, r1, r2}
  Workloads <- MCWorkloads
  CaseIds = {k1, k2}
  Agents = {a1, a2}
  Threads = {"t"}
  Messages = {"m1", "m2", "m3"}
  OrderIds = {"o1"}
  RequestIds = {"q1", "q2", "q3", "q4"}
  MAX_WRITE_ATTEMPTS = 3
SPECIFICATION Spec
CHECK_DEADLOCK FALSE
INVARIANT RowIsItsHistory
INVARIANT HandoffRecordedOnce
INVARIANT AgentsActOnTheirCases
INVARIANT InvestigationSentOnce

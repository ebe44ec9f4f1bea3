CONSTANTS
  None = None
  RETURN_WINDOW = 2
  TRACKING_STALLED = 2
  Thresholds <- MCThresholds
  Snapshots <- AllSnapshots
  Horizon = 5
SPECIFICATION OrderSpec
CHECK_DEADLOCK FALSE
INVARIANT EligibleExactly
INVARIANT ReviewAsRecommended

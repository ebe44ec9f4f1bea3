CONSTANTS
  None = None
  RETURN_WINDOW = 2
  TRACKING_STALLED = 2
  Thresholds <- MCThresholds
  Now = 3
  HardMatches <- MCHardMatches
  RiskFindings <- MCRiskFindings
  Intents = {"refund_request", "order_inquiry", "complaint", "cancellation_request", "delivery_issue", "support_case_status"}
  Complaints <- MCComplaints
  Extractions <- MCExtractions
  Snapshots <- MCSnapshots
  RefundOrders <- MCRefundOrders
  REFUND_DAYS = 1
  REFUND_LIMIT = 2
  Connected = {TRUE, FALSE}
  MaxTurns = 3
SPECIFICATION Spec
CHECK_DEADLOCK FALSE
INVARIANT SupportedByThisTurn
INVARIANT SafetyFirst
INVARIANT HeardIsKept

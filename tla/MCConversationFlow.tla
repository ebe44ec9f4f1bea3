------------------------- MODULE MCConversationFlow -------------------------
(* Instances of ConversationFlow: an order that is open, shipped with stalled *)
(* tracking, or delivered, and a few classifications of each kind, among them *)
(* levels without a category, which the case policy refuses.                  *)
EXTENDS ConversationFlow

Order(order_status, fulfillment_status, shipped_at, delivered_at) ==
  [order_status |-> order_status, payment_status |-> "paid",
   fulfillment_status |-> fulfillment_status, amount |-> 1, currency |-> "USD",
   created_at |-> 0, shipped_at |-> shipped_at, delivered_at |-> delivered_at,
   promised_delivery_at |-> 1, last_tracking_event_at |-> 0,
   return_eligible |-> TRUE, exchange_eligible |-> TRUE, existing_operations |-> {}]

MCThresholds == [USD |-> 2]

MCSnapshots ==
  {Order("confirmed", "unfulfilled", None, None), Order("confirmed", "processing", None, None),
   Order("confirmed", "shipped", 0, None), Order("confirmed", "delivered", 0, 2)}
MCHardMatches == {{}, {"self_harm", "legal"}}
MCRiskFindings ==
  {[level |-> "none", categories |-> {}], [level |-> "medium", categories |-> {"legal"}],
   [level |-> "high", categories |-> {"violence"}], [level |-> "low", categories |-> {}],
   [level |-> "critical", categories |-> {}]}
MCComplaints ==
  {[severity |-> "absent", other |-> FALSE], [severity |-> "critical", other |-> FALSE],
   [severity |-> "absent", other |-> TRUE]}
MCExtractions ==
  {[type |-> t, issue |-> None, ambiguous |-> FALSE] : t \in {"cancellation", "return"}}
    \cup
  {[type |-> None, issue |-> "tracking_stalled", ambiguous |-> FALSE],
   [type |-> None, issue |-> None, ambiguous |-> TRUE]}
MCRefundOrders ==
  {[age |-> 1, status |-> "delivered", refunded |-> FALSE, amount |-> a] : a \in {1, 2}}
    \cup {[age |-> 2, status |-> "delivered", refunded |-> FALSE, amount |-> 1]}
=============================================================================

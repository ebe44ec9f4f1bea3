-------------------------- MODULE MCOrderDecisions --------------------------
(* Instances of OrderDecisions.  Payment statuses and currencies that the     *)
(* policy does not tell apart are represented once.                           *)
EXTENDS OrderDecisions

MCThresholds == [USD |-> 2]

Snapshot(f) ==
  [order_status |-> f.order_status, payment_status |-> f.payment_status,
   fulfillment_status |-> f.fulfillment_status, amount |-> f.amount, currency |-> f.currency,
   created_at |-> 1, shipped_at |-> f.shipped_at, delivered_at |-> f.delivered_at,
   promised_delivery_at |-> f.promised_delivery_at,
   last_tracking_event_at |-> f.last_tracking_event_at,
   return_eligible |-> f.return_eligible, exchange_eligible |-> f.exchange_eligible,
   existing_operations |-> f.existing_operations]

OrderStatuses == {"pending_payment", "confirmed", "cancelled", "completed"}
FulfillmentStatuses == {"unfulfilled", "processing", "shipped", "delivered"}

(* What decides operations. *)
OperationSnapshots ==
  {Snapshot(f) : f \in
    [order_status : OrderStatuses, payment_status : {"paid", "refund_pending", "refunded"},
     fulfillment_status : FulfillmentStatuses, amount : {1, 2}, currency : {"USD", "EUR"},
     shipped_at : {None, 1}, delivered_at : {None, 0, 1, 2},
     promised_delivery_at : {None}, last_tracking_event_at : {None},
     return_eligible : {TRUE, FALSE, None}, exchange_eligible : {TRUE, FALSE, None},
     existing_operations : {{}, {"rejected"}, {"rejected", "completed"}}]}

(* What decides delivery issues. *)
DeliverySnapshots ==
  {Snapshot(f) : f \in
    [order_status : OrderStatuses, payment_status : {"paid"},
     fulfillment_status : FulfillmentStatuses, amount : {1}, currency : {"USD"},
     shipped_at : {None, 1}, delivered_at : {None, 0, 2},
     promised_delivery_at : {None, 1, 2}, last_tracking_event_at : {None, 1, 2, 3},
     return_eligible : {None}, exchange_eligible : {None}, existing_operations : {{}}]}
AllSnapshots == OperationSnapshots \cup DeliverySnapshots
=============================================================================

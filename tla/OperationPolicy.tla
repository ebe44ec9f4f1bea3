-------------------------- MODULE OperationPolicy ---------------------------
(* agent.operations.policy: what may be done with an order, decided from the  *)
(* snapshot its order system returns.  A decision is its outcome, its reason  *)
(* code and, for manual review, the priority it recommends for the case.      *)
(* Times are integers; the two windows are given in the same unit.            *)
EXTENDS Integers

CONSTANTS
  None,
  RETURN_WINDOW,     \* RETURN_WINDOW_DAYS
  TRACKING_STALLED,  \* TRACKING_STALLED_HOURS
  Thresholds,        \* CurrencyThresholds: configured currency -> amount
  Snapshots          \* order snapshots an order system may return

ASSUME WindowsTyped == RETURN_WINDOW \in Nat /\ TRACKING_STALLED \in Nat

Availability == {TRUE, FALSE, None}

(* What the policy relies on of an OrderSnapshot and of CurrencyThresholds:   *)
(* the types of the fields it compares.                                       *)
ASSUME SnapshotsTyped ==
  /\ None \notin Int /\ None \notin BOOLEAN
  /\ \A s \in Snapshots :
       /\ s.fulfillment_status \in {"unfulfilled", "processing", "shipped", "delivered"}
       /\ {s.delivered_at, s.promised_delivery_at, s.last_tracking_event_at}
            \subseteq Int \cup {None}
       /\ {s.return_eligible, s.exchange_eligible} \subseteq Availability
       /\ s.amount \in Int
  /\ \A c \in DOMAIN Thresholds : Thresholds[c] \in Int

OperationType == {"cancellation", "return", "exchange"}
DeliveryIssueType ==
  {"tracking_stalled", "delayed", "delivery_failed", "marked_delivered_not_received",
   "package_damaged", "wrong_item_or_missing_parts", "other_delivery_issue"}

Decision(outcome, reason, priority) ==
  [outcome |-> outcome, reason |-> reason, priority |-> priority]

eligible(reason) == Decision("eligible", reason, None)
rejected(reason) == Decision("rejected", reason, None)
manual(reason, priority) == Decision("manual_review", reason, priority)

-----------------------------------------------------------------------------
(* A snapshot whose facts contradict each other is decided by a human. *)
has_contradictory_lifecycle(s) ==
  \/ (s.fulfillment_status = "delivered") # (s.delivered_at # None)
  \/ s.fulfillment_status = "unfulfilled" /\ s.shipped_at # None
  \/ s.fulfillment_status \in {"shipped", "delivered"} /\ s.shipped_at = None
  \/ s.order_status \in {"pending_payment", "cancelled"} /\ s.fulfillment_status # "unfulfilled"
  \/ s.delivered_at # None /\ s.delivered_at < s.created_at

ACTIVE_OPERATION_STATUSES ==
  {"queued", "submitted", "processing", "manual_review", "completed"}

conflicting_operation(s) == s.existing_operations \cap ACTIVE_OPERATION_STATUSES # {}

evaluate_cancellation(s) ==
  CASE s.order_status = "cancelled" ->
         Decision("already_completed", "order_already_cancelled", None)
    [] s.order_status # "cancelled" /\ s.payment_status \in {"refund_pending", "refunded"} ->
         rejected("cancellation_payment_already_refunded")
    [] OTHER ->
         CASE s.fulfillment_status \in {"shipped", "delivered"} ->
                rejected("cancellation_fulfillment_started")
           [] s.fulfillment_status = "processing" ->
                manual("cancellation_fulfillment_processing", "p1")
           [] s.fulfillment_status = "unfulfilled" ->
                IF s.order_status \in {"pending_payment", "confirmed"}
                THEN eligible("cancellation_eligible")
                ELSE manual("cancellation_state_invalid", "p1")

(* Mutant: the last instant of the window is refused. *)
WindowExclusive(s, now) == now >= s.delivered_at + RETURN_WINDOW

PastWindow(s, now) == now > s.delivered_at + RETURN_WINDOW

(* Returns and exchanges of a delivered order, within the window. *)
within_window(type, s) ==
  LET eligibility == IF type = "return" THEN s.return_eligible ELSE s.exchange_eligible
      Of(r, e) == IF type = "return" THEN r ELSE e
  IN CASE eligibility = FALSE ->
            rejected(Of("return_not_eligible", "exchange_not_eligible"))
       [] eligibility = None ->
            manual(Of("return_eligibility_unknown", "exchange_eligibility_unknown"), "p1")
       [] eligibility = TRUE ->
            IF s.currency \notin DOMAIN Thresholds
            THEN manual("currency_threshold_unconfigured", "p1")
            ELSE IF type = "return" /\ s.amount >= Thresholds[s.currency]
            THEN manual("return_manual_amount_review", "p1")
            ELSE eligible(Of("return_eligible", "exchange_eligible"))

evaluate_return_or_exchange(type, s, now) ==
  CASE s.payment_status \in {"refund_pending", "refunded"} ->
         rejected("operation_payment_already_refunded")
    [] s.payment_status \notin {"refund_pending", "refunded"}
       /\ s.fulfillment_status # "delivered" -> rejected("operation_not_delivered")
    [] OTHER ->
         IF s.delivered_at = None THEN manual("operation_delivery_date_invalid", "p1")
         ELSE IF s.delivered_at > now THEN manual("operation_delivery_date_invalid", "p1")
         ELSE IF PastWindow(s, now) THEN rejected("operation_return_window_expired")
         ELSE within_window(type, s)

(* Mutant: an exchange waiting for inventory asks for an urgent case. *)
UrgentExchange(s, now, replacement_available) ==
  LET base == evaluate_return_or_exchange("exchange", s, now) IN
  IF base.outcome # "eligible" \/ replacement_available = TRUE THEN base
  ELSE manual("exchange_inventory_unknown", "p1")

evaluate_exchange(s, now, replacement_available) ==
  LET base == evaluate_return_or_exchange("exchange", s, now) IN
  CASE base.outcome # "eligible" -> base
    [] base.outcome = "eligible" /\ replacement_available = FALSE ->
         rejected("exchange_replacement_unavailable")
    [] base.outcome = "eligible" /\ replacement_available = None ->
         manual("exchange_inventory_unknown", "p2")
    [] OTHER -> eligible("exchange_eligible")

evaluate_operation(type, s, now, replacement_available) ==
  IF has_contradictory_lifecycle(s) THEN manual("order_state_invalid", "p1")
  ELSE IF conflicting_operation(s)
  THEN Decision("existing_operation", "operation_already_exists", None)
  ELSE CASE type = "cancellation" -> evaluate_cancellation(s)
         [] type = "return" -> evaluate_return_or_exchange("return", s, now)
         [] type = "exchange" -> evaluate_exchange(s, now, replacement_available)

-----------------------------------------------------------------------------
self_service(reason) == Decision("self_service", reason, None)

evaluate_tracking_stalled(s, now) ==
  IF s.fulfillment_status # "shipped" \/ s.last_tracking_event_at = None
  THEN manual("delivery_data_invalid", "p1")
  ELSE IF s.last_tracking_event_at > now THEN manual("delivery_data_invalid", "p1")
  ELSE IF now - s.last_tracking_event_at >= TRACKING_STALLED
  THEN manual("delivery_tracking_stalled", "p1")
  ELSE self_service("delivery_tracking_recent")

evaluate_delayed(s, now, investigation_requested) ==
  IF s.promised_delivery_at = None THEN manual("delivery_data_invalid", "p1")
  ELSE IF s.fulfillment_status = "delivered" \/ now <= s.promised_delivery_at
  THEN self_service("delivery_not_overdue")
  ELSE IF investigation_requested \/ s.last_tracking_event_at = None
  THEN manual("delivery_overdue_investigation", "p2")
  ELSE self_service("delivery_overdue")

evaluate_delivery_issue(issue, s, now, investigation_requested) ==
  IF has_contradictory_lifecycle(s) THEN manual("delivery_data_invalid", "p1")
  ELSE CASE issue = "tracking_stalled" -> evaluate_tracking_stalled(s, now)
         [] issue = "delayed" -> evaluate_delayed(s, now, investigation_requested)
         [] issue = "delivery_failed" -> manual("delivery_failed", "p2")
         [] issue = "marked_delivered_not_received" ->
              manual("delivery_marked_received_dispute", "p1")
         [] issue = "package_damaged" -> manual("delivery_damage_claim", "p1")
         [] issue = "wrong_item_or_missing_parts" ->
              Decision("offer_return_exchange", "delivery_wrong_item_or_missing_parts_claim",
                        None)
         [] issue = "other_delivery_issue" -> manual("delivery_other_issue", "p2")
=============================================================================

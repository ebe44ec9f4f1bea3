---------------------- MODULE ConversationFlow_proofs -----------------------
(* What the policies decide, for every snapshot of an order, every instant,  *)
(* every window and every table of amounts; and what a turn of a conversation *)
(* does with it, for every message, classification, answer and number of     *)
(* turns.                                                                    *)
EXTENDS ConversationFlow, OrderDecisions, TLAPS

(* The operation policy. *)
LEMMA CancellationOutcome ==
  ASSUME NEW s \in Snapshots
  PROVE  evaluate_cancellation(s).outcome = "eligible" <=>
           /\ s.payment_status \notin {"refund_pending", "refunded"}
           /\ s.order_status \in {"pending_payment", "confirmed"}
           /\ s.fulfillment_status = "unfulfilled"
<1>1. s.fulfillment_status \in {"unfulfilled", "processing", "shipped", "delivered"}
  BY SnapshotsTyped
<1>2. CASE s.order_status = "cancelled"
  BY <1>2 DEF evaluate_cancellation, Decision
<1>3. CASE s.order_status # "cancelled" /\ s.payment_status \in {"refund_pending", "refunded"}
  BY <1>3 DEF evaluate_cancellation, rejected, Decision
<1>4. CASE s.order_status # "cancelled" /\ s.payment_status \notin {"refund_pending", "refunded"}
  BY <1>1, <1>4 DEF evaluate_cancellation, rejected, manual, eligible, Decision
<1> QED
  BY <1>2, <1>3, <1>4

Allowed(type, s) == IF type = "return" THEN s.return_eligible ELSE s.exchange_eligible

LEMMA WithinOutcome ==
  ASSUME NEW s \in Snapshots, NEW type \in {"return", "exchange"}
  PROVE  within_window(type, s).outcome = "eligible" <=>
           /\ Allowed(type, s) = TRUE /\ s.currency \in DOMAIN Thresholds
           /\ type = "return" => s.amount < Thresholds[s.currency]
<1>1. Allowed(type, s) \in {TRUE, FALSE, None} /\ None # TRUE /\ None # FALSE
  BY SnapshotsTyped, Zenon DEF Allowed, Availability
<1>2. s.currency \in DOMAIN Thresholds => s.amount \in Int /\ Thresholds[s.currency] \in Int
  BY SnapshotsTyped
<1>3. CASE Allowed(type, s) = FALSE
  BY <1>1, <1>3, Zenon DEF within_window, Allowed, rejected, Decision
<1>4. CASE Allowed(type, s) = None
  BY <1>1, <1>4, Zenon DEF within_window, Allowed, manual, Decision
<1>5. CASE Allowed(type, s) = TRUE
  BY <1>1, <1>2, <1>5 DEF within_window, Allowed, manual, eligible, Decision
<1> QED
  BY <1>1, <1>3, <1>4, <1>5, Zenon

LEMMA ReturnOutcome ==
  ASSUME NEW s \in Snapshots, NEW type \in {"return", "exchange"}, NEW t \in Int,
         ~has_contradictory_lifecycle(s)
  PROVE  evaluate_return_or_exchange(type, s, t).outcome = "eligible" <=>
           /\ s.payment_status \notin {"refund_pending", "refunded"}
           /\ s.fulfillment_status = "delivered"
           /\ t - s.delivered_at \in 0 .. RETURN_WINDOW
           /\ Allowed(type, s) = TRUE /\ s.currency \in DOMAIN Thresholds
           /\ type = "return" => s.amount < Thresholds[s.currency]
<1>1. CASE s.payment_status \in {"refund_pending", "refunded"}
  BY <1>1 DEF evaluate_return_or_exchange, rejected, Decision
<1>2. CASE s.payment_status \notin {"refund_pending", "refunded"}
           /\ s.fulfillment_status # "delivered"
  BY <1>2 DEF evaluate_return_or_exchange, rejected, Decision
<1>3. CASE s.payment_status \notin {"refund_pending", "refunded"}
           /\ s.fulfillment_status = "delivered"
  <2>1. s.delivered_at \in Int /\ s.delivered_at # None
    BY <1>3, SnapshotsTyped DEF has_contradictory_lifecycle
  <2>2. evaluate_return_or_exchange(type, s, t) =
          IF s.delivered_at > t THEN manual("operation_delivery_date_invalid", "p1")
          ELSE IF PastWindow(s, t) THEN rejected("operation_return_window_expired")
          ELSE within_window(type, s)
    BY <1>3, <2>1 DEF evaluate_return_or_exchange
  <2>3. t - s.delivered_at \in 0 .. RETURN_WINDOW <=> ~(s.delivered_at > t) /\ ~PastWindow(s, t)
    BY <2>1, WindowsTyped DEF PastWindow
  <2>4. manual("operation_delivery_date_invalid", "p1").outcome # "eligible"
        /\ rejected("operation_return_window_expired").outcome # "eligible"
    BY DEF manual, rejected, Decision
  <2> QED
    BY <1>3, <2>2, <2>3, <2>4, WithinOutcome, Zenon
<1> QED
  BY <1>1, <1>2, <1>3, Zenon

LEMMA ExchangeOutcome ==
  ASSUME NEW s \in Snapshots, NEW t \in Int, NEW a \in Availability
  PROVE  evaluate_exchange(s, t, a).outcome = "eligible" <=>
           evaluate_return_or_exchange("exchange", s, t).outcome = "eligible" /\ a = TRUE
<1> DEFINE base == evaluate_return_or_exchange("exchange", s, t)
<1>1. a \in {TRUE, FALSE, None} /\ None # TRUE /\ None # FALSE
  BY SnapshotsTyped, Zenon DEF Availability
<1>2. CASE base.outcome # "eligible"
  BY <1>2 DEF evaluate_exchange
<1>3. CASE base.outcome = "eligible" /\ a = FALSE
  BY <1>1, <1>3, Zenon DEF evaluate_exchange, rejected, Decision
<1>4. CASE base.outcome = "eligible" /\ a = None
  BY <1>1, <1>4, Zenon DEF evaluate_exchange, manual, Decision
<1>5. CASE base.outcome = "eligible" /\ a = TRUE
  BY <1>1, <1>5, Zenon DEF evaluate_exchange, eligible, Decision
<1> QED
  BY <1>1, <1>2, <1>3, <1>4, <1>5, Zenon

LEMMA Eligible ==
  ASSUME snapshot \in Snapshots, now \in Int, NEW type \in OperationType,
         NEW a \in Availability
  PROVE  Outcome(type, a).outcome = "eligible" <=> Automatic(type, a)
<1>1. CASE has_contradictory_lifecycle(snapshot)
  BY <1>1 DEF Outcome, evaluate_operation, Automatic, manual, Decision
<1>2. CASE ~has_contradictory_lifecycle(snapshot) /\ conflicting_operation(snapshot)
  BY <1>2 DEF Outcome, evaluate_operation, Automatic, Decision
<1>3. CASE ~has_contradictory_lifecycle(snapshot) /\ ~conflicting_operation(snapshot)
  <2>1. CASE type = "cancellation"
    <3>1. Outcome(type, a) = evaluate_cancellation(snapshot)
      BY <1>3, <2>1 DEF Outcome, evaluate_operation
    <3> QED
      BY <1>3, <2>1, <3>1, CancellationOutcome DEF Automatic
  <2>2. CASE type = "return"
    <3>1. Outcome(type, a) = evaluate_return_or_exchange("return", snapshot, now)
      BY <1>3, <2>2 DEF Outcome, evaluate_operation
    <3>2. Allowed("return", snapshot) = snapshot.return_eligible
      BY DEF Allowed
    <3> QED
      BY <1>3, <2>2, <3>1, <3>2, ReturnOutcome, Zenon DEF Automatic
  <2>3. CASE type = "exchange"
    <3>1. Outcome(type, a) = evaluate_exchange(snapshot, now, a)
      BY <1>3, <2>3 DEF Outcome, evaluate_operation
    <3>2. Allowed("exchange", snapshot) = snapshot.exchange_eligible
      BY DEF Allowed
    <3>3. Outcome(type, a).outcome = "eligible" <=>
            evaluate_return_or_exchange("exchange", snapshot, now).outcome = "eligible" /\ a = TRUE
      BY <3>1, ExchangeOutcome, Zenon
    <3>4. evaluate_return_or_exchange("exchange", snapshot, now).outcome = "eligible" <=>
            /\ snapshot.payment_status \notin {"refund_pending", "refunded"}
            /\ snapshot.fulfillment_status = "delivered"
            /\ now - snapshot.delivered_at \in 0 .. RETURN_WINDOW
            /\ snapshot.exchange_eligible = TRUE /\ snapshot.currency \in DOMAIN Thresholds
      BY <1>3, <3>2, ReturnOutcome, Zenon
    <3> QED
      BY <1>3, <2>3, <3>3, <3>4 DEF Automatic
  <2> QED
    BY <2>1, <2>2, <2>3 DEF OperationType
<1> QED
  BY <1>1, <1>2, <1>3

OrderInv == snapshot \in Snapshots /\ now \in Int

LEMMA OrderInvariance == OrderSpec => []OrderInv
<1>1. OrderInit => OrderInv
  BY DEF OrderInit, OrderInv
<1>2. OrderInv /\ [OrderNext]_order_vars => OrderInv'
  BY DEF OrderInv, OrderNext, TimePasses, order_vars
<1> QED
  BY <1>1, <1>2, PTL DEF OrderSpec

(* For every order, instant, return window and table of amounts,             *)
(* evaluate_operation finds an operation eligible exactly when the business  *)
(* rules allow it without a human.                                           *)
THEOREM EligibilitySafety == OrderSpec => []EligibleExactly
<1>1. OrderInv => EligibleExactly
  <2> SUFFICES ASSUME OrderInv, NEW type \in OperationType, NEW a \in Availability
               PROVE  (Outcome(type, a).outcome = "eligible") = Automatic(type, a)
    BY DEF EligibleExactly
  <2>1. Outcome(type, a).outcome = "eligible" <=> Automatic(type, a)
    BY Eligible DEF OrderInv
  <2>2. Automatic(type, a) \in BOOLEAN
    BY DEF Automatic, OperationType
  <2> QED
    BY <2>1, <2>2
<1> QED
  BY <1>1, OrderInvariance, PTL
-----------------------------------------------------------------------------
(* A reason the policy gives with a priority, as the handoff policy has it. *)
Known(type, reason, priority) ==
  /\ <<reason>> \in DomainReasons /\ ReasonCaseType(<<reason>>) = type
  /\ ReasonPriority(<<reason>>) = PriorityRank(priority)

LEMMA OrderReasonsKnown ==
  /\ \A r \in OrderReviewReasons \ {"exchange_inventory_unknown"} :
       Known("order_operation_review", r, "p1")
  /\ Known("order_operation_review", "exchange_inventory_unknown", "p2")
<1>1. ASSUME NEW r \in OrderReviewReasons
      PROVE  <<r>> \in DomainReasons /\ ReasonCaseType(<<r>>) = "order_operation_review"
  <2>1. <<r>>[1] = r
    OBVIOUS
  <2> QED
    BY <2>1 DEF DomainReasons, ReasonCaseType, OrderReviewReasons, DeliveryReasons
<1>2. ASSUME NEW r \in OrderReviewReasons \ {"exchange_inventory_unknown"}
      PROVE  ReasonPriority(<<r>>) = 1
  <2>1. <<r>>[1] = r
    OBVIOUS
  <2> QED
    BY <2>1 DEF ReasonPriority, OrderReviewReasons
<1>3. ReasonPriority(<<"exchange_inventory_unknown">>) = 2
  BY DEF ReasonPriority
<1>4. PriorityRank("p1") = 1 /\ PriorityRank("p2") = 2
  BY DEF PriorityRank
<1>5. "exchange_inventory_unknown" \in OrderReviewReasons
  BY DEF OrderReviewReasons
<1> QED
  BY <1>1, <1>2, <1>3, <1>4, <1>5 DEF Known

LEMMA DeliveryReasonsKnown ==
  /\ \A r \in {"delivery_data_invalid", "delivery_tracking_stalled",
                 "delivery_marked_received_dispute", "delivery_damage_claim"} :
       Known("delivery_investigation", r, "p1")
  /\ \A r \in {"delivery_overdue_investigation", "delivery_other_issue"} :
       Known("delivery_investigation", r, "p2")
  /\ ReasonCaseType(<<"delivery_failed">>) = "delivery_investigation"
<1>1. ASSUME NEW r \in DeliveryReasons
      PROVE  <<r>> \in DomainReasons /\ ReasonCaseType(<<r>>) = "delivery_investigation"
  <2>1. <<r>>[1] = r
    OBVIOUS
  <2> QED
    BY <2>1 DEF DomainReasons, ReasonCaseType, OrderReviewReasons, DeliveryReasons
<1>2. ASSUME NEW r \in DeliveryReasons
      PROVE  ReasonPriority(<<r>>) =
               IF r \in {"delivery_overdue_investigation", "delivery_other_issue"} THEN 2 ELSE 1
  <2>1. <<r>>[1] = r
    OBVIOUS
  <2> QED
    BY <2>1 DEF ReasonPriority, DeliveryReasons
<1>3. PriorityRank("p1") = 1 /\ PriorityRank("p2") = 2
  BY DEF PriorityRank
<1> QED
  BY <1>1, <1>2, <1>3 DEF Known, DeliveryReasons
(* Decisions that recommend nothing, and those whose reason is known. *)
LEMMA NothingRecommended ==
  ASSUME NEW type, NEW r
  PROVE  /\ Recommends(type, eligible(r)) /\ Recommends(type, rejected(r))
         /\ Recommends(type, self_service(r))
         /\ \A o : o # "manual_review" => Recommends(type, Decision(o, r, None))
BY DEF Recommends, eligible, rejected, self_service, Decision

LEMMA KnownRecommended ==
  ASSUME NEW type, NEW r, NEW p, Known(type, r, p)
  PROVE  Recommends(type, manual(r, p))
<1>1. manual(r, p).reason = r /\ manual(r, p).priority = p
  BY DEF manual, Decision
<1> QED
  BY <1>1, Zenon DEF Recommends, Known

LEMMA OrderRecommended ==
  /\ \A r \in OrderReviewReasons \ {"exchange_inventory_unknown"} :
       Recommends("order_operation_review", manual(r, "p1"))
  /\ Recommends("order_operation_review", manual("exchange_inventory_unknown", "p2"))
BY OrderReasonsKnown, KnownRecommended, Zenon

LEMMA CancellationRecommends ==
  ASSUME NEW s \in Snapshots
  PROVE  Recommends("order_operation_review", evaluate_cancellation(s))
<1>1. s.fulfillment_status \in {"unfulfilled", "processing", "shipped", "delivered"}
  BY SnapshotsTyped
<1>2. evaluate_cancellation(s) \in
        {Decision("already_completed", "order_already_cancelled", None),
         rejected("cancellation_payment_already_refunded"),
         rejected("cancellation_fulfillment_started"),
         manual("cancellation_fulfillment_processing", "p1"),
         eligible("cancellation_eligible"), manual("cancellation_state_invalid", "p1")}
  <2>1. CASE s.order_status = "cancelled"
    BY <2>1 DEF evaluate_cancellation
  <2>2. CASE s.order_status # "cancelled" /\ s.payment_status \in {"refund_pending", "refunded"}
    BY <2>2 DEF evaluate_cancellation
  <2>3. CASE s.order_status # "cancelled" /\ s.payment_status \notin {"refund_pending", "refunded"}
    BY <1>1, <2>3 DEF evaluate_cancellation
  <2> QED
    BY <2>1, <2>2, <2>3
<1>3. {"cancellation_fulfillment_processing", "cancellation_state_invalid"}
        \subseteq OrderReviewReasons \ {"exchange_inventory_unknown"}
  BY DEF OrderReviewReasons
<1>4. "already_completed" # "manual_review"
  OBVIOUS
<1> QED
  BY <1>2, <1>3, <1>4, NothingRecommended, OrderRecommended

LEMMA ReturnRecommends ==
  ASSUME NEW s \in Snapshots, NEW type \in {"return", "exchange"}, NEW t \in Int
  PROVE  Recommends("order_operation_review", evaluate_return_or_exchange(type, s, t))
<1> DEFINE d == evaluate_return_or_exchange(type, s, t)
<1>1. \A r \in {"operation_delivery_date_invalid", "return_eligibility_unknown",
                "exchange_eligibility_unknown", "currency_threshold_unconfigured",
                "return_manual_amount_review"} :
        Recommends("order_operation_review", manual(r, "p1"))
  BY OrderRecommended DEF OrderReviewReasons
<1>2. Recommends("order_operation_review", within_window(type, s))
  <2>1. Allowed(type, s) \in {TRUE, FALSE, None} /\ None # TRUE /\ None # FALSE
    BY SnapshotsTyped, Zenon DEF Allowed, Availability
  <2>2. CASE Allowed(type, s) = FALSE
    BY <2>1, <2>2, NothingRecommended, Zenon DEF within_window, Allowed
  <2>3. CASE Allowed(type, s) = None
    BY <1>1, <2>1, <2>3, Zenon DEF within_window, Allowed
  <2>4. CASE Allowed(type, s) = TRUE
    BY <1>1, <2>1, <2>4, NothingRecommended DEF within_window, Allowed
  <2> QED
    BY <2>1, <2>2, <2>3, <2>4, Zenon
<1>3. CASE s.payment_status \in {"refund_pending", "refunded"}
  BY <1>3, NothingRecommended DEF evaluate_return_or_exchange
<1>4. CASE s.payment_status \notin {"refund_pending", "refunded"}
           /\ s.fulfillment_status # "delivered"
  BY <1>4, NothingRecommended DEF evaluate_return_or_exchange
<1>5. CASE s.payment_status \notin {"refund_pending", "refunded"}
           /\ s.fulfillment_status = "delivered"
  <2>1. d \in {manual("operation_delivery_date_invalid", "p1"),
               rejected("operation_return_window_expired"), within_window(type, s)}
    BY <1>5 DEF evaluate_return_or_exchange
  <2> QED
    BY <1>1, <1>2, <2>1, NothingRecommended
<1> QED
  BY <1>3, <1>4, <1>5

LEMMA ExchangeRecommends ==
  ASSUME NEW s \in Snapshots, NEW t \in Int, NEW a \in Availability
  PROVE  Recommends("order_operation_review", evaluate_exchange(s, t, a))
<1> DEFINE base == evaluate_return_or_exchange("exchange", s, t)
<1>1. a \in {TRUE, FALSE, None} /\ None # TRUE /\ None # FALSE
  BY SnapshotsTyped, Zenon DEF Availability
<1>2. evaluate_exchange(s, t, a) \in
        {base, rejected("exchange_replacement_unavailable"),
         manual("exchange_inventory_unknown", "p2"), eligible("exchange_eligible")}
  BY <1>1 DEF evaluate_exchange
<1>3. Recommends("order_operation_review", base)
  BY ReturnRecommends
<1> QED
  BY <1>2, <1>3, NothingRecommended, OrderRecommended

LEMMA OperationRecommends ==
  ASSUME NEW s \in Snapshots, NEW t \in Int, NEW type \in OperationType, NEW a \in Availability
  PROVE  Recommends("order_operation_review", evaluate_operation(type, s, t, a))
<1>1. evaluate_operation(type, s, t, a) \in
        {manual("order_state_invalid", "p1"),
         Decision("existing_operation", "operation_already_exists", None),
         evaluate_cancellation(s), evaluate_return_or_exchange("return", s, t),
         evaluate_exchange(s, t, a)}
  BY DEF evaluate_operation, OperationType
<1>2. Recommends("order_operation_review", manual("order_state_invalid", "p1"))
  BY OrderRecommended DEF OrderReviewReasons
<1>3. Recommends("order_operation_review",
                 Decision("existing_operation", "operation_already_exists", None))
  BY NothingRecommended, Zenon
<1> QED
  BY <1>1, <1>2, <1>3, CancellationRecommends, ReturnRecommends, ExchangeRecommends

LEMMA DeliveryRecommends ==
  ASSUME NEW s, NEW t, NEW issue \in DeliveryIssueType, NEW asked \in BOOLEAN
  PROVE  \/ evaluate_delivery_issue(issue, s, t, asked) = manual("delivery_failed", "p2")
         \/ Recommends("delivery_investigation", evaluate_delivery_issue(issue, s, t, asked))
<1>1. /\ \A r \in {"delivery_data_invalid", "delivery_tracking_stalled",
                   "delivery_marked_received_dispute", "delivery_damage_claim"} :
           Recommends("delivery_investigation", manual(r, "p1"))
      /\ \A r \in {"delivery_overdue_investigation", "delivery_other_issue"} :
           Recommends("delivery_investigation", manual(r, "p2"))
  BY DeliveryReasonsKnown, KnownRecommended, Zenon
<1>2. evaluate_tracking_stalled(s, t) \in
        {manual("delivery_data_invalid", "p1"), manual("delivery_tracking_stalled", "p1"),
         self_service("delivery_tracking_recent")}
  BY DEF evaluate_tracking_stalled
<1>3. evaluate_delayed(s, t, asked) \in
        {manual("delivery_data_invalid", "p1"), self_service("delivery_not_overdue"),
         manual("delivery_overdue_investigation", "p2"), self_service("delivery_overdue")}
  BY DEF evaluate_delayed
<1>4. evaluate_delivery_issue(issue, s, t, asked) \in
        {manual("delivery_data_invalid", "p1"), evaluate_tracking_stalled(s, t),
         evaluate_delayed(s, t, asked), manual("delivery_failed", "p2"),
         manual("delivery_marked_received_dispute", "p1"),
         manual("delivery_damage_claim", "p1"),
         Decision("offer_return_exchange", "delivery_wrong_item_or_missing_parts_claim", None),
         manual("delivery_other_issue", "p2")}
  BY DEF evaluate_delivery_issue, DeliveryIssueType
<1>5. "offer_return_exchange" # "manual_review"
  OBVIOUS
<1> QED
  BY <1>1, <1>2, <1>3, <1>4, <1>5, NothingRecommended

(* Every manual decision about an order carries a reason that the handoff    *)
(* policy turns into the case type and the priority the decision recommends, *)
(* a failed delivery's priority apart (_manual, _delivery_manual,            *)
(* _REASON_POLICIES).                                                        *)
THEOREM RecommendationSafety == OrderSpec => []ReviewAsRecommended
<1>1. OrderInv => ReviewAsRecommended
  <2> SUFFICES ASSUME OrderInv PROVE ReviewAsRecommended
    OBVIOUS
  <2>1. ASSUME NEW type \in OperationType, NEW a \in Availability
        PROVE  Recommends("order_operation_review", Outcome(type, a))
    BY OperationRecommends DEF OrderInv, Outcome
  <2>2. ASSUME NEW issue \in DeliveryIssueType, NEW asked \in BOOLEAN
        PROVE  IF Report(issue, asked).reason = "delivery_failed"
               THEN ReasonCaseType(<<Report(issue, asked).reason>>) = "delivery_investigation"
               ELSE Recommends("delivery_investigation", Report(issue, asked))
    <3>1. manual("delivery_failed", "p2").reason = "delivery_failed"
      BY DEF manual, Decision
    <3> QED
      BY <3>1, DeliveryRecommends, DeliveryReasonsKnown DEF Report
  <2> QED
    BY <2>1, <2>2 DEF ReviewAsRecommended
<1> QED
  BY <1>1, OrderInvariance, PTL
-----------------------------------------------------------------------------
(* The reasons of manual decisions. *)
LEMMA ManualOperation ==
  ASSUME NEW s \in Snapshots, NEW type \in OperationType, NEW a \in Availability,
         evaluate_operation(type, s, Now, a).outcome = "manual_review"
  PROVE  evaluate_operation(type, s, Now, a).reason \in OrderReviewReasons
<1> DEFINE r == evaluate_operation(type, s, Now, a).reason
<1>1. <<r>> \in DomainReasons /\ ReasonCaseType(<<r>>) = "order_operation_review"
  BY SchemasTyped, OperationRecommends DEF Recommends
<1> HIDE DEF r
<1>2. r \in OrderReviewReasons \cup DeliveryReasons
  BY <1>1 DEF DomainReasons
<1>3. r \in DeliveryReasons => ReasonCaseType(<<r>>) = "delivery_investigation"
  <2>1. <<r>>[1] = r
    OBVIOUS
  <2> QED
    BY <2>1 DEF ReasonCaseType, OrderReviewReasons, DeliveryReasons
<1>4. r \in OrderReviewReasons
  BY <1>1, <1>2, <1>3
<1> QED
  BY <1>4 DEF r

LEMMA ManualDelivery ==
  ASSUME NEW s, NEW issue \in DeliveryIssueType, NEW asked \in BOOLEAN,
         evaluate_delivery_issue(issue, s, Now, asked).outcome = "manual_review"
  PROVE  evaluate_delivery_issue(issue, s, Now, asked).reason \in DeliveryReasons
<1> DEFINE d == evaluate_delivery_issue(issue, s, Now, asked)
<1>1. CASE d = manual("delivery_failed", "p2")
  <2>1. d.reason = "delivery_failed"
    BY <1>1 DEF manual, Decision
  <2> QED
    BY <2>1 DEF DeliveryReasons
<1>2. CASE Recommends("delivery_investigation", d)
  <2>1. <<d.reason>> \in DomainReasons /\ ReasonCaseType(<<d.reason>>) = "delivery_investigation"
    BY <1>2 DEF Recommends
  <2> PICK r : r = d.reason
    OBVIOUS
  <2>2. <<r>> \in DomainReasons /\ ReasonCaseType(<<r>>) = "delivery_investigation"
    BY <2>1
  <2>3. r \in OrderReviewReasons \cup DeliveryReasons
    BY <2>2 DEF DomainReasons
  <2>4. r \in OrderReviewReasons => ReasonCaseType(<<r>>) = "order_operation_review"
    <3>1. <<r>>[1] = r
      OBVIOUS
    <3> QED
      BY <3>1 DEF ReasonCaseType, OrderReviewReasons, DeliveryReasons
  <2> QED
    BY <2>2, <2>3, <2>4
<1> QED
  BY <1>1, <1>2, DeliveryRecommends
-----------------------------------------------------------------------------
(* The inductive invariant of a conversation.  Facts is what the end of the   *)
(* turn decides from; each field of it is heard in this turn once             *)
(* check_risk_rules has reset it, and Stage says which fields are still reset *)
(* at which node.                                                             *)
Fields ==
  {"text", "decision", "order_id", "last_order_id", "search_success", "eligible",
   "requires_manual_review", "hard", "semantic_risk_level", "semantic_risk_categories",
   "human_handoff_requested", "human_handoff_confirmed", "staff_complaint_severity",
   "explicit_other_complaint", "support_case", "provider_failure_case_persisted",
   "operation_snapshot", "operation_extraction", "operation_outcome", "operation_id",
   "operation_status", "domain_case_reason_codes"}

Facts(s) ==
  [hard |-> s.hard, level |-> s.semantic_risk_level, categories |-> s.semantic_risk_categories,
   severity |-> s.staff_complaint_severity, other |-> s.explicit_other_complaint,
   confirmed |-> s.human_handoff_confirmed, review |-> s.requires_manual_review,
   codes |-> s.domain_case_reason_codes, failure |-> s.provider_failure_case_persisted,
   operation |-> s.operation_id]

FactsTyped(v) ==
  /\ v.level \in {"unknown", "none", "low", "medium", "high", "critical"}
  /\ v.severity \in {"absent", "critical", "high", "medium", "low"}
  /\ v.other \in BOOLEAN /\ v.confirmed \in BOOLEAN /\ v.review \in BOOLEAN
  /\ v.failure \in BOOLEAN /\ v.operation \in BOOLEAN

Shape ==
  /\ DOMAIN state = Fields /\ FactsTyped(Facts(state)) /\ order \in Snapshots
  /\ node \in {"extract_operation_request", "evaluate_operation_request"} =>
       state.operation_snapshot \in Snapshots
  /\ node = "evaluate_operation_request" => state.operation_extraction \in Extractions
  /\ DOMAIN operation = {"status", "manual", "reason"} /\ operation.manual \in BOOLEAN

Answers ==
  {<<"refundable">>, <<"yes to refund">>, <<"yes to operation">>, <<"yes to investigation">>}

(* A fact stands for the evidence r ... *)
Says(v, r) ==
  \/ \E c \in v.hard : r = <<"hard_critical", c>>
  \/ r = <<"risk_level", v.level>>
  \/ \E c \in v.categories : r = <<"semantic", v.level, c>>
  \/ v.severity # "absent" /\ r = <<"staff_conduct", v.severity>>
  \/ v.other /\ r = <<"explicit_other_complaint">>
  \/ v.confirmed /\ r = <<"confirmed_human_request">>
  \/ v.review /\ r = <<"refund_manual_review">>
  \/ r \in Answers

(* ... and every fact is backed by evidence. *)
Backed(v, E) ==
  /\ \A c \in v.hard : <<"hard_critical", c>> \in E
  /\ \A c \in v.categories : <<"semantic", v.level, c>> \in E
  /\ v.severity # "absent" => <<"staff_conduct", v.severity>> \in E
  /\ v.other => <<"explicit_other_complaint">> \in E
  /\ v.confirmed => <<"confirmed_human_request">> \in E
  /\ v.review => <<"refund_manual_review">> \in E

Heard(v, E) == (\A r \in E : Says(v, r)) /\ Backed(v, E)

BeforeComplaint == {"classify_semantic_risk", "llm_call_router", "classify_formal_complaint"}
BeforeHandoff == BeforeComplaint \cup {"confirm_human_handoff"}
BeforeOrder == BeforeHandoff \cup {"confirm_order_priority", "resume_order_flow"}
BeforeRefund == BeforeOrder \cup {"detect_order", "search_node", "check_refund_eligibility"}
BeforeOperation ==
  BeforeOrder \cup
    {"detect_operation_order", "load_operation_snapshot", "extract_operation_request",
     "evaluate_operation_request", "handle_critical_risk"}

Stage(n, v) ==
  /\ v.hard # {} => v.level = "unknown" /\ v.categories = {}
  /\ n \in BeforeComplaint => v.severity = "absent" /\ ~v.other
  /\ n \in BeforeHandoff => ~v.confirmed
  /\ n \in BeforeRefund => ~v.review
  /\ n \in BeforeOperation => v.codes = {} /\ ~v.operation
  /\ n = "operation_confirmation" /\ v.operation => v.codes = {}
  /\ v.failure => n = "finalize_case_handoff"

(* A reason of the domain waits for the customer's yes, or has it. *)
CodesSupported(n, v) ==
  \A r \in v.codes :
    \/ Supported(r)
    \/ /\ n \in {"operation_confirmation", "cancel_delivery_investigation"}
       /\ r[1] \in DeliveryReasons

Answered ==
  /\ node \in {"check_risk_rules", "classify_semantic_risk"} => evidence = {}
  /\ node \in {"approval_node", "proceed"} => <<"refundable">> \in evidence
  /\ node = "proceed" => <<"yes to refund">> \in evidence
  /\ node \in {"submit_confirmed_operation", "confirm_manual_operation"} =>
       <<"yes to operation">> \in evidence
  /\ node = "confirm_delivery_investigation" => <<"yes to investigation">> \in evidence

(* Only a decision for manual review is pending as one. *)
PendingReviews ==
  /\ Pending /\ operation.manual => operation.reason \in OrderReviewReasons
  /\ node = "operation_confirmation" /\ state.operation_id => Pending
  /\ node = "confirm_manual_operation" => Pending

Closing == {"finalize_case_handoff", "attach_operation_case", "END", "raised"}

(* A turn that goes straight to its case has heard of risks only. *)
OnlyRisks(E) == \A r \in E : r[1] \in {"hard_critical", "risk_level", "semantic"}

SafetyInv ==
  \A r \in evidence :
    Critical(r) =>
      /\ node \in {"handle_critical_risk", "finalize_case_handoff", "attach_operation_case",
                   "END", "raised"}
      /\ node \in {"handle_critical_risk", "finalize_case_handoff"} =>
           /\ effects = {} /\ state.domain_case_reason_codes = {}
           /\ ~state.provider_failure_case_persisted /\ OnlyRisks(evidence)
      /\ \A e \in effects : e[1] = "case"
      /\ node \in {"attach_operation_case", "END"} => \E c \in Cases : UrgentEnough(c, r)
      /\ node = "raised" => evidence = {r} /\ r[1] = "risk_level"

KeptInv ==
  /\ node = "finalize_case_handoff" /\ state.provider_failure_case_persisted => FellBack
  /\ node \in {"attach_operation_case", "END"} /\ ~FellBack =>
       \A r \in evidence : CaseCreating(r) => r \in CaseReasons

ConvInv ==
  /\ Shape
  /\ node # "check_risk_rules" =>
       /\ Heard(Facts(state), evidence) /\ Stage(node, Facts(state))
       /\ CodesSupported(node, Facts(state))
  /\ node \notin Closing => effects = {}
  /\ Answered /\ PendingReviews
  /\ SupportedByThisTurn /\ SafetyInv /\ KeptInv

-----------------------------------------------------------------------------
(* Steps within a turn. *)
LEMMA Reset ==
  ASSUME NEW s, DOMAIN s = Fields, NEW d
  PROVE  /\ DOMAIN new_turn_state(s, d) = Fields
         /\ Facts(new_turn_state(s, d)) =
              [hard |-> s.hard, level |-> s.semantic_risk_level,
               categories |-> s.semantic_risk_categories, severity |-> "absent",
               other |-> FALSE, confirmed |-> FALSE, review |-> FALSE, codes |-> {},
               failure |-> FALSE, operation |-> FALSE]
<1>1. DOMAIN new_turn_state(s, d) = Fields
  BY Zenon DEF new_turn_state
<1>2. PICK n : n = new_turn_state(s, d)
  OBVIOUS
<1>3. /\ n.hard = s.hard /\ n.semantic_risk_level = s.semantic_risk_level
      /\ n.semantic_risk_categories = s.semantic_risk_categories
  BY <1>2 DEF new_turn_state, Fields
<1>4. /\ n.staff_complaint_severity = "absent" /\ n.explicit_other_complaint = FALSE
      /\ n.human_handoff_confirmed = FALSE /\ n.requires_manual_review = FALSE
      /\ n.domain_case_reason_codes = {} /\ n.provider_failure_case_persisted = FALSE
      /\ n.operation_id = FALSE
  BY <1>2 DEF new_turn_state, Fields
<1> QED
  BY <1>1, <1>2, <1>3, <1>4, Zenon DEF Facts

Ordinary == {"handle_critical_risk", "check_risk_rules"} \cup Closing

(* Past the risk rules, ordinary business has heard nothing critical. *)
LEMMA NothingCritical ==
  ASSUME ConvInv, node \notin Ordinary
  PROVE  \A r \in evidence : ~Critical(r)
BY DEF ConvInv, SafetyInv, Ordinary, Closing

(* What a step that persists nothing must keep. *)
LEMMA Advance ==
  ASSUME ConvInv, node \notin Closing, effects' = effects,
         node' \notin {"check_risk_rules", "attach_operation_case", "END"},
         Shape', Heard(Facts(state'), evidence'), Stage(node', Facts(state')),
         CodesSupported(node, Facts(state))', Answered', PendingReviews',
         ~state'.provider_failure_case_persisted,
         \A r \in evidence' :
           Critical(r) => /\ node' \in {"handle_critical_risk", "finalize_case_handoff"}
                          /\ state'.domain_case_reason_codes = {} /\ OnlyRisks(evidence')
  PROVE  ConvInv'
<1>1. effects = {} /\ effects' = {}
  BY DEF ConvInv
<1>2. Cases' = {} /\ CaseReasons' = {}
  BY <1>1 DEF Cases, CaseReasons
<1>3. SupportedByThisTurn'
  BY <1>1, <1>2 DEF SupportedByThisTurn
<1>4. SafetyInv'
  BY <1>1 DEF SafetyInv
<1>5. KeptInv'
  BY DEF KeptInv
<1> QED
  BY <1>1, <1>3, <1>4, <1>5 DEF ConvInv

QuietTargets ==
  {"finalize_case_handoff", "classify_formal_complaint", "confirm_human_handoff",
   "support_case_status", "confirm_order_priority", "detect_operation_order", "detect_order",
   "handle_noncritical_risk", "handle_complaint", "resume_order_flow", "raised",
   "search_node", "load_operation_snapshot", "order_response", "check_refund_eligibility"}

(* A step that changes no fact and hears nothing. *)
LEMMA Quiet ==
  ASSUME ConvInv, UNCHANGED <<world, evidence, effects>>, DOMAIN state' = Fields,
         Facts(state') = Facts(state), node' \in QuietTargets, Stage(node', Facts(state)),
         node \notin Closing \cup {"check_risk_rules", "operation_confirmation",
                                   "cancel_delivery_investigation"},
         node = "handle_critical_risk" => node' = "finalize_case_handoff"
  PROVE  ConvInv'
<1>1. /\ Shape /\ Heard(Facts(state), evidence) /\ Stage(node, Facts(state))
      /\ CodesSupported(node, Facts(state)) /\ SafetyInv /\ PendingReviews
  BY DEF ConvInv
<1>2. Shape'
  BY <1>1 DEF Shape, QuietTargets, world
<1>3. ~state.provider_failure_case_persisted /\ ~state'.provider_failure_case_persisted
  <2>1. ~Facts(state).failure
    BY <1>1 DEF Stage, Closing
  <2> QED
    BY <2>1 DEF Facts
<1>4. CodesSupported(node, Facts(state))'
  <2>1. \A r : Supported(r)' <=> Supported(r)
    BY DEF Supported
  <2>2. \A r \in Facts(state).codes : Supported(r)
    BY <1>1 DEF CodesSupported
  <2> QED
    BY <2>1, <2>2 DEF CodesSupported
<1>5. Answered' /\ PendingReviews'
  BY <1>1, Zenon DEF Answered, PendingReviews, Pending, QuietTargets, world
<1>6. ASSUME NEW r \in evidence', Critical(r)
      PROVE  /\ node' \in {"handle_critical_risk", "finalize_case_handoff"}
             /\ state'.domain_case_reason_codes = {} /\ OnlyRisks(evidence')
  <2>1. /\ node = "handle_critical_risk" /\ state.domain_case_reason_codes = {}
        /\ OnlyRisks(evidence)
    BY <1>1, <1>6 DEF SafetyInv, Closing
  <2>2. Facts(state').codes = Facts(state).codes
    OBVIOUS
  <2> QED
    BY <2>1, <2>2 DEF Facts
<1> QED
  BY <1>1, <1>2, <1>3, <1>4, <1>5, <1>6, Advance DEF QuietTargets, Closing

LEMMA RouterStep == ConvInv /\ llm_call_router => ConvInv'
<1> SUFFICES ASSUME ConvInv, llm_call_router PROVE ConvInv'
  OBVIOUS
<1>1. /\ node = "llm_call_router" /\ DOMAIN state = Fields /\ FactsTyped(Facts(state))
      /\ Stage(node, Facts(state))
  BY DEF ConvInv, Shape, llm_call_router
<1>2. Facts(state) =
        [hard |-> state.hard, level |-> state.semantic_risk_level,
         categories |-> state.semantic_risk_categories, severity |-> "absent",
         other |-> FALSE, confirmed |-> FALSE, review |-> FALSE, codes |-> {},
         failure |-> FALSE, operation |-> FALSE]
  <2>1. LET v == Facts(state) IN
        /\ v.severity = "absent" /\ v.other = FALSE /\ v.confirmed = FALSE /\ v.review = FALSE
        /\ v.codes = {} /\ v.failure = FALSE /\ v.operation = FALSE
    <3> PICK v : v = Facts(state)
      OBVIOUS
    <3> QED
      BY <1>1 DEF Stage, FactsTyped, BeforeComplaint, BeforeHandoff, BeforeOrder,
                  BeforeRefund, BeforeOperation
  <2> QED
    BY <2>1, Zenon DEF Facts
<1>3. \A d : DOMAIN new_turn_state(state, d) = Fields
             /\ Facts(new_turn_state(state, d)) = Facts(state)
  BY <1>1, <1>2, Reset
<1>4. DOMAIN state' = Fields /\ Facts(state') = Facts(state)
  <2>1. CASE state' = new_turn_state(state, "none")
    BY <1>3, <2>1
  <2>2. ASSUME NEW d, NEW q,
               state' = [new_turn_state(state, d) EXCEPT !.human_handoff_requested = q]
        PROVE  DOMAIN state' = Fields /\ Facts(state') = Facts(state)
    <3> PICK n : n = new_turn_state(state, d)
      OBVIOUS
    <3>1. DOMAIN n = Fields /\ Facts(n) = Facts(state)
      BY <1>3
    <3>2. state' = [n EXCEPT !.human_handoff_requested = q]
      BY <2>2
    <3>3. DOMAIN state' = Fields /\ Facts(state') = Facts(n)
      BY <3>1, <3>2 DEF Facts, Fields
    <3> QED
      BY <3>1, <3>3
  <2> QED
    BY <2>1, <2>2 DEF llm_call_router
<1>5. node' \in QuietTargets
  BY DEF llm_call_router, Goto, route_by_intent_and_risk, SelfService, QuietTargets
<1>6. Stage(node', Facts(state))
  BY <1>1 DEF Stage, BeforeComplaint, BeforeHandoff, BeforeOrder, BeforeRefund, BeforeOperation
<1>7. UNCHANGED <<world, evidence, effects>>
  BY DEF llm_call_router, Goto
<1> QED
  BY <1>1, <1>4, <1>5, <1>6, <1>7, Quiet DEF Closing

LEMMA AnsweringSteps ==
  ConvInv /\ ((\E yes \in BOOLEAN : confirm_order_priority(yes)) \/ resume_order_flow \/ Respond)
    => ConvInv'
<1> SUFFICES ASSUME ConvInv,
                    \/ \E yes \in BOOLEAN : confirm_order_priority(yes)
                    \/ resume_order_flow \/ Respond
             PROVE  ConvInv'
  OBVIOUS
<1>1. /\ UNCHANGED <<world, evidence, effects>> /\ state' = state
      /\ node' \in QuietTargets
  BY DEF confirm_order_priority, resume_order_flow, route_after_order_priority, Respond, Goto,
         QuietTargets
<1>2. /\ node \notin Closing \cup {"check_risk_rules", "operation_confirmation",
                                   "cancel_delivery_investigation"}
      /\ node = "handle_critical_risk" => node' = "finalize_case_handoff"
  BY DEF confirm_order_priority, resume_order_flow, Respond, Goto, Closing
<1>3. DOMAIN state = Fields /\ Stage(node, Facts(state))
  BY <1>2 DEF ConvInv, Shape
<1>4. Stage(node', Facts(state))
  BY <1>3 DEF confirm_order_priority, resume_order_flow, route_after_order_priority, Respond,
              Goto, Stage, BeforeComplaint, BeforeHandoff, BeforeOrder, BeforeRefund,
              BeforeOperation
<1> QED
  BY <1>1, <1>2, <1>3, <1>4, Quiet

LEMMA OrderSteps == ConvInv /\ (detect_order \/ search_order_node) => ConvInv'
<1> SUFFICES ASSUME ConvInv, detect_order \/ search_order_node PROVE ConvInv'
  OBVIOUS
<1>1. /\ node \in {"detect_order", "detect_operation_order", "search_node"}
      /\ UNCHANGED <<world, evidence, effects>> /\ node' \in QuietTargets
  BY Zenon DEF detect_order, search_order_node, Goto, QuietTargets
<1>2. DOMAIN state = Fields /\ Stage(node, Facts(state))
  BY <1>1 DEF ConvInv, Shape
<1>3. DOMAIN state' = Fields /\ Facts(state') = Facts(state)
  <2>1. CASE detect_order
    <3>1. \/ \E found : state' = [state EXCEPT !.order_id = found, !.last_order_id = FALSE]
          \/ state' = [state EXCEPT !.order_id = TRUE]
      BY <2>1, Zenon DEF detect_order, DetectedOrders
    <3> QED
      BY <1>2, <3>1, Zenon DEF Facts, Fields
  <2>2. CASE search_order_node
    <3>1. \E found, last : state' = [state EXCEPT !.search_success = found,
                                                  !.last_order_id = last]
      BY <2>2, Zenon DEF search_order_node
    <3> QED
      BY <1>2, <3>1 DEF Facts, Fields
  <2> QED
    BY <2>1, <2>2
<1>4. Stage(node', Facts(state))
  BY <1>1, <1>2, Zenon DEF detect_order, search_order_node, Goto, Stage, BeforeComplaint,
                    BeforeHandoff, BeforeOrder, BeforeRefund, BeforeOperation
<1> QED
  BY <1>1, <1>2, <1>3, <1>4, Quiet DEF Closing

LEMMA RiskRulesStep == ConvInv /\ check_risk_rules => ConvInv'
<1> SUFFICES ASSUME ConvInv, check_risk_rules PROVE ConvInv'
  OBVIOUS
<1>1. /\ node = "check_risk_rules" /\ evidence = {} /\ DOMAIN state = Fields /\ Shape
      /\ PendingReviews
  BY DEF ConvInv, Shape, Answered, check_risk_rules
<1>2. PICK hard :
        /\ state' = [new_turn_state(state, "none") EXCEPT
                       !.hard = hard, !.semantic_risk_level = "unknown",
                       !.semantic_risk_categories = {}]
        /\ evidence' = {<<"hard_critical", c>> : c \in hard}
  BY <1>1, Zenon DEF check_risk_rules, Hear
<1>3. UNCHANGED <<world, effects>>
      /\ node' = IF state'.hard # {} THEN "handle_critical_risk" ELSE "classify_semantic_risk"
  BY DEF check_risk_rules, Goto, route_after_risk_rules
<1>4. /\ DOMAIN state' = Fields /\ state'.hard = hard
      /\ Facts(state') =
           [hard |-> hard, level |-> "unknown", categories |-> {}, severity |-> "absent",
            other |-> FALSE, confirmed |-> FALSE, review |-> FALSE, codes |-> {},
            failure |-> FALSE, operation |-> FALSE]
  <2> PICK n : n = new_turn_state(state, "none")
    OBVIOUS
  <2>1. DOMAIN n = Fields
    BY <1>1, Reset
  <2>2. PICK v : v = Facts(n)
    OBVIOUS
  <2>3. /\ v.severity = "absent" /\ v.other = FALSE /\ v.confirmed = FALSE
        /\ v.review = FALSE /\ v.codes = {} /\ v.failure = FALSE /\ v.operation = FALSE
    BY <1>1, <2>2, Reset
  <2>4. state' = [n EXCEPT !.hard = hard, !.semantic_risk_level = "unknown",
                           !.semantic_risk_categories = {}]
    BY <1>2
  <2> QED
    BY <2>1, <2>2, <2>3, <2>4, Zenon DEF Facts, Fields
<1> PICK v : v = Facts(state')
  OBVIOUS
<1>5. /\ v.hard = hard /\ v.level = "unknown" /\ v.categories = {} /\ v.severity = "absent"
      /\ v.other = FALSE /\ v.confirmed = FALSE /\ v.review = FALSE /\ v.codes = {}
      /\ v.failure = FALSE /\ v.operation = FALSE
  BY <1>4
<1>6. FactsTyped(v)
  BY <1>5, Zenon DEF FactsTyped
<1>7. Shape'
  BY <1>1, <1>3, <1>4, <1>6 DEF Shape, world
<1>8. Heard(v, evidence')
  BY <1>2, <1>5 DEF Heard, Says, Backed
<1>9. Stage(node', v)
  BY <1>5 DEF Stage
<1>10. CodesSupported(node, Facts(state))'
  BY <1>5 DEF CodesSupported
<1>11. Answered' /\ PendingReviews'
  BY <1>1, <1>2, <1>3, <1>4 DEF Answered, PendingReviews, Pending, world
<1>12. ~state'.provider_failure_case_persisted /\ state'.domain_case_reason_codes = {}
  BY <1>5 DEF Facts
<1>13. OnlyRisks(evidence') /\ \A r \in evidence' : node' = "handle_critical_risk"
  BY <1>2, <1>3, <1>4 DEF OnlyRisks
<1> QED
  BY <1>1, <1>3, <1>7, <1>8, <1>9, <1>10, <1>11, <1>12, <1>13, Advance DEF Closing

LEMMA SemanticStep == ConvInv /\ classify_semantic_risk => ConvInv'
<1> SUFFICES ASSUME ConvInv, classify_semantic_risk PROVE ConvInv'
  OBVIOUS
<1> PICK v : v = Facts(state)
  OBVIOUS
<1>1. /\ node = "classify_semantic_risk" /\ evidence = {} /\ DOMAIN state = Fields /\ Shape
      /\ FactsTyped(v) /\ Heard(v, evidence) /\ Stage(node, v) /\ PendingReviews
  BY DEF ConvInv, Shape, Answered, classify_semantic_risk
<1> PICK f \in IF state.text THEN RiskFindings ELSE {[level |-> "none", categories |-> {}]} :
          /\ state' = [state EXCEPT !.semantic_risk_level = f.level,
                                    !.semantic_risk_categories = f.categories]
          /\ evidence' = evidence \cup ({<<"risk_level", f.level>>} \cup
                                        {<<"semantic", f.level, c>> : c \in f.categories})
  BY Zenon DEF classify_semantic_risk, Hear
<1>2. /\ f.level \in {"none", "low", "medium", "high", "critical"}
      /\ state' = [state EXCEPT !.semantic_risk_level = f.level,
                                !.semantic_risk_categories = f.categories]
      /\ evidence' = {<<"risk_level", f.level>>} \cup {<<"semantic", f.level, c>> : c \in f.categories}
  <2>1. f.level \in {"none", "low", "medium", "high", "critical"}
    BY SchemasTyped
  <2>2. evidence' = {<<"risk_level", f.level>>} \cup {<<"semantic", f.level, c>> : c \in f.categories}
    BY <1>1
  <2> QED
    BY <2>1, <2>2
<1>3. UNCHANGED <<world, effects>>
      /\ node' = IF state'.semantic_risk_level \in {"high", "critical"}
                 THEN "handle_critical_risk" ELSE "llm_call_router"
  BY DEF classify_semantic_risk, Goto, route_after_semantic_risk
<1> PICK w : w = Facts(state')
  OBVIOUS
<1>4. /\ DOMAIN state' = Fields /\ state'.semantic_risk_level = f.level
      /\ w.level = f.level /\ w.categories = f.categories
      /\ w.hard = v.hard /\ w.severity = v.severity /\ w.other = v.other
      /\ w.confirmed = v.confirmed /\ w.review = v.review /\ w.codes = v.codes
      /\ w.failure = v.failure /\ w.operation = v.operation
  BY <1>1, <1>2 DEF Facts, Fields
<1>5. /\ v.hard = {} /\ v.severity = "absent" /\ v.other = FALSE /\ v.confirmed = FALSE
      /\ v.review = FALSE /\ v.codes = {} /\ v.failure = FALSE /\ v.operation = FALSE
  BY <1>1 DEF Heard, Backed, Stage, FactsTyped, BeforeComplaint, BeforeHandoff, BeforeOrder,
              BeforeRefund, BeforeOperation
<1>6. Shape'
  BY <1>1, <1>2, <1>3, <1>4 DEF Shape, FactsTyped, world
<1>7. Heard(w, evidence')
  BY <1>2, <1>4, <1>5 DEF Heard, Says, Backed
<1>8. Stage(node', w)
  BY <1>4, <1>5 DEF Stage
<1>9. CodesSupported(node, Facts(state))'
  BY <1>4, <1>5 DEF CodesSupported
<1>10. Answered' /\ PendingReviews'
  BY <1>1, <1>3 DEF Answered, PendingReviews, Pending, world
<1>11. ~state'.provider_failure_case_persisted /\ state'.domain_case_reason_codes = {}
  BY <1>4, <1>5 DEF Facts
<1>12. \A r \in evidence' : Critical(r) => node' = "handle_critical_risk"
  BY <1>2, <1>3, <1>4 DEF Critical
<1>13. OnlyRisks(evidence')
  BY <1>2 DEF OnlyRisks
<1> QED
  BY <1>1, <1>3, <1>6, <1>7, <1>8, <1>9, <1>10, <1>11, <1>12, <1>13, Advance
  DEF Closing

(* A step of ordinary business that hears more, and goes on to another node   *)
(* with the facts w.                                                          *)
HearingTargets == QuietTargets \cup {"acknowledge_human_handoff", "approval_node"}

LEMMA Hearing ==
  ASSUME ConvInv, node \notin Ordinary \cup {"operation_confirmation",
                                             "cancel_delivery_investigation"},
         UNCHANGED <<world, effects>>, node' \in HearingTargets, DOMAIN state' = Fields,
         NEW w, w = Facts(state'), FactsTyped(w), Stage(node', w),
         w.codes = Facts(state).codes, w.failure = Facts(state).failure,
         NEW said, evidence' = evidence \cup said, \A r \in said : ~Critical(r),
         Heard(w, evidence'), node' = "approval_node" => <<"refundable">> \in evidence'
  PROVE  ConvInv'
<1>1. /\ Shape /\ Stage(node, Facts(state)) /\ CodesSupported(node, Facts(state))
      /\ PendingReviews /\ \A r \in evidence : ~Critical(r)
  BY NothingCritical DEF ConvInv, Ordinary
<1>2. Shape'
  BY <1>1 DEF Shape, HearingTargets, QuietTargets, world
<1>3. ~state'.provider_failure_case_persisted
  <2>1. ~Facts(state).failure
    BY <1>1 DEF Stage, Ordinary, Closing
  <2> QED
    BY <2>1 DEF Facts
<1>4. CodesSupported(node, Facts(state))'
  <2>1. \A r \in Facts(state).codes : Supported(r)
    BY <1>1 DEF CodesSupported
  <2>2. ASSUME NEW r, Supported(r) PROVE Supported(r)'
    BY <2>2, Zenon DEF Supported, OrderReviewReasons, DeliveryReasons
  <2> QED
    BY <2>1, <2>2 DEF CodesSupported
<1>5. Answered' /\ PendingReviews'
  BY <1>1, Zenon DEF Answered, PendingReviews, Pending, HearingTargets, QuietTargets, world
<1>6. \A r \in evidence' : ~Critical(r)
  BY <1>1
<1> QED
  BY <1>2, <1>3, <1>4, <1>5, <1>6, Advance DEF HearingTargets, QuietTargets, Ordinary

LEMMA ComplaintStep == ConvInv /\ classify_formal_complaint => ConvInv'
<1> SUFFICES ASSUME ConvInv, classify_formal_complaint PROVE ConvInv'
  OBVIOUS
<1> PICK v : v = Facts(state)
  OBVIOUS
<1>1. /\ node = "classify_formal_complaint" /\ DOMAIN state = Fields
      /\ FactsTyped(v) /\ Heard(v, evidence) /\ Stage(node, v)
  BY DEF ConvInv, Shape, classify_formal_complaint
<1> PICK c \in Complaints :
      /\ state' = [state EXCEPT !.staff_complaint_severity = c.severity,
                                !.explicit_other_complaint = c.other]
      /\ evidence' = evidence \cup
           ((IF c.severity # "absent" THEN {<<"staff_conduct", c.severity>>} ELSE {})
            \cup (IF c.other THEN {<<"explicit_other_complaint">>} ELSE {}))
  BY Zenon DEF classify_formal_complaint, Hear
<1>2. /\ c.severity \in {"absent", "critical", "high", "medium", "low"} /\ c.other \in BOOLEAN
  BY SchemasTyped
<1> DEFINE said == (IF c.severity # "absent" THEN {<<"staff_conduct", c.severity>>} ELSE {})
                     \cup (IF c.other THEN {<<"explicit_other_complaint">>} ELSE {})
<1> PICK w : w = Facts(state')
  OBVIOUS
<1>3. /\ DOMAIN state' = Fields /\ w.severity = c.severity /\ w.other = c.other
      /\ w.level = v.level /\ w.categories = v.categories /\ w.hard = v.hard
      /\ w.confirmed = v.confirmed /\ w.review = v.review /\ w.codes = v.codes
      /\ w.failure = v.failure /\ w.operation = v.operation
  BY <1>1 DEF Facts, Fields
<1>4. v.severity = "absent" /\ v.other = FALSE
  BY <1>1 DEF Stage, FactsTyped, BeforeComplaint
<1>5. FactsTyped(w)
  BY <1>1, <1>2, <1>3 DEF FactsTyped
<1>6. Heard(w, evidence')
  <2>1. ASSUME NEW r \in evidence PROVE Says(w, r)
    <3>1. Says(v, r)
      BY <1>1 DEF Heard
    <3> QED
      BY <1>3, <1>4, <3>1 DEF Says
  <2>2. ASSUME NEW r \in said PROVE Says(w, r)
    BY <1>2, <1>3, <2>2 DEF Says
  <2>3. Backed(w, evidence')
    BY <1>1, <1>3, <1>4 DEF Heard, Backed
  <2> QED
    BY <2>1, <2>2, <2>3 DEF Heard
<1>7. /\ UNCHANGED <<world, effects>>
      /\ node' \in {"confirm_human_handoff", "handle_noncritical_risk", "handle_complaint"}
  BY DEF classify_formal_complaint, Goto, route_after_formal_complaint
<1>8. Stage(node', w)
  BY <1>1, <1>3, <1>7 DEF Stage, BeforeComplaint, BeforeHandoff, BeforeOrder, BeforeRefund,
                          BeforeOperation
<1>9. \A r \in said : ~Critical(r)
  BY DEF Critical
<1>10. node' \in HearingTargets /\ node' # "approval_node"
  BY <1>7 DEF HearingTargets, QuietTargets
<1>11. evidence' = evidence \cup said
  OBVIOUS
<1> HIDE DEF said
<1> QED
  BY <1>1, <1>3, <1>5, <1>6, <1>7, <1>8, <1>9, <1>10, <1>11, Hearing DEF Ordinary, Closing

LEMMA HandoffStep ==
  ASSUME ConvInv, NEW yes \in BOOLEAN, confirm_human_handoff(yes)
  PROVE  ConvInv'
<1> PICK v : v = Facts(state)
  OBVIOUS
<1>1. /\ node = "confirm_human_handoff" /\ DOMAIN state = Fields
      /\ FactsTyped(v) /\ Heard(v, evidence) /\ Stage(node, v)
  BY DEF ConvInv, Shape, confirm_human_handoff
<1> PICK said : said = IF yes THEN {<<"confirmed_human_request">>} ELSE {}
  BY Zenon
<1>2. evidence' = evidence \cup said
  BY DEF confirm_human_handoff, Hear
<1> PICK w : w = Facts(state')
  OBVIOUS
<1>3. /\ DOMAIN state' = Fields /\ w.confirmed = yes
      /\ w.severity = v.severity /\ w.other = v.other
      /\ w.level = v.level /\ w.categories = v.categories /\ w.hard = v.hard
      /\ w.review = v.review /\ w.codes = v.codes
      /\ w.failure = v.failure /\ w.operation = v.operation
  <2>1. \E q : state' = [state EXCEPT !.human_handoff_confirmed = yes,
                                      !.human_handoff_requested = q]
    BY Zenon DEF confirm_human_handoff
  <2> QED
    BY <1>1, <2>1 DEF Facts, Fields
<1>4. v.confirmed = FALSE
  BY <1>1 DEF Stage, FactsTyped, BeforeHandoff
<1>5. FactsTyped(w)
  BY <1>1, <1>3 DEF FactsTyped
<1>6. Heard(w, evidence')
  <2>1. ASSUME NEW r \in evidence PROVE Says(w, r)
    <3>1. Says(v, r)
      BY <1>1 DEF Heard
    <3> QED
      BY <1>3, <1>4, <3>1 DEF Says
  <2>2. ASSUME NEW r \in said PROVE Says(w, r)
    BY <1>3, <2>2 DEF Says
  <2>3. Backed(w, evidence')
    BY <1>1, <1>2, <1>3 DEF Heard, Backed
  <2> QED
    BY <1>2, <2>1, <2>2, <2>3 DEF Heard
<1>7. /\ UNCHANGED <<world, effects>>
      /\ node' \in {"acknowledge_human_handoff", "handle_noncritical_risk", "handle_complaint",
                    "confirm_order_priority", "detect_order", "resume_order_flow", "raised"}
  BY DEF confirm_human_handoff, Goto, route_after_human_handoff_declined, ORDER_INTENTS,
         OPERATION_INTENTS
<1>8. Stage(node', w)
  BY <1>1, <1>3, <1>7 DEF Stage, BeforeComplaint, BeforeHandoff, BeforeOrder, BeforeRefund,
                          BeforeOperation
<1>9. \A r \in said : ~Critical(r)
  BY DEF Critical
<1>10. node' \in HearingTargets /\ node' # "approval_node"
  BY <1>7 DEF HearingTargets, QuietTargets
<1> QED
  BY <1>1, <1>2, <1>3, <1>5, <1>6, <1>7, <1>8, <1>9, <1>10, Hearing, Zenon DEF Ordinary, Closing

LEMMA RefundPolicyStep == ConvInv /\ check_refund_eligibility => ConvInv'
<1> SUFFICES ASSUME ConvInv, check_refund_eligibility PROVE ConvInv'
  OBVIOUS
<1> PICK v : v = Facts(state)
  OBVIOUS
<1>1. /\ node = "check_refund_eligibility" /\ DOMAIN state = Fields
      /\ FactsTyped(v) /\ Heard(v, evidence) /\ Stage(node, v)
  BY DEF ConvInv, Shape, check_refund_eligibility
<1>2. PICK o \in RefundOrders :
        /\ state' = [state EXCEPT
                       !.eligible = check_refund_policy(o).eligible,
                       !.requires_manual_review = check_refund_policy(o).requires_manual_review]
        /\ evidence' = evidence \cup
             (CASE check_refund_policy(o).requires_manual_review -> {<<"refund_manual_review">>}
                [] check_refund_policy(o).eligible /\ ~check_refund_policy(o).requires_manual_review
                     -> {<<"refundable">>}
                [] OTHER -> {})
  BY Zenon DEF check_refund_eligibility, Hear
<1> PICK p, q : /\ p = check_refund_policy(o).eligible
                /\ q = check_refund_policy(o).requires_manual_review
  OBVIOUS
<1>3. p \in BOOLEAN /\ q \in BOOLEAN
  BY DEF check_refund_policy
<1> PICK said : said = IF q THEN {<<"refund_manual_review">>}
                       ELSE IF p THEN {<<"refundable">>} ELSE {}
  BY Zenon
<1>4. /\ evidence' = evidence \cup said
      /\ state' = [state EXCEPT !.eligible = p, !.requires_manual_review = q]
  BY <1>2, <1>3
<1> PICK w : w = Facts(state')
  OBVIOUS
<1>5. /\ DOMAIN state' = Fields /\ w.review = q
      /\ w.severity = v.severity /\ w.other = v.other
      /\ w.level = v.level /\ w.categories = v.categories /\ w.hard = v.hard
      /\ w.confirmed = v.confirmed /\ w.codes = v.codes
      /\ w.failure = v.failure /\ w.operation = v.operation
      /\ state'.eligible = p /\ state'.requires_manual_review = q
  BY <1>1, <1>4 DEF Facts, Fields
<1>6. v.review = FALSE
  BY <1>1 DEF Stage, FactsTyped, BeforeRefund
<1>7. FactsTyped(w)
  BY <1>1, <1>3, <1>5 DEF FactsTyped
<1>8. Heard(w, evidence')
  <2>1. ASSUME NEW r \in evidence PROVE Says(w, r)
    <3>1. Says(v, r)
      BY <1>1 DEF Heard
    <3> QED
      BY <1>5, <1>6, <3>1 DEF Says
  <2>2. ASSUME NEW r \in said PROVE Says(w, r)
    BY <1>3, <1>5, <2>2, Zenon DEF Says, Answers
  <2>3. Backed(w, evidence')
    BY <1>1, <1>4, <1>5 DEF Heard, Backed
  <2> QED
    BY <1>4, <2>1, <2>2, <2>3 DEF Heard
<1>9. /\ UNCHANGED <<world, effects>>
      /\ node' = IF ~p \/ q THEN "finalize_case_handoff" ELSE "approval_node"
  BY <1>5 DEF check_refund_eligibility, Goto, route_after_policy
<1>10. Stage(node', w)
  BY <1>1, <1>5, <1>9 DEF Stage, BeforeComplaint, BeforeHandoff, BeforeOrder, BeforeRefund,
                          BeforeOperation
<1>11. \A r \in said : ~Critical(r)
  BY DEF Critical
<1>12. node' \in HearingTargets /\ (node' = "approval_node" => <<"refundable">> \in evidence')
  BY <1>3, <1>4, <1>9 DEF HearingTargets, QuietTargets
<1> QED
  BY <1>1, <1>4, <1>5, <1>7, <1>8, <1>9, <1>10, <1>11, <1>12, Hearing DEF Ordinary, Closing

(* What the customer and the rules answer is no sign of a risk. *)
LEMMA AnswersAreNoRisks ==
  \A q \in Answers : q[1] \notin {"hard_critical", "semantic", "risk_level"}
<1>1. /\ <<"refundable">>[1] = "refundable" /\ <<"yes to refund">>[1] = "yes to refund"
      /\ <<"yes to operation">>[1] = "yes to operation"
      /\ <<"yes to investigation">>[1] = "yes to investigation"
  OBVIOUS
<1> QED
  BY <1>1, Zenon DEF Answers

(* A step that keeps the facts and may hear an answer. *)
LEMMA SameFacts ==
  ASSUME ConvInv, node \notin Ordinary, effects' = effects, Facts(state') = Facts(state),
         NEW said, said \subseteq Answers, evidence' = evidence \cup said,
         node' \notin {"check_risk_rules", "attach_operation_case", "END"},
         Shape', Stage(node', Facts(state)), Answered', PendingReviews',
         CodesSupported(node, Facts(state))'
  PROVE  ConvInv'
<1>1. Heard(Facts(state), evidence) /\ Stage(node, Facts(state))
  BY DEF ConvInv, Ordinary
<1>2. Heard(Facts(state'), evidence')
  <2>1. \A r \in said : Says(Facts(state), r)
    BY DEF Says
  <2>2. Backed(Facts(state), evidence')
    BY <1>1 DEF Heard, Backed
  <2> QED
    BY <1>1, <2>1, <2>2 DEF Heard
<1>3. ~state'.provider_failure_case_persisted
  <2>1. ~Facts(state).failure
    BY <1>1 DEF Stage, Ordinary, Closing
  <2> QED
    BY <2>1 DEF Facts
<1>4. \A r \in evidence' : ~Critical(r)
  <2>1. \A r \in Answers : ~Critical(r)
    BY AnswersAreNoRisks DEF Critical
  <2> QED
    BY <2>1, NothingCritical
<1> QED
  BY <1>2, <1>3, <1>4, Advance DEF Ordinary

LEMMA MoreSupported ==
  ASSUME evidence \subseteq evidence', NEW r, Supported(r)
  PROVE  Supported(r)'
BY Zenon DEF Supported, OrderReviewReasons, DeliveryReasons

LEMMA ApprovalStep ==
  ASSUME ConvInv, NEW yes \in BOOLEAN, approval_node(yes)
  PROVE  ConvInv'
<1> PICK said : said = IF yes THEN {<<"yes to refund">>} ELSE {}
  BY Zenon
<1>1. /\ node = "approval_node" /\ node' = (IF yes THEN "proceed" ELSE "cancel")
      /\ evidence' = evidence \cup said /\ state' = state /\ UNCHANGED <<world, effects>>
  BY Zenon DEF approval_node, Goto, Hear
<1>2. said \subseteq Answers
  BY Zenon DEF Answers
<1>3. Shape' /\ Answered' /\ PendingReviews'
  BY <1>1, Zenon DEF ConvInv, Shape, Answered, PendingReviews, Pending, world
<1>4. Stage(node, Facts(state)) /\ CodesSupported(node, Facts(state))
  BY <1>1, Zenon DEF ConvInv
<1>5. Stage(node', Facts(state))
  BY <1>1, <1>4, Zenon DEF Stage, BeforeComplaint, BeforeHandoff, BeforeOrder, BeforeRefund,
                    BeforeOperation
<1>6. CodesSupported(node, Facts(state))'
  BY <1>1, <1>4, MoreSupported, Zenon DEF CodesSupported
<1> QED
  BY <1>1, <1>2, <1>3, <1>5, <1>6, SameFacts, Zenon DEF Ordinary, Closing

LEMMA LoadSteps == ConvInv /\ (load_operation_snapshot \/ extract_operation_request) => ConvInv'
<1> SUFFICES ASSUME ConvInv, load_operation_snapshot \/ extract_operation_request
             PROVE  ConvInv'
  OBVIOUS
<1> PICK said : said = {}
  BY Zenon
<1>1. /\ node \in {"load_operation_snapshot", "extract_operation_request"}
      /\ evidence' = evidence \cup said /\ UNCHANGED <<world, effects>>
      /\ node' \in {"extract_operation_request", "finalize_case_handoff",
                    "evaluate_operation_request"}
  BY Zenon DEF load_operation_snapshot, extract_operation_request, Goto
<1>2. Shape /\ Stage(node, Facts(state)) /\ CodesSupported(node, Facts(state))
  BY <1>1 DEF ConvInv
<1>3. /\ DOMAIN state' = Fields /\ Facts(state') = Facts(state)
      /\ node' \in {"extract_operation_request", "evaluate_operation_request"} =>
           state'.operation_snapshot \in Snapshots
      /\ node' = "evaluate_operation_request" => state'.operation_extraction \in Extractions
  <2>1. CASE load_operation_snapshot
    <3>1. PICK found, last :
            /\ state' = [state EXCEPT !.operation_snapshot = IF found THEN order ELSE None,
                                      !.last_order_id = last]
            /\ node' = IF found THEN "extract_operation_request" ELSE "finalize_case_handoff"
      BY <2>1, Zenon DEF load_operation_snapshot, Goto
    <3>2. DOMAIN state' = Fields /\ Facts(state') = Facts(state)
      BY <1>2, <3>1 DEF Shape, Facts, Fields
    <3>3. state'.operation_snapshot = IF found THEN order ELSE None
      BY <1>2, <3>1 DEF Shape, Fields
    <3> QED
      BY <1>2, <3>1, <3>2, <3>3 DEF Shape
  <2>2. CASE extract_operation_request
    <3>1. PICK e \in Extractions : state' = [state EXCEPT !.operation_extraction = e]
      BY <2>2 DEF extract_operation_request
    <3>2. DOMAIN state' = Fields /\ Facts(state') = Facts(state)
      BY <1>2, <3>1 DEF Shape, Facts, Fields
    <3>3. state'.operation_snapshot = state.operation_snapshot /\ state'.operation_extraction = e
      BY <1>2, <3>1 DEF Shape, Fields
    <3> QED
      BY <1>2, <2>2, <3>2, <3>3 DEF Shape, extract_operation_request
  <2> QED
    BY <2>1, <2>2
<1>4. Shape'
  BY <1>1, <1>2, <1>3 DEF Shape, world
<1>5. Answered' /\ PendingReviews'
  BY <1>1, Zenon DEF ConvInv, Answered, PendingReviews, Pending, world
<1>6. Stage(node', Facts(state))
  BY <1>1, <1>2 DEF Stage, BeforeComplaint, BeforeHandoff, BeforeOrder, BeforeRefund,
                    BeforeOperation
<1>7. CodesSupported(node, Facts(state))'
  BY <1>1, <1>2, <1>3, MoreSupported DEF CodesSupported
<1>8. said \subseteq Answers
  OBVIOUS
<1> QED
  BY <1>1, <1>3, <1>4, <1>5, <1>6, <1>7, <1>8, SameFacts DEF Ordinary, Closing

LEMMA ConfirmationStep ==
  ASSUME ConvInv, NEW yes \in BOOLEAN, operation_confirmation_node(yes)
  PROVE  ConvInv'
<1> PICK said : said = IF yes THEN {<<IF ~state.operation_id THEN "yes to investigation"
                                      ELSE "yes to operation">>} ELSE {}
  BY Zenon
<1>1. /\ node = "operation_confirmation" /\ state' = state /\ UNCHANGED <<world, effects>>
      /\ evidence' = evidence \cup said
  BY Zenon DEF operation_confirmation_node, Goto, Hear
<1>2. /\ Shape /\ Stage(node, Facts(state)) /\ CodesSupported(node, Facts(state))
      /\ PendingReviews /\ FactsTyped(Facts(state))
  BY <1>1, Zenon DEF ConvInv, Shape
<1>3. state.operation_id \in BOOLEAN /\ (state.operation_id => state.domain_case_reason_codes = {})
  BY <1>1, <1>2, Zenon DEF FactsTyped, Facts, Stage
<1>4. node' = IF ~state.operation_id
              THEN IF yes THEN "confirm_delivery_investigation"
                   ELSE "cancel_delivery_investigation"
              ELSE IF ~yes THEN "cancel_operation"
              ELSE IF state.operation_outcome = "manual_review"
              THEN "confirm_manual_operation" ELSE "submit_confirmed_operation"
  BY <1>3, Zenon DEF operation_confirmation_node, Goto
<1>5. said \subseteq Answers
  BY <1>3, Zenon DEF Answers
<1>6. Shape' /\ Answered' /\ PendingReviews'
  BY <1>1, <1>2, <1>3, <1>4, Zenon DEF Shape, Answered, PendingReviews, Pending, world
<1>7. Stage(node', Facts(state))
  BY <1>1, <1>2, <1>4, Zenon DEF Stage, BeforeComplaint, BeforeHandoff, BeforeOrder, BeforeRefund,
                          BeforeOperation
<1>8. CodesSupported(node, Facts(state))'
  <2> SUFFICES ASSUME NEW r \in state.domain_case_reason_codes
               PROVE  \/ Supported(r)'
                      \/ /\ node' = "cancel_delivery_investigation" /\ r[1] \in DeliveryReasons
    BY <1>1, Zenon DEF CodesSupported, Facts
  <2>1. Supported(r) \/ r[1] \in DeliveryReasons
    BY <1>2, Zenon DEF CodesSupported, Facts
  <2>2. CASE Supported(r)
    BY <1>1, <2>2, MoreSupported, Zenon
  <2>3. CASE yes /\ r[1] \in DeliveryReasons
    BY <1>1, <1>3, <2>3, Zenon DEF Supported, OrderReviewReasons, DeliveryReasons
  <2>4. CASE ~yes /\ r[1] \in DeliveryReasons
    BY <1>3, <1>4, <2>4
  <2> QED
    BY <2>1, <2>2, <2>3, <2>4, Zenon
<1> QED
  BY <1>1, <1>4, <1>5, <1>6, <1>7, <1>8, SameFacts, Zenon DEF Ordinary, Closing

LEMMA AmbiguousStep ==
  ASSUME ConvInv, evaluate_operation_request, state.operation_extraction.ambiguous
  PROVE  ConvInv'
<1>1. /\ node = "evaluate_operation_request" /\ DOMAIN state = Fields
      /\ Stage(node, Facts(state)) /\ FactsTyped(Facts(state))
  BY DEF evaluate_operation_request, ConvInv, Shape
<1>2. /\ state' = [state EXCEPT !.operation_outcome = "ambiguous"]
      /\ node' = IF NeedsConfirmation(state')
                 THEN "operation_confirmation" ELSE "finalize_case_handoff"
      /\ UNCHANGED <<world, evidence, effects>>
  BY DEF evaluate_operation_request, world
<1>3. DOMAIN state' = Fields /\ Facts(state') = Facts(state)
  BY <1>1, <1>2 DEF Facts, Fields
<1>4. state'.operation_id = FALSE /\ state'.operation_outcome = "ambiguous"
  <2>1. Facts(state).operation = FALSE
    BY <1>1 DEF Stage, FactsTyped, BeforeOperation
  <2> QED
    BY <1>1, <1>2, <2>1 DEF Facts, Fields
<1>5. node' = "finalize_case_handoff"
  BY <1>2, <1>4 DEF NeedsConfirmation
<1>6. Stage(node', Facts(state))
  BY <1>1, <1>5 DEF Stage, BeforeComplaint, BeforeHandoff, BeforeOrder, BeforeRefund,
                    BeforeOperation
<1> QED
  BY <1>1, <1>2, <1>3, <1>5, <1>6, Quiet DEF Closing, QuietTargets

SameHeard(v, w) ==
  /\ w.severity = v.severity /\ w.other = v.other
  /\ w.level = v.level /\ w.categories = v.categories /\ w.hard = v.hard
  /\ w.confirmed = v.confirmed /\ w.review = v.review

LEMMA TypedKept ==
  ASSUME NEW v, NEW w, SameHeard(v, w), FactsTyped(v), w.failure \in BOOLEAN,
         w.operation \in BOOLEAN
  PROVE  FactsTyped(w)
BY Zenon DEF SameHeard, FactsTyped

LEMMA HeardKept ==
  ASSUME NEW v, NEW w, SameHeard(v, w), NEW E, Heard(v, E)
  PROVE  Heard(w, E)
<1>1. \A r : Says(v, r) => Says(w, r)
  BY DEF SameHeard, Says
<1>2. Backed(w, E)
  BY DEF SameHeard, Heard, Backed
<1> QED
  BY <1>1, <1>2 DEF Heard

(* The facts change only in the codes and the operation. *)
LEMMA Evaluated ==
  ASSUME ConvInv, node = "evaluate_operation_request", UNCHANGED <<order, evidence, effects>>,
         DOMAIN state' = Fields, NEW codes, NEW o \in BOOLEAN,
         SameHeard(Facts(state), Facts(state')), Facts(state').codes = codes,
         Facts(state').operation = o, Facts(state').failure = Facts(state).failure,
         node' \in {"operation_confirmation", "finalize_case_handoff"},
         codes # {} => node' = "operation_confirmation" /\ ~o,
         \A r \in codes : r[1] \in DeliveryReasons,
         DOMAIN operation' = {"status", "manual", "reason"}, operation'.manual \in BOOLEAN,
         PendingReviews'
  PROVE  ConvInv'
<1> PICK v : v = Facts(state)
  OBVIOUS
<1> PICK w : w = Facts(state')
  OBVIOUS
<1>1. Shape /\ FactsTyped(v) /\ Heard(v, evidence) /\ Stage(node, v)
  BY DEF ConvInv, Shape
<1>2. /\ w.codes = codes /\ w.operation = o
      /\ w.severity = v.severity /\ w.other = v.other
      /\ w.level = v.level /\ w.categories = v.categories /\ w.hard = v.hard
      /\ w.confirmed = v.confirmed /\ w.review = v.review /\ w.failure = v.failure
  BY DEF SameHeard
<1>3. FactsTyped(w)
  BY <1>1, <1>2 DEF FactsTyped
<1>4. Shape'
  BY <1>1, <1>3 DEF Shape
<1>5. Heard(w, evidence')
  BY <1>1, HeardKept
<1>6. Stage(node', w) /\ ~w.failure
  BY <1>1, <1>2 DEF Stage, BeforeComplaint, BeforeHandoff, BeforeOrder, BeforeRefund,
                    BeforeOperation
<1>7. CodesSupported(node, Facts(state))'
  BY <1>2 DEF CodesSupported
<1>8. Answered'
  BY Zenon DEF Answered
<1>9. ~state'.provider_failure_case_persisted
  BY <1>6, Zenon DEF Facts
<1>10. \A r \in evidence' : ~Critical(r)
  BY NothingCritical DEF Ordinary, Closing
<1> QED
  BY <1>4, <1>5, <1>6, <1>7, <1>8, <1>9, <1>10, Advance DEF Closing

LEMMA DeliveryIssueStep ==
  ASSUME ConvInv, evaluate_operation_request, ~state.operation_extraction.ambiguous,
         state.operation_extraction.issue # None
  PROVE  ConvInv'
<1> DEFINE e == state.operation_extraction
<1>1. /\ node = "evaluate_operation_request" /\ DOMAIN state = Fields
      /\ Stage(node, Facts(state)) /\ FactsTyped(Facts(state)) /\ e \in Extractions /\ Shape
      /\ PendingReviews
  BY DEF evaluate_operation_request, ConvInv, Shape
<1>2. e.issue \in DeliveryIssueType
  BY <1>1, SchemasTyped
<1>3. PICK asked \in BOOLEAN :
        EvaluateDeliveryIssue(evaluate_delivery_issue(e.issue, state.operation_snapshot, Now, asked))
  BY DEF evaluate_operation_request
<1> PICK d : d = evaluate_delivery_issue(e.issue, state.operation_snapshot, Now, asked)
  OBVIOUS
<1>4. d.outcome = "manual_review" => d.reason \in DeliveryReasons
  BY <1>2, ManualDelivery
<1> PICK codes : codes = IF d.outcome = "manual_review" THEN {<<d.reason>>} ELSE {}
  BY Zenon
<1>5. /\ state' = [state EXCEPT !.operation_outcome = d.outcome,
                                !.domain_case_reason_codes = codes]
      /\ operation' = operation
  BY <1>3 DEF EvaluateDeliveryIssue
<1>6. Facts(state).operation = FALSE
  BY <1>1 DEF Stage, FactsTyped, BeforeOperation
<1>7. /\ DOMAIN state' = Fields /\ state'.operation_outcome = d.outcome
      /\ state'.domain_case_reason_codes = codes /\ state'.operation_id = FALSE
  BY <1>1, <1>5, <1>6 DEF Facts, Fields
<1>8. /\ SameHeard(Facts(state), Facts(state')) /\ Facts(state').codes = codes
      /\ Facts(state').operation = FALSE /\ Facts(state').failure = Facts(state).failure
  BY <1>1, <1>5, <1>6 DEF Facts, Fields, SameHeard
<1>9. /\ node' = IF d.outcome = "manual_review"
                 THEN "operation_confirmation" ELSE "finalize_case_handoff"
      /\ UNCHANGED <<order, evidence, effects>>
  <2>1. /\ node' = IF NeedsConfirmation(state')
                   THEN "operation_confirmation" ELSE "finalize_case_handoff"
        /\ UNCHANGED <<order, evidence, effects>>
    BY DEF evaluate_operation_request
  <2>2. NeedsConfirmation(state') <=> d.outcome = "manual_review"
    BY <1>7, Zenon DEF NeedsConfirmation
  <2> QED
    BY <2>1, <2>2
<1>10. \A r \in codes : r[1] \in DeliveryReasons
  <2>1. CASE d.outcome = "manual_review"
    <3>1. codes = {<<d.reason>>} /\ <<d.reason>>[1] = d.reason
      BY <2>1
    <3> QED
      BY <1>4, <2>1, <3>1
  <2> QED
    BY <2>1
<1>11. PendingReviews'
  BY <1>1, <1>5, <1>7, <1>9 DEF PendingReviews, Pending
<1>12. DOMAIN operation' = {"status", "manual", "reason"} /\ operation'.manual \in BOOLEAN
  BY <1>1, <1>5 DEF Shape
<1>13. codes # {} => node' = "operation_confirmation"
  BY <1>9
<1>14. node' \in {"operation_confirmation", "finalize_case_handoff"} /\ FALSE \in BOOLEAN
  BY <1>9
<1> PICK o : o = FALSE
  OBVIOUS
<1> QED
  BY <1>1, <1>7, <1>8, <1>9, <1>10, <1>11, <1>12, <1>13, <1>14, Evaluated, Zenon

LEMMA OperationRequestStep ==
  ASSUME ConvInv, evaluate_operation_request, ~state.operation_extraction.ambiguous,
         state.operation_extraction.issue = None
  PROVE  ConvInv'
<1> DEFINE e == state.operation_extraction
<1>1. /\ node = "evaluate_operation_request" /\ DOMAIN state = Fields
      /\ Stage(node, Facts(state)) /\ FactsTyped(Facts(state)) /\ e \in Extractions /\ Shape
      /\ PendingReviews /\ state.operation_snapshot \in Snapshots
  BY DEF evaluate_operation_request, ConvInv, Shape
<1>2. e.type \in OperationType
  BY <1>1, SchemasTyped
<1>3. PICK a \in Availability :
        EvaluateOperation(evaluate_operation(e.type, state.operation_snapshot, Now, a))
  BY Zenon DEF evaluate_operation_request, Availability
<1> PICK d : d = evaluate_operation(e.type, state.operation_snapshot, Now, a)
  OBVIOUS
<1>4. d.outcome = "manual_review" => d.reason \in OrderReviewReasons
  BY <1>1, <1>2, ManualOperation
<1>5. /\ node' = IF NeedsConfirmation(state')
                 THEN "operation_confirmation" ELSE "finalize_case_handoff"
      /\ UNCHANGED <<order, evidence, effects>>
  BY DEF evaluate_operation_request
<1>6. Facts(state).operation = FALSE /\ Facts(state).codes = {}
  BY <1>1 DEF Stage, FactsTyped, BeforeOperation
<1>7. CASE d.outcome \in {"eligible", "manual_review"}
  <2>1. /\ operation' = IF ActiveOperation THEN operation
                        ELSE [status |-> "pending_confirmation",
                              manual |-> d.outcome = "manual_review", reason |-> d.reason]
        /\ state' = [state EXCEPT !.operation_outcome = d.outcome, !.operation_id = TRUE,
                                  !.operation_status = operation'.status]
    BY <1>3, <1>7 DEF EvaluateOperation
  <2>2. /\ DOMAIN operation' = {"status", "manual", "reason"} /\ operation'.manual \in BOOLEAN
        /\ Pending' /\ operation'.manual => operation'.reason \in OrderReviewReasons
    BY <1>1, <1>4, <2>1, Zenon DEF Shape, PendingReviews, Pending
  <2>3. /\ DOMAIN state' = Fields /\ state'.operation_id = TRUE
        /\ state'.operation_status = operation'.status
    BY <1>1, <2>1 DEF Fields
  <2>4. /\ SameHeard(Facts(state), Facts(state')) /\ Facts(state').codes = {}
        /\ Facts(state').operation = TRUE /\ Facts(state').failure = Facts(state).failure
    BY <1>1, <1>6, <2>1 DEF Facts, Fields, SameHeard
  <2>5. node' = "operation_confirmation" => Pending'
    BY <1>5, <2>3 DEF NeedsConfirmation, Pending
  <2>6. PendingReviews' /\ node' \in {"operation_confirmation", "finalize_case_handoff"}
    BY <1>5, <2>2, <2>5 DEF PendingReviews
  <2> PICK o, codes : o = TRUE /\ codes = {}
    BY Zenon
  <2>7. o \in BOOLEAN /\ codes = {}
    OBVIOUS
  <2> QED
    BY <1>1, <1>5, <2>2, <2>3, <2>4, <2>6, <2>7, Evaluated, Zenon
<1>8. CASE d.outcome \notin {"eligible", "manual_review"}
  <2>1. state' = [state EXCEPT !.operation_outcome = d.outcome] /\ operation' = operation
    BY <1>3, <1>8 DEF EvaluateOperation
  <2>2. /\ DOMAIN state' = Fields /\ Facts(state') = Facts(state)
        /\ state'.operation_outcome = d.outcome
    BY <1>1, <2>1 DEF Facts, Fields
  <2>3. state'.operation_id = FALSE
    BY <1>6, <2>2 DEF Facts
  <2>4. node' = "finalize_case_handoff"
    BY <1>5, <1>8, <2>2, <2>3 DEF NeedsConfirmation
  <2>5. Stage(node', Facts(state))
    BY <1>1, <2>4 DEF Stage, BeforeComplaint, BeforeHandoff, BeforeOrder, BeforeRefund,
                      BeforeOperation
  <2>6. UNCHANGED <<world, evidence, effects>>
    BY <2>1 DEF evaluate_operation_request, world
  <2> QED
    BY <1>1, <2>2, <2>4, <2>5, <2>6, Quiet DEF Closing, QuietTargets
<1> QED
  BY <1>7, <1>8

LEMMA EvaluateStep == ConvInv /\ evaluate_operation_request => ConvInv'
<1> SUFFICES ASSUME ConvInv, evaluate_operation_request PROVE ConvInv'
  OBVIOUS
<1>1. CASE state.operation_extraction.ambiguous
  BY <1>1, AmbiguousStep
<1>2. CASE ~state.operation_extraction.ambiguous /\ state.operation_extraction.issue # None
  BY <1>2, DeliveryIssueStep
<1>3. CASE ~state.operation_extraction.ambiguous /\ state.operation_extraction.issue = None
  BY <1>3, OperationRequestStep
<1> QED
  BY <1>1, <1>2, <1>3

-----------------------------------------------------------------------------
(* Steps that persist something and close the turn. *)
LEMMA Persist ==
  ASSUME ConvInv, node \notin Ordinary, node' = "finalize_case_handoff",
         UNCHANGED <<order, evidence>>, DOMAIN state' = Fields,
         SameHeard(Facts(state), Facts(state')), FactsTyped(Facts(state')),
         DOMAIN operation' = {"status", "manual", "reason"}, operation'.manual \in BOOLEAN,
         Pending' /\ operation'.manual => operation'.reason \in OrderReviewReasons,
         \A r \in state'.domain_case_reason_codes : Supported(r), SupportedByThisTurn',
         state'.provider_failure_case_persisted => FellBack'
  PROVE  ConvInv'
<1>1. Shape /\ Heard(Facts(state), evidence) /\ Stage(node, Facts(state))
  BY DEF ConvInv, Ordinary
<1>2. Shape'
  BY <1>1 DEF Shape
<1>3. Heard(Facts(state'), evidence')
  BY <1>1, HeardKept
<1>4. Stage(node', Facts(state'))
  BY <1>1, Zenon DEF Stage, SameHeard, BeforeComplaint, BeforeHandoff, BeforeOrder, BeforeRefund,
              BeforeOperation
<1>5. CodesSupported(node, Facts(state))'
  <2>1. ASSUME NEW r, Supported(r) PROVE Supported(r)'
    BY <2>1, MoreSupported
  <2> QED
    BY <2>1 DEF CodesSupported, Facts
<1>6. Answered' /\ PendingReviews'
  BY DEF Answered, PendingReviews
<1>7. SafetyInv'
  <2>1. \A r \in evidence' : ~Critical(r)
    BY NothingCritical
  <2> QED
    BY <2>1 DEF SafetyInv
<1>8. KeptInv'
  BY DEF KeptInv
<1> QED
  BY <1>2, <1>3, <1>4, <1>5, <1>6, <1>7, <1>8 DEF ConvInv, Closing

LEMMA NoCases ==
  ASSUME \A e \in effects' : e[1] # "case"
  PROVE  CaseReasons' = {}
BY DEF CaseReasons, Cases

LEMMA RefundStep == ConvInv /\ create_refund_node => ConvInv'
<1> SUFFICES ASSUME ConvInv, create_refund_node PROVE ConvInv'
  OBVIOUS
<1>1. /\ node = "proceed" /\ node' = "finalize_case_handoff" /\ state' = state
      /\ UNCHANGED <<order, operation, evidence>> /\ effects' \subseteq effects \cup {<<"refund">>}
  BY DEF create_refund_node
<1>2. /\ effects = {} /\ Shape /\ FactsTyped(Facts(state)) /\ PendingReviews
      /\ Stage(node, Facts(state)) /\ CodesSupported(node, Facts(state))
      /\ {<<"yes to refund">>, <<"refundable">>} \subseteq evidence
  BY <1>1, Zenon DEF ConvInv, Shape, Answered, Closing
<1>3. SameHeard(Facts(state), Facts(state'))
  BY <1>1 DEF SameHeard
<1>4. \A e \in effects' : e[1] = "refund"
  <2>1. <<"refund">>[1] = "refund"
    OBVIOUS
  <2> QED
    BY <1>1, <1>2, <2>1, Zenon
<1>5. SupportedByThisTurn'
  BY <1>1, <1>2, <1>4, NoCases, Zenon DEF SupportedByThisTurn
<1>6. \A r \in state'.domain_case_reason_codes : Supported(r)
  BY <1>1, <1>2, Zenon DEF CodesSupported, Facts
<1>7. ~state'.provider_failure_case_persisted
  BY <1>1, <1>2, Zenon DEF Stage, Facts
<1>8. /\ DOMAIN state' = Fields /\ FactsTyped(Facts(state'))
      /\ DOMAIN operation' = {"status", "manual", "reason"} /\ operation'.manual \in BOOLEAN
      /\ Pending' /\ operation'.manual => operation'.reason \in OrderReviewReasons
  BY <1>1, <1>2, Zenon DEF Shape, PendingReviews, Pending
<1> QED
  BY <1>1, <1>3, <1>5, <1>6, <1>7, <1>8, Persist DEF Ordinary, Closing

LEMMA RefusedStep ==
  ASSUME ConvInv, Refused,
         node \in {"submit_confirmed_operation", "confirm_manual_operation", "cancel_operation"}
  PROVE  ConvInv'
<1>1. node' = "raised" /\ state' = state /\ UNCHANGED <<world, evidence, effects>>
  BY DEF Refused
<1>2. DOMAIN state = Fields /\ Stage(node, Facts(state))
  BY DEF ConvInv, Shape
<1>3. Stage(node', Facts(state))
  BY <1>1, <1>2 DEF Stage, BeforeComplaint, BeforeHandoff, BeforeOrder, BeforeRefund,
                    BeforeOperation
<1> QED
  BY <1>1, <1>2, <1>3, Quiet DEF Closing, QuietTargets

LEMMA SubmitStep == ConvInv /\ submit_confirmed_operation => ConvInv'
<1> SUFFICES ASSUME ConvInv, submit_confirmed_operation PROVE ConvInv'
  OBVIOUS
<1>1. /\ node = "submit_confirmed_operation" /\ effects = {} /\ Shape
      /\ FactsTyped(Facts(state)) /\ DOMAIN state = Fields /\ <<"yes to operation">> \in evidence
      /\ Stage(node, Facts(state)) /\ CodesSupported(node, Facts(state))
  BY Zenon DEF ConvInv, Shape, Answered, Closing, submit_confirmed_operation
<1>2. \A r \in state.domain_case_reason_codes : Supported(r)
  BY <1>1, Zenon DEF CodesSupported, Facts
<1> DEFINE case == [should_create_case |-> TRUE, case_type |-> "order_operation_review",
                    priority |-> 1, reason_codes |-> {<<"provider_delivery_failed">>}]
<1>3. ASSUME NEW did, did \subseteq {<<"queued", order>>},
             Finish([operation EXCEPT !.status = "queued"],
                    [state EXCEPT !.operation_status = "queued"], did)
      PROVE  ConvInv'
  <2>1. /\ operation' = [operation EXCEPT !.status = "queued"]
        /\ state' = [state EXCEPT !.operation_status = "queued"] /\ effects' = did
        /\ node' = "finalize_case_handoff" /\ UNCHANGED <<order, evidence>>
    BY <1>1, <1>3, Zenon DEF Finish
  <2>2. DOMAIN state' = Fields /\ Facts(state') = Facts(state)
    BY <1>1, <2>1, Zenon DEF Facts, Fields
  <2>3. \A e \in effects' : e[1] = "queued"
    BY <1>3, <2>1
  <2>4. SupportedByThisTurn'
    BY <1>1, <2>1, <2>3, NoCases, Zenon DEF SupportedByThisTurn
  <2>5. /\ SameHeard(Facts(state), Facts(state')) /\ FactsTyped(Facts(state'))
        /\ \A r \in state'.domain_case_reason_codes : Supported(r)
        /\ ~state'.provider_failure_case_persisted
    BY <1>1, <1>2, <2>2, Zenon DEF SameHeard, Facts, Stage
  <2>6. /\ DOMAIN operation' = {"status", "manual", "reason"} /\ operation'.manual \in BOOLEAN
        /\ ~Pending'
    BY <1>1, <2>1, Zenon DEF Shape, Pending
  <2> QED
    BY <1>1, <2>1, <2>2, <2>4, <2>5, <2>6, Persist, Zenon DEF Ordinary, Closing
<1>4. ASSUME Finish([operation EXCEPT !.status = "manual_review", !.manual = TRUE],
                    [state EXCEPT !.operation_status = "manual_review",
                                  !.support_case = case,
                                  !.provider_failure_case_persisted = TRUE],
                    {<<"case", case>>})
      PROVE  ConvInv'
  <2> HIDE DEF case
  <2>1. /\ operation' = [operation EXCEPT !.status = "manual_review", !.manual = TRUE]
        /\ state' = [state EXCEPT !.operation_status = "manual_review",
                                  !.support_case = case,
                                  !.provider_failure_case_persisted = TRUE]
        /\ effects' = {<<"case", case>>}
        /\ node' = "finalize_case_handoff" /\ UNCHANGED <<order, evidence>>
    BY <1>1, <1>4, Zenon DEF Finish
  <2>2. /\ DOMAIN state' = Fields /\ SameHeard(Facts(state), Facts(state'))
        /\ FactsTyped(Facts(state'))
        /\ state'.domain_case_reason_codes = state.domain_case_reason_codes
    <3>1. DOMAIN state' = Fields
      BY <1>1, <2>1, Zenon
    <3>2. /\ SameHeard(Facts(state), Facts(state'))
          /\ state'.domain_case_reason_codes = state.domain_case_reason_codes
          /\ Facts(state').operation = Facts(state).operation
      BY <1>1, <2>1 DEF Facts, Fields, SameHeard
    <3>3. Facts(state').failure = TRUE
      BY <1>1, <2>1 DEF Facts, Fields
    <3> QED
      BY <1>1, <3>1, <3>2, <3>3, TypedKept, Zenon DEF FactsTyped
  <2>3. Cases' = {case}
    <3>1. <<"case", case>>[1] = "case" /\ <<"case", case>>[2] = case
      OBVIOUS
    <3> QED
      BY <2>1, <3>1, Zenon DEF Cases
  <2>4. /\ case.case_type = "order_operation_review"
        /\ case.reason_codes = {<<"provider_delivery_failed">>}
    BY DEF case
  <2>5. FellBack'
    BY <2>3, <2>4 DEF FellBack
  <2>6. CaseReasons' = {<<"provider_delivery_failed">>}
    BY <2>3, <2>4 DEF CaseReasons
  <2>7. Supported(<<"provider_delivery_failed">>)'
    BY <1>1, <2>1, Zenon DEF Supported, OrderReviewReasons, DeliveryReasons
  <2>8. \A e \in effects' : e[1] = "case"
    BY <2>1
  <2>9. SupportedByThisTurn'
    BY <2>6, <2>7, <2>8, Zenon DEF SupportedByThisTurn
  <2>10. /\ DOMAIN operation' = {"status", "manual", "reason"} /\ operation'.manual \in BOOLEAN
         /\ ~Pending'
    BY <1>1, <2>1, Zenon DEF Shape, Pending
  <2> QED
    BY <1>1, <1>2, <2>1, <2>2, <2>5, <2>9, <2>10, Persist, Zenon DEF Ordinary, Closing
<1>5. CASE Refused
  BY <1>1, <1>5, RefusedStep, Zenon
<1>6. PICK did : did = IF Pending THEN {<<"queued", order>>} ELSE {}
  BY Zenon
<1>7. did \subseteq {<<"queued", order>>}
  BY <1>6
<1> HIDE DEF case
<1>8. \/ Finish([operation EXCEPT !.status = "queued"],
                [state EXCEPT !.operation_status = "queued"], did)
      \/ Finish([operation EXCEPT !.status = "manual_review", !.manual = TRUE],
                [state EXCEPT !.operation_status = "manual_review", !.support_case = case,
                              !.provider_failure_case_persisted = TRUE],
                {<<"case", case>>})
      \/ Refused
  BY <1>6, Zenon DEF submit_confirmed_operation, case
<1> QED
  BY <1>3, <1>4, <1>5, <1>7, <1>8

LEMMA ManualStep == ConvInv /\ confirm_manual_operation => ConvInv'
<1> SUFFICES ASSUME ConvInv, confirm_manual_operation PROVE ConvInv'
  OBVIOUS
<1>1. /\ node = "confirm_manual_operation" /\ effects = {} /\ Shape
      /\ FactsTyped(Facts(state)) /\ DOMAIN state = Fields /\ <<"yes to operation">> \in evidence
      /\ Stage(node, Facts(state)) /\ PendingReviews /\ Pending
  BY Zenon DEF ConvInv, Shape, Answered, PendingReviews, Closing, confirm_manual_operation
<1>2. CASE Refused
  BY <1>1, <1>2, RefusedStep, Zenon
<1>3. CASE operation.manual /\ ~Refused
  <2> PICK row : row = [operation EXCEPT !.status = "manual_review"]
    BY Zenon
  <2>1. /\ operation' = row /\ effects' = effects \cup {<<"reviewed">>}
        /\ state' = [state EXCEPT !.operation_status = row.status,
                                  !.domain_case_reason_codes = {<<row.reason>>}]
        /\ node' = "finalize_case_handoff" /\ UNCHANGED <<order, evidence>>
    BY <1>1, <1>3, Zenon DEF confirm_manual_operation, Finish
  <2>2. /\ DOMAIN row = {"status", "manual", "reason"} /\ row.manual \in BOOLEAN
        /\ row.status = "manual_review" /\ row.reason = operation.reason
    BY <1>1, Zenon DEF Shape
  <2>3. operation.reason \in OrderReviewReasons
    BY <1>1, <1>3, Zenon DEF PendingReviews
  <2> PICK codes : codes = {<<row.reason>>}
    BY Zenon
  <2>4. \A r \in codes : Supported(r)
    <3>1. ASSUME NEW q, q \in OrderReviewReasons PROVE Supported(<<q>>)
      <4>1. <<q>>[1] = q
        OBVIOUS
      <4> QED
        BY <1>1, <3>1, <4>1, Zenon DEF Supported, OrderReviewReasons, DeliveryReasons
    <3> QED
      BY <2>2, <2>3, <3>1
  <2>5. /\ DOMAIN state' = Fields /\ SameHeard(Facts(state), Facts(state'))
        /\ FactsTyped(Facts(state')) /\ state'.domain_case_reason_codes = codes
        /\ state'.provider_failure_case_persisted = state.provider_failure_case_persisted
    <3>1. DOMAIN state' = Fields
      BY <1>1, <2>1, Zenon
    <3>2. /\ SameHeard(Facts(state), Facts(state')) /\ state'.domain_case_reason_codes = codes
          /\ state'.provider_failure_case_persisted = state.provider_failure_case_persisted
      BY <1>1, <2>1 DEF Facts, Fields, SameHeard
    <3>3. /\ Facts(state').failure = Facts(state).failure
          /\ Facts(state').operation = Facts(state).operation
      BY <1>1, <2>1 DEF Facts, Fields
    <3> QED
      BY <1>1, <3>1, <3>2, <3>3, TypedKept, Zenon DEF FactsTyped
  <2>6. ~state.provider_failure_case_persisted
    BY <1>1, Zenon DEF Stage, Facts
  <2>7. \A e \in effects' : e[1] = "reviewed"
    <3>1. <<"reviewed">>[1] = "reviewed"
      OBVIOUS
    <3> QED
      BY <1>1, <2>1, <3>1, Zenon
  <2>8. SupportedByThisTurn'
    BY <1>1, <2>1, <2>7, NoCases, Zenon DEF SupportedByThisTurn
  <2>9. ~Pending'
    BY <2>1, <2>2 DEF Pending
  <2> QED
    BY <1>1, <2>1, <2>2, <2>4, <2>5, <2>6, <2>8, <2>9, Persist, Zenon DEF Ordinary, Closing
<1>4. operation.manual \/ Refused
  BY DEF confirm_manual_operation
<1> QED
  BY <1>2, <1>3, <1>4

LEMMA CancelStep == ConvInv /\ cancel_operation => ConvInv'
<1> SUFFICES ASSUME ConvInv, cancel_operation PROVE ConvInv'
  OBVIOUS
<1>1. /\ node = "cancel_operation" /\ effects = {} /\ Shape
      /\ FactsTyped(Facts(state)) /\ DOMAIN state = Fields
      /\ Stage(node, Facts(state)) /\ CodesSupported(node, Facts(state))
  BY DEF ConvInv, Shape, Closing, cancel_operation
<1>2. CASE Refused
  BY <1>1, <1>2, RefusedStep
<1>3. CASE Finish([operation EXCEPT !.status = "cancelled_by_customer"],
                  [state EXCEPT !.operation_status = "cancelled_by_customer"], {})
  <2>1. /\ operation' = [operation EXCEPT !.status = "cancelled_by_customer"]
        /\ state' = [state EXCEPT !.operation_status = "cancelled_by_customer"]
        /\ effects' = {} /\ node' = "finalize_case_handoff" /\ UNCHANGED <<order, evidence>>
    BY <1>1, <1>3 DEF Finish
  <2>2. DOMAIN state' = Fields /\ Facts(state') = Facts(state)
    BY <1>1, <2>1 DEF Facts, Fields
  <2>3. SupportedByThisTurn'
    BY <2>1, NoCases DEF SupportedByThisTurn
  <2>4. /\ SameHeard(Facts(state), Facts(state')) /\ FactsTyped(Facts(state'))
        /\ \A r \in state'.domain_case_reason_codes : Supported(r)
        /\ ~state'.provider_failure_case_persisted
    BY <1>1, <2>2, Zenon DEF SameHeard, Facts, Stage, CodesSupported
  <2>5. /\ DOMAIN operation' = {"status", "manual", "reason"} /\ operation'.manual \in BOOLEAN
        /\ ~Pending'
    BY <1>1, <2>1 DEF Shape, Pending
  <2> QED
    BY <1>1, <2>1, <2>2, <2>3, <2>4, <2>5, Persist DEF Ordinary, Closing
<1> QED
  BY <1>2, <1>3 DEF cancel_operation

LEMMA InvestigationSteps ==
  ConvInv /\ (confirm_delivery_investigation \/ cancel_delivery_investigation) => ConvInv'
<1> SUFFICES ASSUME ConvInv, confirm_delivery_investigation \/ cancel_delivery_investigation
             PROVE  ConvInv'
  OBVIOUS
<1>1. /\ node \in {"confirm_delivery_investigation", "cancel_delivery_investigation"}
      /\ node' = "finalize_case_handoff" /\ UNCHANGED <<order, operation, evidence>>
  BY Zenon DEF confirm_delivery_investigation, cancel_delivery_investigation, Finish
<1>2. /\ effects = {} /\ Shape /\ FactsTyped(Facts(state)) /\ DOMAIN state = Fields
      /\ Stage(node, Facts(state)) /\ CodesSupported(node, Facts(state)) /\ PendingReviews
      /\ node = "confirm_delivery_investigation" => <<"yes to investigation">> \in evidence
  BY <1>1, Zenon DEF ConvInv, Shape, Answered, Closing
<1>3. /\ DOMAIN operation' = {"status", "manual", "reason"} /\ operation'.manual \in BOOLEAN
      /\ Pending' /\ operation'.manual => operation'.reason \in OrderReviewReasons
  BY <1>1, <1>2, Zenon DEF Shape, PendingReviews, Pending
<1>4. ~Facts(state).failure
  BY <1>1, <1>2, Zenon DEF Stage
<1>5. /\ DOMAIN state' = Fields /\ SameHeard(Facts(state), Facts(state'))
      /\ FactsTyped(Facts(state')) /\ ~state'.provider_failure_case_persisted
      /\ \A r \in state'.domain_case_reason_codes : Supported(r)
      /\ SupportedByThisTurn'
  <2>1. CASE confirm_delivery_investigation
    <3>1. /\ state' = [state EXCEPT !.operation_status = "submitted"]
          /\ effects' = {<<"told opened">>} /\ node = "confirm_delivery_investigation"
      BY <1>2, <2>1, Zenon DEF confirm_delivery_investigation, Finish
    <3>2. DOMAIN state' = Fields /\ Facts(state') = Facts(state)
      BY <1>2, <3>1, Zenon DEF Facts, Fields
    <3>3. \A e \in effects' : e[1] = "told opened"
      <4>1. <<"told opened">>[1] = "told opened"
        OBVIOUS
      <4> QED
        BY <3>1, <4>1, Zenon
    <3>4. SupportedByThisTurn'
      BY <1>1, <1>2, <3>1, <3>3, NoCases, Zenon DEF SupportedByThisTurn
    <3>5. /\ SameHeard(Facts(state), Facts(state')) /\ FactsTyped(Facts(state'))
          /\ ~state'.provider_failure_case_persisted
      BY <1>2, <1>4, <3>2, Zenon DEF SameHeard, Facts
    <3>6. \A r \in state'.domain_case_reason_codes : Supported(r)
      BY <1>2, <3>1, <3>2, Zenon DEF CodesSupported, Facts
    <3> QED
      BY <3>2, <3>4, <3>5, <3>6
  <2>2. CASE cancel_delivery_investigation
    <3>1. /\ state' = [state EXCEPT !.operation_status = "cancelled",
                                    !.domain_case_reason_codes = {}]
          /\ effects' = {}
      BY <1>2, <2>2 DEF cancel_delivery_investigation, Finish
    <3>2. /\ DOMAIN state' = Fields /\ SameHeard(Facts(state), Facts(state'))
          /\ FactsTyped(Facts(state')) /\ ~state'.provider_failure_case_persisted
          /\ state'.domain_case_reason_codes = {}
      <4>1. DOMAIN state' = Fields
        BY <1>2, <3>1, Zenon
      <4>2. SameHeard(Facts(state), Facts(state')) /\ state'.domain_case_reason_codes = {}
        BY <1>2, <3>1 DEF Facts, Fields, SameHeard
      <4>3. /\ Facts(state').failure = Facts(state).failure
            /\ Facts(state').operation = Facts(state).operation
        BY <1>2, <3>1 DEF Facts, Fields
      <4>4. state'.provider_failure_case_persisted = Facts(state').failure
        BY DEF Facts
      <4>5. FactsTyped(Facts(state'))
        BY <1>2, <4>2, <4>3, TypedKept, Zenon DEF FactsTyped
      <4> QED
        BY <1>4, <4>1, <4>2, <4>3, <4>4, <4>5, Zenon
    <3>3. SupportedByThisTurn'
      BY <3>1, NoCases DEF SupportedByThisTurn
    <3> QED
      BY <3>2, <3>3, Zenon
  <2> QED
    BY <2>1, <2>2
<1> QED
  BY <1>1, <1>3, <1>5, Persist, Zenon DEF Ordinary, Closing

-----------------------------------------------------------------------------
(* The case a turn ends with. *)
LEMMA Smallest ==
  ASSUME NEW S \in SUBSET (0 .. 8), S # {}
  PROVE  Min(S) \in S /\ \A y \in S : Min(S) <= y
<1>1. \E x \in S : \A y \in S : x <= y
  <2> SUFFICES ASSUME \A x \in S : \E y \in S : ~(x <= y) PROVE FALSE
    OBVIOUS
  <2>0. 0 \notin S
    OBVIOUS
  <2>1. 1 \notin S
    BY <2>0
  <2>2. 2 \notin S
    BY <2>0, <2>1
  <2>3. 3 \notin S
    BY <2>0, <2>1, <2>2
  <2>4. 4 \notin S
    BY <2>0, <2>1, <2>2, <2>3
  <2>5. 5 \notin S
    BY <2>0, <2>1, <2>2, <2>3, <2>4
  <2>6. 6 \notin S
    BY <2>0, <2>1, <2>2, <2>3, <2>4, <2>5
  <2>7. 7 \notin S
    BY <2>0, <2>1, <2>2, <2>3, <2>4, <2>5, <2>6
  <2>8. \A x \in S : x = 8
    BY <2>0, <2>1, <2>2, <2>3, <2>4, <2>5, <2>6, <2>7
  <2>9. PICK x \in S : TRUE
    BY Zenon
  <2> QED
    BY <2>8, <2>9
<1> QED
  BY <1>1, Zenon DEF Min

CaseTypes ==
  {"safety_review", "staff_conduct_complaint", "business_escalation", "refund_review",
   "order_operation_review", "delivery_investigation", "general_support", "other_complaint"}

LEMMA Ranks ==
  /\ \A t \in CaseTypes : CaseTypeRank(t) \in 1 .. 8 /\ CASE_TYPES[CaseTypeRank(t)] = t
  /\ CaseTypeRank("safety_review") = 1 /\ CaseTypeRank("business_escalation") = 3
  /\ CaseTypeRank("delivery_investigation") = 6
<1>1. DOMAIN CASE_TYPES = 1 .. 8 /\ \A t \in CaseTypes : \E i \in 1 .. 8 : CASE_TYPES[i] = t
  BY DEF CASE_TYPES, CaseTypes
<1>2. \A t \in CaseTypes : CaseTypeRank(t) \in 1 .. 8 /\ CASE_TYPES[CaseTypeRank(t)] = t
  BY <1>1, Zenon DEF CaseTypeRank
<1>3. /\ \A i \in 1 .. 8 : CASE_TYPES[i] = "safety_review" => i = 1
      /\ \A i \in 1 .. 8 : CASE_TYPES[i] = "business_escalation" => i = 3
      /\ \A i \in 1 .. 8 : CASE_TYPES[i] = "delivery_investigation" => i = 6
  BY DEF CASE_TYPES
<1>4. {"safety_review", "business_escalation", "delivery_investigation"} \subseteq CaseTypes
  BY DEF CaseTypes
<1> QED
  BY <1>2, <1>3, <1>4

Weighed(r) == ReasonCaseType(r) \in CaseTypes /\ ReasonPriority(r) \in 0 .. 3

(* The case is as urgent as each of its reasons, and of the type of one of    *)
(* them that no other reason precedes.                                        *)
LEMMA PolicyCase ==
  ASSUME NEW reasons, reasons # {}, \A r \in reasons : Weighed(r)
  PROVE  /\ MostUrgent(reasons) \in 0 .. 8
         /\ \A r \in reasons : MostUrgent(reasons) <= ReasonPriority(r)
         /\ \A r \in reasons :
              CaseTypeRank(PrimaryType(reasons)) <= CaseTypeRank(ReasonCaseType(r))
         /\ \E r \in reasons : PrimaryType(reasons) = ReasonCaseType(r)
<1> DEFINE P == {ReasonPriority(r) : r \in reasons}
           R == {CaseTypeRank(ReasonCaseType(r)) : r \in reasons}
<1>1. P \in SUBSET (0 .. 8) /\ P # {}
  BY DEF Weighed
<1>2. R \in SUBSET (0 .. 8) /\ R # {}
  BY Ranks DEF Weighed
<1>3. MostUrgent(reasons) = Min(P) /\ PrimaryType(reasons) = CASE_TYPES[Min(R)]
  BY Zenon DEF MostUrgent, PrimaryType
<1>4. \A r \in reasons : ReasonPriority(r) \in P /\ CaseTypeRank(ReasonCaseType(r)) \in R
  OBVIOUS
<1>5. \A m \in R : \E r \in reasons : m = CaseTypeRank(ReasonCaseType(r))
  OBVIOUS
<1> HIDE DEF P, R
<1>6. Min(P) \in 0 .. 8 /\ \A y \in P : Min(P) <= y
  BY <1>1, Smallest, Zenon
<1>7. Min(R) \in R /\ \A y \in R : Min(R) <= y
  BY <1>2, Smallest, Zenon
<1>8. PICK r \in reasons : Min(R) = CaseTypeRank(ReasonCaseType(r))
  BY <1>5, <1>7
<1>9. PrimaryType(reasons) = ReasonCaseType(r)
  BY <1>3, <1>8, Ranks DEF Weighed
<1> QED
  BY <1>3, <1>4, <1>6, <1>7, <1>8, <1>9

LEMMA ReasonForms ==
  ASSUME NEW s, NEW v, v = Facts(s), NEW r
  PROVE  r \in HandoffReasons(build_handoff_policy_input(s)) <=>
           \/ \E c \in v.hard : r = <<"hard_critical", c>>
           \/ /\ v.level \in {"medium", "high", "critical"}
              /\ \E c \in v.categories : r = <<"semantic", v.level, c>>
           \/ v.severity # "absent" /\ r = <<"staff_conduct", v.severity>>
           \/ v.review /\ r = <<"refund_manual_review">>
           \/ v.confirmed /\ r = <<"confirmed_human_request">>
           \/ v.other /\ r = <<"explicit_other_complaint">>
           \/ r \in v.codes
<1> PICK i : i = build_handoff_policy_input(s)
  OBVIOUS
<1>1. /\ i.hard_critical_categories = v.hard /\ i.semantic_risk_level = v.level
      /\ i.semantic_risk_categories = v.categories
      /\ i.staff_complaint_severity = v.severity
      /\ i.refund_requires_manual_review = v.review /\ i.human_handoff_confirmed = v.confirmed
      /\ i.explicit_other_complaint = v.other /\ i.domain_case_reason_codes = v.codes
  BY DEF build_handoff_policy_input, Facts
<1> QED
  BY <1>1 DEF HandoffReasons

LEMMA InputForm ==
  ASSUME NEW s, NEW v, v = Facts(s)
  PROVE  InputIsValid(build_handoff_policy_input(s)) <=>
           /\ v.level \in {"unknown", "none"} <=> v.categories = {}
           /\ v.codes \subseteq DomainReasons
<1> PICK i : i = build_handoff_policy_input(s)
  OBVIOUS
<1>1. /\ i.semantic_risk_level = v.level /\ i.semantic_risk_categories = v.categories
      /\ i.domain_case_reason_codes = v.codes
  BY DEF build_handoff_policy_input, Facts
<1> QED
  BY <1>1 DEF InputIsValid

(* At the end of a turn: the reasons the policy finds, against the evidence. *)
LEMMA ReasonsSupported ==
  ASSUME NEW v, v = Facts(state), Backed(v, evidence), \A q \in v.codes : Supported(q),
         NEW r \in HandoffReasons(build_handoff_policy_input(state))
  PROVE  Supported(r)
<1>1. ASSUME NEW k \in {"hard_critical", "semantic", "staff_conduct", "refund_manual_review",
                       "confirmed_human_request", "explicit_other_complaint"},
             NEW q \in evidence, q[1] = k
      PROVE  Supported(q)
  BY <1>1, Zenon DEF Supported, OrderReviewReasons, DeliveryReasons
<1>2. CASE \E c \in v.hard : r = <<"hard_critical", c>>
  <2>1. r \in evidence /\ r[1] = "hard_critical"
    BY <1>2 DEF Backed
  <2> QED
    BY <1>1, <2>1
<1>3. CASE \E c \in v.categories : r = <<"semantic", v.level, c>>
  <2>1. r \in evidence /\ r[1] = "semantic"
    BY <1>3 DEF Backed
  <2> QED
    BY <1>1, <2>1
<1>4. CASE v.severity # "absent" /\ r = <<"staff_conduct", v.severity>>
  <2>1. r \in evidence /\ r[1] = "staff_conduct"
    BY <1>4 DEF Backed
  <2> QED
    BY <1>1, <2>1
<1>5. CASE v.review /\ r = <<"refund_manual_review">>
  <2>1. r \in evidence /\ r[1] = "refund_manual_review"
    BY <1>5 DEF Backed
  <2> QED
    BY <1>1, <2>1
<1>6. CASE v.confirmed /\ r = <<"confirmed_human_request">>
  <2>1. r \in evidence /\ r[1] = "confirmed_human_request"
    BY <1>6 DEF Backed
  <2> QED
    BY <1>1, <2>1
<1>7. CASE v.other /\ r = <<"explicit_other_complaint">>
  <2>1. r \in evidence /\ r[1] = "explicit_other_complaint"
    BY <1>7 DEF Backed
  <2> QED
    BY <1>1, <2>1
<1>8. CASE r \in v.codes
  BY <1>8
<1> QED
  BY <1>2, <1>3, <1>4, <1>5, <1>6, <1>7, <1>8, ReasonForms, Zenon

LEMMA ReasonsKept ==
  ASSUME NEW v, v = Facts(state), FactsTyped(v), \A q \in evidence : Says(v, q),
         InputIsValid(build_handoff_policy_input(state)),
         NEW r \in evidence, CaseCreating(r)
  PROVE  r \in HandoffReasons(build_handoff_policy_input(state))
<1>1. (\A q \in Answers : ~CaseCreating(q)) /\ ~CaseCreating(<<"risk_level", v.level>>)
  <2>1. /\ <<"refundable">>[1] = "refundable" /\ <<"yes to refund">>[1] = "yes to refund"
        /\ <<"yes to operation">>[1] = "yes to operation"
        /\ <<"yes to investigation">>[1] = "yes to investigation"
        /\ <<"risk_level", v.level>>[1] = "risk_level"
    OBVIOUS
  <2>2. \A q \in Answers : q[1] \in {"refundable", "yes to refund", "yes to operation",
                                     "yes to investigation"}
    BY <2>1, Zenon DEF Answers
  <2> QED
    BY <2>1, <2>2, Zenon DEF CaseCreating
<1>2. Says(v, r) /\ r \notin Answers /\ r # <<"risk_level", v.level>>
  BY <1>1
<1>3. ASSUME NEW c \in v.categories, r = <<"semantic", v.level, c>>
      PROVE  v.level \in {"medium", "high", "critical"}
  <2>1. v.level \notin {"unknown", "none"}
    BY <1>3, InputForm
  <2>2. r[1] = "semantic" /\ r[2] = v.level
    BY <1>3
  <2>3. v.level # "low"
    BY <2>2 DEF CaseCreating
  <2> QED
    BY <2>1, <2>3 DEF FactsTyped
<1> QED
  BY <1>2, <1>3, ReasonForms DEF Says

LEMMA ReasonsWeighed ==
  ASSUME NEW v, v = Facts(state), FactsTyped(v),
         InputIsValid(build_handoff_policy_input(state)),
         NEW r \in HandoffReasons(build_handoff_policy_input(state))
  PROVE  Weighed(r) /\ (ReasonCaseType(r) = "delivery_investigation" =>
                          r \in v.codes /\ r[1] \in DeliveryReasons)
<1>1. ASSUME r[1] \in {"hard_critical", "semantic"}
      PROVE  /\ ReasonPriority(r) \in 0 .. 3
             /\ ReasonCaseType(r) \in {"safety_review", "business_escalation"}
  BY <1>1 DEF ReasonPriority, ReasonCaseType, OrderReviewReasons, DeliveryReasons
<1>2. ASSUME r[1] = "staff_conduct", r[2] \in {"critical", "high", "medium", "low"}
      PROVE  ReasonPriority(r) \in 0 .. 3 /\ ReasonCaseType(r) = "staff_conduct_complaint"
  <2>1. ReasonPriority(r) = CASE r[2] = "critical" -> 0
                              [] r[2] \in {"high", "medium"} -> 1
                              [] r[2] = "low" -> 2
    BY <1>2 DEF ReasonPriority
  <2>2. ReasonPriority(r) \in 0 .. 3
    BY <1>2, <2>1
  <2>3. ReasonCaseType(r) = "staff_conduct_complaint"
    BY <1>2 DEF ReasonCaseType, OrderReviewReasons, DeliveryReasons
  <2> QED
    BY <2>2, <2>3
<1>3. ASSUME r[1] \in {"refund_manual_review", "confirmed_human_request",
                       "explicit_other_complaint"} \cup OrderReviewReasons \cup DeliveryReasons
      PROVE  /\ ReasonPriority(r) \in 0 .. 3
             /\ ReasonCaseType(r) \in {"refund_review", "general_support", "other_complaint",
                                       "order_operation_review", "delivery_investigation"}
             /\ ReasonCaseType(r) = "delivery_investigation" => r[1] \in DeliveryReasons
  <2>1. r[1] \notin {"hard_critical", "semantic", "staff_conduct"}
    BY <1>3 DEF OrderReviewReasons, DeliveryReasons
  <2>2. ReasonPriority(r) \in 0 .. 3
    BY <2>1 DEF ReasonPriority
  <2>3. /\ ReasonCaseType(r) \in {"refund_review", "general_support", "other_complaint",
                                  "order_operation_review", "delivery_investigation"}
        /\ ReasonCaseType(r) = "delivery_investigation" => r[1] \in DeliveryReasons
    BY <1>3, <2>1 DEF ReasonCaseType, OrderReviewReasons, DeliveryReasons
  <2> QED
    BY <2>2, <2>3
<1>4. CASE r \in v.codes
  <2>1. r \in DomainReasons
    BY <1>4, InputForm
  <2>2. r[1] \in OrderReviewReasons \cup DeliveryReasons
    BY <2>1 DEF DomainReasons
  <2> QED
    BY <1>3, <1>4, <2>2 DEF Weighed, CaseTypes
<1>5. CASE r \notin v.codes
  <2>1. \/ r[1] \in {"hard_critical", "semantic"}
        \/ r[1] = "staff_conduct" /\ r[2] \in {"critical", "high", "medium", "low"}
        \/ r[1] \in {"refund_manual_review", "confirmed_human_request",
                     "explicit_other_complaint"}
    BY <1>5, ReasonForms DEF FactsTyped
  <2>2. {"refund_manual_review", "confirmed_human_request", "explicit_other_complaint"}
          \cap DeliveryReasons = {}
    BY DEF DeliveryReasons
  <2> QED
    BY <1>1, <1>2, <1>3, <2>1, <2>2 DEF Weighed, CaseTypes
<1> QED
  BY <1>4, <1>5, Zenon

(* What the end of a turn must keep, whichever way it ends. *)
LEMMA Close ==
  ASSUME ConvInv, node = "finalize_case_handoff",
         node' \in {"attach_operation_case", "raised"}, UNCHANGED <<world, evidence>>,
         DOMAIN state' = Fields, SameHeard(Facts(state), Facts(state')),
         Facts(state').codes = Facts(state).codes, ~state'.provider_failure_case_persisted,
         Facts(state').operation = Facts(state).operation,
         state'.provider_failure_case_persisted \in BOOLEAN,
         SupportedByThisTurn', SafetyInv', KeptInv'
  PROVE  ConvInv'
<1>1. /\ Shape /\ Heard(Facts(state), evidence) /\ Stage(node, Facts(state)) /\ PendingReviews
      /\ CodesSupported(node, Facts(state)) /\ FactsTyped(Facts(state))
  BY DEF ConvInv, Shape
<1>2. FactsTyped(Facts(state')) /\ ~Facts(state').failure
  <2>1. Facts(state').failure = state'.provider_failure_case_persisted
    BY Zenon DEF Facts
  <2> QED
    BY <1>1, <2>1 DEF FactsTyped, SameHeard
<1>3. Shape'
  BY <1>1, <1>2 DEF Shape, world
<1>4. Heard(Facts(state'), evidence')
  BY <1>1, HeardKept
<1>5. Stage(node', Facts(state'))
  BY <1>1, <1>2, Zenon DEF Stage, SameHeard, BeforeComplaint, BeforeHandoff, BeforeOrder,
                    BeforeRefund, BeforeOperation
<1>6. CodesSupported(node, Facts(state))'
  <2>1. ASSUME NEW r, Supported(r) PROVE Supported(r)'
    BY <2>1, MoreSupported
  <2> QED
    BY <1>1, <2>1 DEF CodesSupported
<1>7. Answered' /\ PendingReviews'
  BY <1>1, Zenon DEF Answered, PendingReviews, Pending, world
<1> QED
  BY <1>3, <1>4, <1>5, <1>6, <1>7 DEF ConvInv, Closing

LEMMA CasesKept ==
  ASSUME effects' = effects
  PROVE  Cases' = Cases /\ CaseReasons' = CaseReasons /\ FellBack' = FellBack
BY DEF Cases, CaseReasons, FellBack

LEMMA SupportKept ==
  ASSUME SupportedByThisTurn, UNCHANGED <<evidence, effects>>
  PROVE  SupportedByThisTurn'
<1>1. ASSUME NEW r, Supported(r) PROVE Supported(r)'
  BY <1>1, MoreSupported
<1> QED
  BY <1>1, CasesKept, Zenon DEF SupportedByThisTurn

LEMMA CaseAdded ==
  ASSUME NEW d, NEW more, \A e \in more : e[1] # "case",
         effects' = effects \cup {<<"case", d>>} \cup more
  PROVE  Cases' = Cases \cup {d} /\ CaseReasons' = CaseReasons \cup d.reason_codes
<1>1. <<"case", d>>[1] = "case" /\ <<"case", d>>[2] = d
  OBVIOUS
<1>2. Cases' = Cases \cup {d}
  BY <1>1, Zenon DEF Cases
<1> QED
  BY <1>2 DEF CaseReasons

(* A critical turn at its end, by what the policy input makes of it. *)
LEMMA CriticalHeard ==
  ASSUME ConvInv, node = "finalize_case_handoff", NEW r \in evidence, Critical(r),
         NEW v, v = Facts(state)
  PROVE  /\ v.codes = {}
         /\ \/ v.hard # {} /\ v.level = "unknown" /\ v.categories = {}
            \/ v.hard = {} /\ v.level \in {"high", "critical"} /\ r[1] # "hard_critical"
<1>1. Heard(v, evidence) /\ Stage(node, v) /\ SafetyInv
  BY DEF ConvInv
<1>2. v.codes = {}
  BY <1>1, Zenon DEF SafetyInv, Facts
<1>3. Says(v, r)
  BY <1>1 DEF Heard
<1>4. \/ \E c \in v.hard : r = <<"hard_critical", c>>
      \/ r = <<"risk_level", v.level>>
      \/ \E c \in v.categories : r = <<"semantic", v.level, c>>
  BY <1>3, AnswersAreNoRisks DEF Says, Critical
<1>5. CASE \E c \in v.hard : r = <<"hard_critical", c>>
  BY <1>1, <1>2, <1>5 DEF Stage
<1>6. CASE r = <<"risk_level", v.level>> \/ \E c \in v.categories : r = <<"semantic", v.level, c>>
  <2>1. r[1] # "hard_critical" /\ r[2] = v.level
    BY <1>6
  <2>2. v.level \in {"high", "critical"}
    BY <2>1 DEF Critical
  <2> QED
    BY <1>1, <1>2, <2>1, <2>2 DEF Stage
<1> QED
  BY <1>4, <1>5, <1>6

LEMMA CriticalRefused ==
  ASSUME ConvInv, node = "finalize_case_handoff", NEW r \in evidence, Critical(r),
         ~InputIsValid(build_handoff_policy_input(state))
  PROVE  evidence = {r} /\ r[1] = "risk_level"
<1> PICK v : v = Facts(state)
  OBVIOUS
<1>1. v.hard = {} /\ v.categories = {}
  BY CriticalHeard, InputForm
<1>2. OnlyRisks(evidence) /\ \A q \in evidence : Says(v, q)
  BY DEF ConvInv, SafetyInv, Heard
<1>3. \A q \in evidence : q = <<"risk_level", v.level>>
  BY <1>1, <1>2, AnswersAreNoRisks DEF Says, OnlyRisks
<1> QED
  BY <1>3

LEMMA CriticalReason ==
  ASSUME ConvInv, node = "finalize_case_handoff", NEW r \in evidence, Critical(r),
         InputIsValid(build_handoff_policy_input(state))
  PROVE  \E q \in evidence :
           /\ CaseCreating(q) /\ ReasonPriority(q) \in 0 .. 1
           /\ ReasonCaseType(q) \in {"safety_review", "business_escalation"}
           /\ r[1] # "risk_level" => q = r
<1>1. ASSUME NEW q, Critical(q), q[1] # "risk_level"
      PROVE  /\ CaseCreating(q) /\ ReasonPriority(q) \in 0 .. 1
             /\ ReasonCaseType(q) \in {"safety_review", "business_escalation"}
  <2>1. CaseCreating(q)
    BY <1>1 DEF Critical, CaseCreating
  <2>2. ReasonPriority(q) \in 0 .. 1
    BY <1>1 DEF Critical, ReasonPriority
  <2>3. ReasonCaseType(q) \in {"safety_review", "business_escalation"}
    BY <1>1 DEF Critical, ReasonCaseType, OrderReviewReasons, DeliveryReasons
  <2> QED
    BY <2>1, <2>2, <2>3
<1>2. CASE r[1] # "risk_level"
  BY <1>1, <1>2
<1>3. CASE r[1] = "risk_level"
  <2> PICK v : v = Facts(state)
    OBVIOUS
  <2>1. Says(v, r) /\ Backed(v, evidence)
    BY DEF ConvInv, Heard
  <2>2. v.level \in {"high", "critical"}
    <3>1. r = <<"risk_level", v.level>>
      BY <1>3, <2>1, AnswersAreNoRisks DEF Says
    <3> QED
      BY <3>1 DEF Critical
  <2>3. PICK c \in v.categories : <<"semantic", v.level, c>> \in evidence
    BY <2>1, <2>2, InputForm DEF Backed
  <2>4. Critical(<<"semantic", v.level, c>>) /\ <<"semantic", v.level, c>>[1] # "risk_level"
    BY <2>2 DEF Critical
  <2> QED
    BY <1>1, <1>3, <2>3, <2>4
<1> QED
  BY <1>2, <1>3

(* The case of a delivery investigation has the customer's yes. *)
LEMMA Recorded ==
  ASSUME ConvInv, node = "finalize_case_handoff", node' = "attach_operation_case",
         UNCHANGED <<world, evidence>>, NEW reasons,
         reasons = HandoffReasons(build_handoff_policy_input(state)), reasons # {},
         InputIsValid(build_handoff_policy_input(state)),
         ~state.provider_failure_case_persisted,
         NEW d, reasons \subseteq d.reason_codes, NEW more,
         \/ /\ d.reason_codes = reasons /\ d.priority = MostUrgent(reasons) /\ more = {}
            /\ d.case_type = PrimaryType(reasons)
         \/ /\ d.reason_codes \subseteq reasons \cup {<<"provider_delivery_failed">>}
            /\ PrimaryType(reasons) = "delivery_investigation" /\ more \subseteq {<<"command">>},
         state' = [state EXCEPT !.support_case = d, !.provider_failure_case_persisted = FALSE],
         effects' = effects \cup {<<"case", d>>} \cup more
  PROVE  ConvInv'
<1> PICK v : v = Facts(state)
  OBVIOUS
<1>1. /\ DOMAIN state = Fields /\ FactsTyped(v) /\ Heard(v, evidence) /\ Stage(node, v)
      /\ CodesSupported(node, v) /\ SupportedByThisTurn /\ SafetyInv
  BY DEF ConvInv, Shape
<1>2. \A q \in v.codes : Supported(q)
  BY <1>1 DEF CodesSupported
<1>3. \A r \in reasons : Supported(r)
  BY <1>1, <1>2, ReasonsSupported DEF Heard
<1>4. \A r \in reasons : Weighed(r) /\ (ReasonCaseType(r) = "delivery_investigation" =>
                                          r \in v.codes /\ r[1] \in DeliveryReasons)
  BY <1>1, ReasonsWeighed
<1>5. /\ MostUrgent(reasons) \in 0 .. 8
      /\ \A r \in reasons : MostUrgent(reasons) <= ReasonPriority(r)
      /\ \A r \in reasons :
           CaseTypeRank(PrimaryType(reasons)) <= CaseTypeRank(ReasonCaseType(r))
      /\ \E r \in reasons : PrimaryType(reasons) = ReasonCaseType(r)
  BY <1>4, PolicyCase
<1>6. PrimaryType(reasons) = "delivery_investigation" => <<"yes to investigation">> \in evidence
  <2> SUFFICES ASSUME PrimaryType(reasons) = "delivery_investigation"
               PROVE  <<"yes to investigation">> \in evidence
    BY Zenon
  <2>1. PICK r \in reasons : ReasonCaseType(r) = "delivery_investigation"
    BY <1>5
  <2>2. Supported(r) /\ r[1] \in DeliveryReasons
    BY <1>3, <1>4, <2>1
  <2> QED
    BY <2>2, Zenon DEF Supported, OrderReviewReasons, DeliveryReasons
<1>7. \A e \in more : e[1] = "command" /\ <<"yes to investigation">> \in evidence
  <2>1. <<"command">>[1] = "command"
    OBVIOUS
  <2> QED
    BY <1>6, <2>1, Zenon
<1>8. Cases' = Cases \cup {d} /\ CaseReasons' = CaseReasons \cup d.reason_codes
  BY <1>7, CaseAdded, Zenon
<1>9. \A r \in d.reason_codes : Supported(r)
  <2>1. <<"yes to investigation">> \in evidence => Supported(<<"provider_delivery_failed">>)
    BY Zenon DEF Supported, OrderReviewReasons, DeliveryReasons
  <2> QED
    BY <1>3, <1>6, <2>1, Zenon
<1>10. SupportedByThisTurn'
  <2>1. ASSUME NEW r \in CaseReasons' PROVE Supported(r)'
    <3>1. Supported(r)
      BY <1>1, <1>8, <1>9, <2>1, Zenon DEF SupportedByThisTurn
    <3> QED
      BY <3>1, MoreSupported
  <2>2. <<"case", d>>[1] = "case"
    OBVIOUS
  <2> QED
    BY <1>1, <1>7, <2>1, <2>2, Zenon DEF SupportedByThisTurn
<1>11. \A r \in evidence : CaseCreating(r) => r \in reasons
  BY <1>1, ReasonsKept DEF Heard
<1>12. KeptInv'
  BY <1>8, <1>11 DEF KeptInv
<1>13. SafetyInv'
  <2> SUFFICES ASSUME NEW r \in evidence, Critical(r)
               PROVE  /\ \A e \in effects' : e[1] = "case"
                      /\ \E c \in Cases' : UrgentEnough(c, r)
    BY DEF SafetyInv
  <2>1. PICK q \in reasons :
          /\ ReasonPriority(q) \in 0 .. 1 /\ (r[1] # "risk_level" => q = r)
          /\ ReasonCaseType(q) \in {"safety_review", "business_escalation"}
    BY <1>11, CriticalReason
  <2>2. effects = {}
    BY <1>1 DEF SafetyInv
  <2>3. PrimaryType(reasons) # "delivery_investigation"
    BY <1>5, <2>1, Ranks
  <2>4. /\ d.priority = MostUrgent(reasons) /\ d.case_type = PrimaryType(reasons) /\ more = {}
    BY <2>3
  <2>5. \A e \in effects' : e[1] = "case"
    BY <2>2, <2>4
  <2>6. UrgentEnough(d, r)
    BY <1>5, <2>1, <2>4 DEF UrgentEnough
  <2> QED
    BY <1>8, <2>5, <2>6
<1>14. /\ DOMAIN state' = Fields /\ SameHeard(v, Facts(state'))
       /\ Facts(state').codes = v.codes /\ Facts(state').operation = v.operation
       /\ state'.provider_failure_case_persisted = FALSE
  BY <1>1 DEF Facts, Fields, SameHeard
<1> QED
  BY <1>10, <1>12, <1>13, <1>14, Close

LEMMA FallenBackStep ==
  ASSUME ConvInv, finalize_case_handoff, state.provider_failure_case_persisted
  PROVE  ConvInv'
<1>1. /\ node = "finalize_case_handoff" /\ node' = "attach_operation_case"
      /\ state' = [state EXCEPT !.provider_failure_case_persisted = FALSE]
      /\ UNCHANGED <<world, evidence, effects>>
  BY DEF finalize_case_handoff
<1>2. DOMAIN state = Fields /\ SupportedByThisTurn /\ SafetyInv /\ FellBack
  BY <1>1 DEF ConvInv, Shape, KeptInv
<1>3. /\ DOMAIN state' = Fields /\ SameHeard(Facts(state), Facts(state'))
      /\ Facts(state').codes = Facts(state).codes
      /\ Facts(state').operation = Facts(state).operation
      /\ state'.provider_failure_case_persisted = FALSE
  BY <1>1, <1>2 DEF Facts, Fields, SameHeard
<1>4. SupportedByThisTurn'
  BY <1>1, <1>2, SupportKept
<1>5. SafetyInv'
  <2>1. \A r \in evidence' : ~Critical(r)
    BY <1>1, <1>2 DEF SafetyInv
  <2> QED
    BY <2>1 DEF SafetyInv
<1>6. KeptInv'
  BY <1>1, <1>2, CasesKept DEF KeptInv
<1> QED
  BY <1>1, <1>3, <1>4, <1>5, <1>6, Close

LEMMA InvalidStep ==
  ASSUME ConvInv, finalize_case_handoff, ~state.provider_failure_case_persisted,
         ~InputIsValid(build_handoff_policy_input(state))
  PROVE  ConvInv'
<1>1. /\ node = "finalize_case_handoff" /\ node' = "raised" /\ state' = state
      /\ UNCHANGED <<world, evidence, effects>>
  BY DEF finalize_case_handoff
<1>2. /\ DOMAIN state = Fields /\ FactsTyped(Facts(state)) /\ SupportedByThisTurn
      /\ state.provider_failure_case_persisted \in BOOLEAN
  BY Zenon DEF ConvInv, Shape, FactsTyped, Facts
<1>3. SameHeard(Facts(state), Facts(state'))
  BY <1>1 DEF SameHeard
<1>4. SupportedByThisTurn'
  BY <1>1, <1>2, SupportKept
<1>5. SafetyInv'
  <2>1. \A r \in evidence : Critical(r) => evidence = {r} /\ r[1] = "risk_level" /\ effects = {}
    BY <1>1, CriticalRefused DEF ConvInv, SafetyInv
  <2> QED
    BY <1>1, <2>1 DEF SafetyInv
<1>6. KeptInv'
  BY <1>1 DEF KeptInv
<1> QED
  BY <1>1, <1>2, <1>3, <1>4, <1>5, <1>6, Close

LEMMA NothingToRecord ==
  ASSUME ConvInv, node = "finalize_case_handoff", node' = "attach_operation_case",
         HandoffReasons(build_handoff_policy_input(state)) = {},
         InputIsValid(build_handoff_policy_input(state)),
         UNCHANGED <<world, evidence, effects>>,
         state' = [state EXCEPT !.support_case = NO_CASE,
                                !.provider_failure_case_persisted = FALSE]
  PROVE  ConvInv'
<1>1. /\ DOMAIN state = Fields /\ SupportedByThisTurn /\ FactsTyped(Facts(state))
      /\ Heard(Facts(state), evidence)
  BY DEF ConvInv, Shape
<1>2. \A r \in evidence : ~CaseCreating(r)
  BY <1>1, ReasonsKept DEF Heard
<1>3. \A r \in evidence : ~Critical(r)
  BY <1>2, CriticalReason
<1>4. SupportedByThisTurn' /\ SafetyInv' /\ KeptInv'
  BY <1>1, <1>2, <1>3, SupportKept DEF SafetyInv, KeptInv
<1>5. /\ DOMAIN state' = Fields /\ SameHeard(Facts(state), Facts(state'))
      /\ Facts(state').codes = Facts(state).codes
      /\ Facts(state').operation = Facts(state).operation
      /\ state'.provider_failure_case_persisted = FALSE
  BY <1>1 DEF Facts, Fields, SameHeard
<1> QED
  BY <1>4, <1>5, Close

LEMMA DecidedStep ==
  ASSUME ConvInv, finalize_case_handoff, ~state.provider_failure_case_persisted,
         InputIsValid(build_handoff_policy_input(state))
  PROVE  ConvInv'
<1> PICK reasons : reasons = HandoffReasons(build_handoff_policy_input(state))
  OBVIOUS
<1> PICK d : d = determine_handoff_policy(build_handoff_policy_input(state))
  OBVIOUS
<1>1. /\ node = "finalize_case_handoff" /\ node' = "attach_operation_case"
      /\ UNCHANGED <<world, evidence>> /\ FinalizeCase(d)
  BY DEF finalize_case_handoff
<1>2. d = IF reasons = {} THEN NO_CASE
          ELSE [should_create_case |-> TRUE, case_type |-> PrimaryType(reasons),
                priority |-> MostUrgent(reasons), reason_codes |-> reasons]
  BY DEF determine_handoff_policy
<1>3. CASE reasons = {}
  <2>1. ~d.should_create_case
    BY <1>2, <1>3 DEF NO_CASE
  <2>2. /\ state' = [state EXCEPT !.support_case = NO_CASE,
                                  !.provider_failure_case_persisted = FALSE]
        /\ effects' = effects
    BY <1>1, <2>1 DEF FinalizeCase
  <2> QED
    BY <1>1, <1>3, <2>2, NothingToRecord
<1>4. CASE reasons # {}
  <2>1. /\ d.should_create_case = TRUE /\ d.case_type = PrimaryType(reasons)
        /\ d.priority = MostUrgent(reasons) /\ d.reason_codes = reasons
        /\ DOMAIN d = {"should_create_case", "case_type", "priority", "reason_codes"}
    BY <1>2, <1>4
  <2>2. CASE RecordCase(d) /\ d.case_type # "delivery_investigation"
    <3> PICK more : more = {}
      BY Zenon
    <3>1. /\ state' = [state EXCEPT !.support_case = d,
                                    !.provider_failure_case_persisted = FALSE]
          /\ effects' = effects \cup {<<"case", d>>} \cup more
      BY <2>2 DEF RecordCase
    <3> QED
      BY <1>1, <1>4, <2>1, <3>1, Recorded, Zenon
  <2>3. ASSUME d.case_type = "delivery_investigation",
               state' = [state EXCEPT !.support_case = d,
                                      !.provider_failure_case_persisted = FALSE],
               effects' = effects \cup {<<"case", d>>, <<"command">>}
        PROVE  ConvInv'
    <3> PICK more : more = {<<"command">>}
      BY Zenon
    <3>1. effects' = effects \cup {<<"case", d>>} \cup more
      BY <2>3
    <3> QED
      BY <1>1, <1>4, <2>1, <2>3, <3>1, Recorded, Zenon
  <2>4. CASE RecordCase(WithProviderFailure(d)) /\ d.case_type = "delivery_investigation"
    <3> PICK f : f = WithProviderFailure(d)
      OBVIOUS
    <3> PICK more : more = {}
      BY Zenon
    <3>1. f.reason_codes = reasons \cup {<<"provider_delivery_failed">>}
      BY <2>1 DEF WithProviderFailure
    <3>2. /\ state' = [state EXCEPT !.support_case = f,
                                    !.provider_failure_case_persisted = FALSE]
          /\ effects' = effects \cup {<<"case", f>>} \cup more
      BY <2>4 DEF RecordCase
    <3> QED
      BY <1>1, <1>4, <2>1, <2>4, <3>1, <3>2, Recorded, Zenon
  <2>5. \/ RecordCase(d) /\ d.case_type # "delivery_investigation"
        \/ /\ d.case_type = "delivery_investigation"
           /\ state' = [state EXCEPT !.support_case = d,
                                     !.provider_failure_case_persisted = FALSE]
           /\ effects' = effects \cup {<<"case", d>>, <<"command">>}
        \/ RecordCase(WithProviderFailure(d)) /\ d.case_type = "delivery_investigation"
    BY <1>1, <2>1, Zenon DEF FinalizeCase
  <2> QED
    BY <2>2, <2>3, <2>4, <2>5
<1> QED
  BY <1>3, <1>4

LEMMA FinalizeStep == ConvInv /\ finalize_case_handoff => ConvInv'
BY FallenBackStep, InvalidStep, DecidedStep

LEMMA OtherSteps ==
  ASSUME ConvInv,
         \/ \E text \in BOOLEAN : NewMessage(text)
         \/ OrderChanges \/ OperationEnds \/ attach_operation_case \/ UNCHANGED vars
  PROVE  ConvInv'
<1>1. ASSUME NEW text \in BOOLEAN, NewMessage(text) PROVE ConvInv'
  <2>1. /\ node' = "check_risk_rules" /\ evidence' = {} /\ effects' = {}
        /\ state' = [state EXCEPT !.text = text] /\ UNCHANGED <<order, operation>>
    BY <1>1 DEF NewMessage
  <2>2. Shape /\ PendingReviews
    BY DEF ConvInv
  <2>3. DOMAIN state' = Fields /\ Facts(state') = Facts(state)
    BY <2>1, <2>2 DEF Shape, Facts, Fields
  <2>4. Shape' /\ Answered' /\ PendingReviews' /\ KeptInv' /\ SafetyInv'
    BY <2>1, <2>2, <2>3 DEF Shape, Answered, PendingReviews, Pending, KeptInv, SafetyInv
  <2>5. SupportedByThisTurn'
    BY <2>1, NoCases DEF SupportedByThisTurn
  <2> QED
    BY <2>1, <2>4, <2>5 DEF ConvInv
<1>2. ASSUME node' = node \/ (node = "attach_operation_case" /\ node' = "END"),
             UNCHANGED <<state, evidence, effects>>, order' \in Snapshots,
             operation' = operation \/ OperationEnds
      PROVE  ConvInv'
  <2>1. Shape /\ PendingReviews /\ SupportedByThisTurn /\ SafetyInv /\ KeptInv
    BY DEF ConvInv
  <2>2. /\ DOMAIN operation' = {"status", "manual", "reason"}
        /\ operation'.manual = operation.manual /\ operation'.reason = operation.reason
        /\ operation' = operation \/ (~Pending /\ ~Pending')
    BY <1>2, <2>1 DEF OperationEnds, Shape, Pending
  <2>3. Shape' /\ Answered' /\ PendingReviews'
    BY <1>2, <2>1, <2>2, Zenon DEF ConvInv, Shape, Answered, PendingReviews, Pending
  <2>4. SupportedByThisTurn' /\ CaseReasons' = CaseReasons /\ FellBack' = FellBack /\ Cases' = Cases
    BY <1>2, <2>1, SupportKept, CasesKept
  <2>5. SafetyInv'
    BY <1>2, <2>1, <2>4 DEF SafetyInv
  <2>6. KeptInv'
    BY <1>2, <2>1, <2>4 DEF KeptInv
  <2>7. ASSUME node # "check_risk_rules"
        PROVE  /\ Heard(Facts(state), evidence)' /\ Stage(node', Facts(state'))
               /\ CodesSupported(node, Facts(state))'
    <3>1. /\ Heard(Facts(state), evidence) /\ Stage(node, Facts(state))
          /\ CodesSupported(node, Facts(state))
      BY <2>7 DEF ConvInv
    <3>2. Stage(node', Facts(state))
      BY <1>2, <3>1, Zenon DEF Stage, BeforeComplaint, BeforeHandoff, BeforeOrder, BeforeRefund,
                        BeforeOperation
    <3>3. ASSUME NEW r, Supported(r) PROVE Supported(r)'
      BY <1>2, <3>3, MoreSupported
    <3>4. CodesSupported(node, Facts(state))'
      BY <1>2, <3>1, <3>3 DEF CodesSupported
    <3> QED
      BY <1>2, <3>1, <3>2, <3>4
  <2>8. node' \notin Closing => effects' = {}
    BY <1>2 DEF ConvInv, Closing
  <2> QED
    BY <1>2, <2>3, <2>4, <2>5, <2>6, <2>7, <2>8 DEF ConvInv
<1>3. order \in Snapshots
  BY DEF ConvInv, Shape
<1> QED
  BY <1>1, <1>2, <1>3 DEF OrderChanges, OperationEnds, attach_operation_case, Goto, world, vars

LEMMA ConvInvariance == Spec => []ConvInv
<1>1. Init => ConvInv
  <2> SUFFICES ASSUME Init PROVE ConvInv
    OBVIOUS
  <2> PICK v : v = Facts(state)
    OBVIOUS
  <2>1. /\ node = "END" /\ evidence = {} /\ effects = {} /\ order \in Snapshots
        /\ operation = [status |-> "none", manual |-> FALSE, reason |-> "none"]
    BY Zenon DEF Init
  <2>2. DOMAIN state = Fields
    BY Zenon DEF Init, Fields
  <2>3. /\ v.hard = {} /\ v.level = "unknown" /\ v.categories = {} /\ v.severity = "absent"
        /\ v.other = FALSE /\ v.confirmed = FALSE /\ v.review = FALSE /\ v.codes = {}
        /\ v.failure = FALSE /\ v.operation = FALSE
    BY Zenon DEF Init, Facts
  <2>4. Shape
    BY <2>1, <2>2, <2>3, Zenon DEF Shape, FactsTyped
  <2>5. Heard(v, evidence) /\ Stage(node, v) /\ CodesSupported(node, v)
    BY <2>1, <2>3 DEF Heard, Backed, Stage, CodesSupported
  <2>6. Answered /\ PendingReviews /\ SafetyInv /\ KeptInv
    BY <2>1 DEF Answered, PendingReviews, Pending, SafetyInv, KeptInv
  <2>7. SupportedByThisTurn
    BY <2>1 DEF SupportedByThisTurn, CaseReasons, Cases
  <2> QED
    BY <2>1, <2>4, <2>5, <2>6, <2>7 DEF ConvInv
<1>2. ConvInv /\ [Next]_vars => ConvInv'
  <2> SUFFICES ASSUME ConvInv, [Next]_vars PROVE ConvInv'
    OBVIOUS
  <2>1. ASSUME NEW yes \in BOOLEAN, Answer(yes) PROVE ConvInv'
    BY <2>1, HandoffStep, AnsweringSteps, ApprovalStep, ConfirmationStep DEF Answer
  <2>2. CASE Node
    BY <2>2, RiskRulesStep, SemanticStep, RouterStep, ComplaintStep, AnsweringSteps, OrderSteps,
       RefundPolicyStep, RefundStep, LoadSteps, EvaluateStep, SubmitStep, ManualStep, CancelStep,
       InvestigationSteps, FinalizeStep, OtherSteps DEF Node
  <2>3. CASE (\E text \in BOOLEAN : NewMessage(text)) \/ OrderChanges \/ OperationEnds
             \/ UNCHANGED vars
    BY <2>3, OtherSteps
  <2> QED
    BY <2>1, <2>2, <2>3 DEF Next
<1> QED
  BY <1>1, <1>2, PTL DEF Spec

(* For every sequence of messages, classifications, answers and changes of    *)
(* the order, no case, operation, investigation or refund rests on anything   *)
(* but what its own turn heard, and a refund only on a policy that allowed it *)
(* without review (new_turn_state and every node after it).                   *)
THEOREM TurnSafety == Spec => []SupportedByThisTurn
<1>1. ConvInv => SupportedByThisTurn
  BY DEF ConvInv
<1> QED
  BY <1>1, ConvInvariance, PTL

(* For every sequence of messages, a message of critical risk is never handled *)
(* as ordinary business, and its turn ends with a case at least as urgent and *)
(* of a type that precedes or equals what its risk demands                    *)
(* (route_after_risk_rules, route_after_semantic_risk,                        *)
(* determine_handoff_policy).  Only a turn whose sole evidence is such a level *)
(* without a category raises instead, in the policy's input                   *)
(* (HandoffPolicyInput.validate_semantic_risk).                               *)
THEOREM CriticalSafety == Spec => []SafetyFirst
<1>1. ConvInv => SafetyFirst
  BY Zenon DEF ConvInv, SafetyInv, SafetyFirst
<1> QED
  BY <1>1, ConvInvariance, PTL

(* For every sequence of messages, what a turn hears that calls for a case is *)
(* among the reasons of the case it ends with, unless the operation fell back *)
(* to provider review (build_handoff_policy_input, determine_handoff_policy). *)
THEOREM HeardSafety == Spec => []HeardIsKept
<1>1. ConvInv => HeardIsKept
  BY DEF ConvInv, KeptInv, HeardIsKept
<1> QED
  BY <1>1, ConvInvariance, PTL
=============================================================================

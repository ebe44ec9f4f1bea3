--------------------------- MODULE OrderDecisions ---------------------------
(* The operation policy over time: one order, whose customer may ask at any   *)
(* moment for any operation or report any delivery issue, and the support     *)
(* case a manual decision leads to.                                            *)
EXTENDS OperationPolicy, HandoffPolicy

CONSTANT Horizon  \* bound: the last instant considered

VARIABLES snapshot, now

order_vars == <<snapshot, now>>

OrderInit == snapshot \in Snapshots /\ now = 0

TimePasses == now < Horizon /\ now' = now + 1 /\ UNCHANGED snapshot

OrderNext == TimePasses

OrderSpec == OrderInit /\ [][OrderNext]_order_vars

-----------------------------------------------------------------------------
Outcome(type, a) == evaluate_operation(type, snapshot, now, a)
Report(issue, asked) == evaluate_delivery_issue(issue, snapshot, now, asked)

(* The business rules' own account of an automatic operation: nothing of the  *)
(* order is contradictory, under way or refunded, and                         *)
(* - a cancellation finds the order open and unfulfilled;                     *)
(* - a return or an exchange finds it delivered, at most RETURN_WINDOW ago,   *)
(*   allowed by the catalogue and priced in a configured currency;            *)
(* - a return stays below the amount of manual review, and an exchange has    *)
(*   its replacement in stock.                                                *)
Automatic(type, a) ==
  /\ ~has_contradictory_lifecycle(snapshot) /\ ~conflicting_operation(snapshot)
  /\ snapshot.payment_status \notin {"refund_pending", "refunded"}
  /\ CASE type = "cancellation" ->
            /\ snapshot.order_status \in {"pending_payment", "confirmed"}
            /\ snapshot.fulfillment_status = "unfulfilled"
       [] type = "return" ->
            /\ snapshot.return_eligible = TRUE
            /\ snapshot.currency \in DOMAIN Thresholds
            /\ snapshot.amount < Thresholds[snapshot.currency]
       [] type = "exchange" ->
            /\ snapshot.exchange_eligible = TRUE
            /\ snapshot.currency \in DOMAIN Thresholds
            /\ a = TRUE
  /\ type # "cancellation" =>
       /\ snapshot.fulfillment_status = "delivered"
       /\ now - snapshot.delivered_at \in 0 .. RETURN_WINDOW

(* evaluate_operation finds an operation eligible exactly when the business   *)
(* rules allow it without a human, the last instant of the window included.   *)
EligibleExactly ==
  \A type \in OperationType, a \in Availability :
    (Outcome(type, a).outcome = "eligible") = Automatic(type, a)

Recommends(type, d) ==
  d.outcome = "manual_review" =>
    /\ <<d.reason>> \in DomainReasons
    /\ ReasonCaseType(<<d.reason>>) = type
    /\ ReasonPriority(<<d.reason>>) = PriorityRank(d.priority)

(* Every manual decision has a reason the handoff policy knows, for the same  *)
(* case type and priority: finalize_case_handoff creates the case that        *)
(* evaluate_operation or evaluate_delivery_issue recommends.  A failed        *)
(* delivery keeps its type only: it is recommended as p2 and the reason table *)
(* makes it p1 (_manual, _delivery_manual, _REASON_POLICIES).                 *)
ReviewAsRecommended ==
  /\ \A type \in OperationType, a \in Availability :
       Recommends("order_operation_review", Outcome(type, a))
  /\ \A issue \in DeliveryIssueType, asked \in BOOLEAN :
       LET d == Report(issue, asked) IN
       IF d.reason = "delivery_failed"
       THEN ReasonCaseType(<<d.reason>>) = "delivery_investigation"
       ELSE Recommends("delivery_investigation", d)
=============================================================================

--------------------------- MODULE HandoffPolicy ----------------------------
(* agent.cases.policy: which support case the facts of one message create.    *)
(* A reason code is a tuple: <<"hard_critical", category>>,                    *)
(* <<"semantic", level, category>>, <<"staff_conduct", severity>>, or the name *)
(* of a refund, handoff, complaint, operation or delivery reason.  Priorities *)
(* are ranks: 0 is p0.                                                         *)
EXTENDS Naturals, Sequences, FiniteSetsExt

CASE_TYPES ==  \* in order of precedence
  <<"safety_review", "staff_conduct_complaint", "business_escalation", "refund_review",
    "order_operation_review", "delivery_investigation", "general_support",
    "other_complaint">>

PriorityRank(p) == CASE p = "p0" -> 0 [] p = "p1" -> 1 [] p = "p2" -> 2 [] p = "p3" -> 3

CaseStatus == {"open", "in_progress", "on_hold", "resolved"}
UNRESOLVED_STATUSES == {"open", "in_progress", "on_hold"}

ALLOWED_STATUS_TRANSITIONS ==
  [open |-> {"in_progress"}, in_progress |-> {"on_hold", "resolved"},
   on_hold |-> {"in_progress", "resolved"}, resolved |-> {"open"}]

OrderReviewReasons ==
  {"order_state_invalid", "cancellation_fulfillment_processing", "cancellation_state_invalid",
   "operation_delivery_date_invalid", "return_eligibility_unknown",
   "exchange_eligibility_unknown", "currency_threshold_unconfigured",
   "return_manual_amount_review", "exchange_inventory_unknown", "provider_delivery_failed"}

DeliveryReasons ==
  {"delivery_data_invalid", "delivery_tracking_stalled", "delivery_overdue_investigation",
   "delivery_failed", "delivery_marked_received_dispute", "delivery_damage_claim",
   "delivery_other_issue"}

DomainReasons == {<<r>> : r \in OrderReviewReasons \cup DeliveryReasons}

RiskCategories == {"self_harm", "violence", "legal", "regulatory", "reputation", "other"}

HandoffReason ==
  UNION {DomainReasons,
         {"hard_critical"} \X RiskCategories,
         {"semantic"} \X {"medium", "high", "critical"} \X RiskCategories,
         {"staff_conduct"} \X {"critical", "high", "medium", "low"},
         {<<"refund_manual_review">>, <<"confirmed_human_request">>,
          <<"explicit_other_complaint">>}}

(* The category of a risk reason is its last part. *)
SafetyReason(r) == r[Len(r)] \in {"self_harm", "violence"}

ReasonCaseType(r) ==
  CASE r[1] \in {"hard_critical", "semantic"} ->
         IF SafetyReason(r) THEN "safety_review" ELSE "business_escalation"
    [] r[1] = "staff_conduct" -> "staff_conduct_complaint"
    [] r[1] = "refund_manual_review" -> "refund_review"
    [] r[1] = "confirmed_human_request" -> "general_support"
    [] r[1] = "explicit_other_complaint" -> "other_complaint"
    [] r[1] \in OrderReviewReasons -> "order_operation_review"
    [] r[1] \in DeliveryReasons -> "delivery_investigation"

ReasonPriority(r) ==
  CASE r[1] = "hard_critical" -> IF SafetyReason(r) THEN 0 ELSE 1
    [] r[1] = "semantic" -> IF r[2] = "medium" THEN 2 ELSE IF SafetyReason(r) THEN 0 ELSE 1
    [] r[1] = "staff_conduct" -> (CASE r[2] = "critical" -> 0
                                    [] r[2] \in {"high", "medium"} -> 1
                                    [] r[2] = "low" -> 2)
    [] r[1] = "explicit_other_complaint" -> 3
    [] r[1] \in {"confirmed_human_request", "exchange_inventory_unknown",
                 "delivery_overdue_investigation", "delivery_other_issue"} -> 2
    [] OTHER -> 1

CaseTypeRank(t) == CHOOSE i \in DOMAIN CASE_TYPES : CASE_TYPES[i] = t

-----------------------------------------------------------------------------
(* HandoffPolicyInput refuses a semantic level without categories, categories *)
(* without a level, and reason codes that are no HandoffReason.               *)
InputIsValid(i) ==
  /\ (i.semantic_risk_level \in {"unknown", "none"}) = (i.semantic_risk_categories = {})
  /\ i.domain_case_reason_codes \subseteq DomainReasons

HandoffReasons(i) ==
  UNION {
    {<<"hard_critical", c>> : c \in i.hard_critical_categories},
    IF i.semantic_risk_level \in {"medium", "high", "critical"}
    THEN {<<"semantic", i.semantic_risk_level, c>> : c \in i.semantic_risk_categories} ELSE {},
    IF i.staff_complaint_severity # "absent"
    THEN {<<"staff_conduct", i.staff_complaint_severity>>} ELSE {},
    IF i.refund_requires_manual_review THEN {<<"refund_manual_review">>} ELSE {},
    IF i.human_handoff_confirmed THEN {<<"confirmed_human_request">>} ELSE {},
    IF i.explicit_other_complaint THEN {<<"explicit_other_complaint">>} ELSE {},
    i.domain_case_reason_codes}

(* One case for all reasons: its type and its priority are chosen apart. *)
MostUrgent(reasons) == Min({ReasonPriority(r) : r \in reasons})

PrimaryType(reasons) ==
  CASE_TYPES[Min({CaseTypeRank(ReasonCaseType(r)) : r \in reasons})]

NO_CASE == [should_create_case |-> FALSE]

(* Mutant: the case keeps only the reasons of its own type. *)
PrimaryReasonsOnly(i) ==
  LET reasons == HandoffReasons(i)
      type == PrimaryType(reasons)
  IN IF reasons = {} THEN NO_CASE
     ELSE [should_create_case |-> TRUE, case_type |-> type, priority |-> MostUrgent(reasons),
           reason_codes |-> {r \in reasons : ReasonCaseType(r) = type}]

determine_handoff_policy(i) ==
  LET reasons == HandoffReasons(i) IN
  IF reasons = {} THEN NO_CASE
  ELSE [should_create_case |-> TRUE, case_type |-> PrimaryType(reasons),
        priority |-> MostUrgent(reasons), reason_codes |-> reasons]

validate_case_status_transition(current, target) ==
  current = target \/ target \in ALLOWED_STATUS_TRANSITIONS[current]

select_higher_priority(current, incoming) == Min({current, incoming})
=============================================================================

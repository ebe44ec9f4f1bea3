-------------------------- MODULE ConversationFlow --------------------------
(* One conversation thread: the LangGraph workflow of agent.graph, with its   *)
(* routing (agent.routing), its nodes (agent.nodes) and the fields they leave *)
(* in the checkpoint for the next turn (agent.state).  What a language model  *)
(* returns, and what the customer answers, is any value its schema allows.    *)
(* The conversation is about one order; its database transactions are atomic  *)
(* here and taken apart in OperationFlow and CaseService.                     *)
EXTENDS OperationPolicy, HandoffPolicy

CONSTANTS
  Now,
  HardMatches,    \* categories the hard-critical rules may find in a message
  RiskFindings,   \* [level, categories] a SemanticRiskDetection may report
  Intents,        \* Route.step
  Complaints,     \* [severity, other] a FormalComplaintDetection amounts to
  Extractions,    \* [type, issue, ambiguous] an extraction may return
  RefundOrders,   \* [age, status, refunded, amount] of the order data
  REFUND_DAYS, REFUND_LIMIT,
  Connected,      \* whether a Provider connection may be resolved: {TRUE}, {FALSE} or both
  MaxTurns        \* bound: messages of the customer

(* What the schemas of the model outputs guarantee (agent.schemas). *)
ASSUME SchemasTyped ==
  /\ Now \in Int
  /\ \A f \in RiskFindings : f.level \in {"none", "low", "medium", "high", "critical"}
  /\ \A c \in Complaints : /\ c.severity \in {"absent", "critical", "high", "medium", "low"}
                           /\ c.other \in BOOLEAN
  /\ \A e \in Extractions :
       ~e.ambiguous =>
         IF e.issue # None THEN e.issue \in DeliveryIssueType ELSE e.type \in OperationType

VARIABLES
  node,       \* the graph node to run next; an interrupt waits at its node
  state,      \* RefundState
  order,      \* what the order system returns now
  operation,  \* the order's operation row: [status, manual, reason]
  refunds,    \* rows of refund_requests for the order
  turn,
  evidence,   \* what this turn's customer and classifiers have said
  effects     \* what this turn has persisted

vars == <<node, state, order, operation, refunds, turn, evidence, effects>>
world == <<order, operation, refunds, turn>>

Interrupts ==
  {"confirm_human_handoff", "confirm_order_priority", "approval_node",
   "operation_confirmation"}
AtRest == node \in Interrupts \cup {"END", "raised"}

ORDER_INTENTS == {"refund_request", "order_inquiry"}
OPERATION_INTENTS ==
  {"cancellation_request", "return_request", "exchange_request", "delivery_issue"}

NoExtraction == [type |-> None, issue |-> None, ambiguous |-> TRUE]

(* Mutant: a field of the turn is not reset. *)
KeepHandoff(s, decision) ==
  [s EXCEPT !.decision = decision, !.order_id = FALSE, !.search_success = FALSE,
            !.eligible = FALSE, !.requires_manual_review = FALSE,
            !.human_handoff_requested = FALSE, !.staff_complaint_severity = "absent",
            !.explicit_other_complaint = FALSE, !.support_case = NO_CASE,
            !.provider_failure_case_persisted = FALSE, !.operation_snapshot = None,
            !.operation_extraction = NoExtraction, !.operation_outcome = "none",
            !.operation_id = FALSE, !.operation_status = "none",
            !.domain_case_reason_codes = {}]

new_turn_state(s, decision) ==
  [s EXCEPT !.decision = decision, !.order_id = FALSE, !.search_success = FALSE,
            !.eligible = FALSE, !.requires_manual_review = FALSE,
            !.human_handoff_requested = FALSE, !.human_handoff_confirmed = FALSE,
            !.staff_complaint_severity = "absent", !.explicit_other_complaint = FALSE,
            !.support_case = NO_CASE, !.provider_failure_case_persisted = FALSE,
            !.operation_snapshot = None, !.operation_extraction = NoExtraction,
            !.operation_outcome = "none", !.operation_id = FALSE,
            !.operation_status = "none", !.domain_case_reason_codes = {}]

Init ==
  /\ node = "END"
  /\ state = [text |-> TRUE, decision |-> "none", order_id |-> FALSE, last_order_id |-> FALSE,
              search_success |-> FALSE, eligible |-> FALSE, requires_manual_review |-> FALSE,
              hard |-> {}, semantic_risk_level |-> "unknown", semantic_risk_categories |-> {},
              human_handoff_requested |-> FALSE, human_handoff_confirmed |-> FALSE,
              staff_complaint_severity |-> "absent", explicit_other_complaint |-> FALSE,
              support_case |-> NO_CASE, provider_failure_case_persisted |-> FALSE,
              operation_snapshot |-> None, operation_extraction |-> NoExtraction,
              operation_outcome |-> "none", operation_id |-> FALSE,
              operation_status |-> "none", domain_case_reason_codes |-> {}]
  /\ order \in Snapshots /\ refunds = 0
  /\ operation = [status |-> "none", manual |-> FALSE, reason |-> "none"]
  /\ turn = 0 /\ evidence = {} /\ effects = {}

-----------------------------------------------------------------------------
(* A message starts a turn, also while an earlier one waits for an answer. *)
NewMessage(text) ==
  /\ AtRest /\ turn < MaxTurns
  /\ turn' = turn + 1 /\ node' = "check_risk_rules"
  /\ state' = [state EXCEPT !.text = text]
  /\ evidence' = {} /\ effects' = {}
  /\ UNCHANGED <<order, operation, refunds>>

(* The world outside: the order moves on, the Provider answers. *)
OrderChanges == order' \in Snapshots /\ UNCHANGED <<node, state, operation, refunds, turn,
                                                    evidence, effects>>

OperationEnds ==
  /\ operation.status = "queued"
  /\ \E s \in {"completed", "rejected"} : operation' = [operation EXCEPT !.status = s]
  /\ UNCHANGED <<node, state, order, refunds, turn, evidence, effects>>

Hear(facts) == evidence' = evidence \cup facts
Goto(n) == node' = n /\ UNCHANGED <<world, effects>>

-----------------------------------------------------------------------------
(* Risk *)
route_after_risk_rules(s) ==
  IF s.hard # {} THEN "handle_critical_risk" ELSE "classify_semantic_risk"

check_risk_rules ==
  /\ node = "check_risk_rules"
  /\ \E hard \in IF state.text THEN HardMatches ELSE {{}} :
       /\ state' = [new_turn_state(state, "none") EXCEPT
                      !.hard = hard, !.semantic_risk_level = "unknown",
                      !.semantic_risk_categories = {}]
       /\ Hear({<<"hard_critical", c>> : c \in hard})
  /\ Goto(route_after_risk_rules(state'))

(* Mutant: only a critical level bypasses ordinary business. *)
RouteHighToIntent(s) ==
  IF s.semantic_risk_level = "critical" THEN "handle_critical_risk" ELSE "llm_call_router"

route_after_semantic_risk(s) ==
  IF s.semantic_risk_level \in {"high", "critical"}
  THEN "handle_critical_risk" ELSE "llm_call_router"

classify_semantic_risk ==
  /\ node = "classify_semantic_risk"
  /\ \E f \in IF state.text THEN RiskFindings ELSE {[level |-> "none", categories |-> {}]} :
       /\ state' = [state EXCEPT !.semantic_risk_level = f.level,
                                 !.semantic_risk_categories = f.categories]
       /\ Hear({<<"risk_level", f.level>>} \cup {<<"semantic", f.level, c>> : c \in f.categories})
  /\ Goto(route_after_semantic_risk(state'))

-----------------------------------------------------------------------------
(* Intent *)
SelfService(s) ==
  IF s.semantic_risk_level \in {"low", "medium"} THEN "confirm_order_priority"
  ELSE IF s.decision \in OPERATION_INTENTS THEN "detect_operation_order" ELSE "detect_order"

route_by_intent_and_risk(s) ==
  CASE s.decision = "none" -> "finalize_case_handoff"
    [] s.decision = "complaint" -> "classify_formal_complaint"
    [] s.decision \notin {"none", "complaint"} /\ s.human_handoff_requested ->
         "confirm_human_handoff"
    [] s.decision = "support_case_status" /\ ~s.human_handoff_requested ->
         "support_case_status"
    [] OTHER -> SelfService(s)

llm_call_router ==
  /\ node = "llm_call_router"
  /\ IF state.text
     THEN \E step \in Intents, requested \in BOOLEAN :
            state' = [new_turn_state(state, step) EXCEPT !.human_handoff_requested = requested]
     ELSE state' = new_turn_state(state, "none")
  /\ Goto(route_by_intent_and_risk(state')) /\ UNCHANGED evidence

route_after_formal_complaint(s) ==
  CASE s.human_handoff_requested -> "confirm_human_handoff"
    [] ~s.human_handoff_requested /\ s.semantic_risk_level \in {"low", "medium"} ->
         "handle_noncritical_risk"
    [] OTHER -> "handle_complaint"

classify_formal_complaint ==
  /\ node = "classify_formal_complaint"
  /\ \E c \in Complaints :
       /\ state' = [state EXCEPT !.staff_complaint_severity = c.severity,
                                 !.explicit_other_complaint = c.other]
       /\ Hear((IF c.severity # "absent" THEN {<<"staff_conduct", c.severity>>} ELSE {})
               \cup (IF c.other THEN {<<"explicit_other_complaint">>} ELSE {}))
  /\ Goto(route_after_formal_complaint(state'))

(* A declined handoff resumes the flow chosen before; for a question about    *)
(* the status of a case no branch fits, and the node raises.                  *)
route_after_human_handoff_declined(s) ==
  CASE s.decision = "complaint" ->
         IF s.semantic_risk_level \in {"low", "medium"}
         THEN "handle_noncritical_risk" ELSE "handle_complaint"
    [] s.decision \in ORDER_INTENTS ->
         IF s.semantic_risk_level \in {"low", "medium"}
         THEN "confirm_order_priority" ELSE "detect_order"
    [] s.decision \in OPERATION_INTENTS ->
         IF s.semantic_risk_level \in {"low", "medium"}
         THEN "confirm_order_priority" ELSE "resume_order_flow"
    [] OTHER -> "raised"

confirm_human_handoff(yes) ==
  /\ node = "confirm_human_handoff"
  /\ state' = [state EXCEPT !.human_handoff_confirmed = yes,
                            !.human_handoff_requested = @ /\ yes]
  /\ Hear(IF yes THEN {<<"confirmed_human_request">>} ELSE {})
  /\ Goto(IF yes THEN "acknowledge_human_handoff"
          ELSE route_after_human_handoff_declined(state))

confirm_order_priority(handle_order) ==
  /\ node = "confirm_order_priority"
  /\ Goto(IF handle_order THEN "resume_order_flow" ELSE "handle_noncritical_risk")
  /\ UNCHANGED <<state, evidence>>

route_after_order_priority(s) ==
  IF s.decision \in ORDER_INTENTS THEN "detect_order" ELSE "detect_operation_order"

resume_order_flow ==
  /\ node = "resume_order_flow"
  /\ Goto(route_after_order_priority(state)) /\ UNCHANGED <<state, evidence>>

(* The nodes that only answer. *)
Respond ==
  /\ node \in {"handle_complaint", "handle_noncritical_risk", "handle_critical_risk",
               "order_response", "cancel", "acknowledge_human_handoff",
               "support_case_status"}
  /\ Goto("finalize_case_handoff") /\ UNCHANGED <<state, evidence>>

-----------------------------------------------------------------------------
(* Orders and refunds.  A number in the message, or a reference to the order  *)
(* of an earlier turn, finds the order.                                       *)
DetectedOrders(s) ==
  {[s EXCEPT !.order_id = found, !.last_order_id = FALSE] : found \in BOOLEAN}
    \cup (IF s.last_order_id THEN {[s EXCEPT !.order_id = TRUE]} ELSE {})

detect_order ==
  /\ node \in {"detect_order", "detect_operation_order"}
  /\ state' \in DetectedOrders(state)
  /\ Goto(CASE ~state'.order_id -> "finalize_case_handoff"
            [] state'.order_id /\ node = "detect_order" -> "search_node"
            [] OTHER -> "load_operation_snapshot")
  /\ UNCHANGED evidence

search_order_node ==
  /\ node = "search_node"
  /\ \E found \in BOOLEAN :
       /\ state' = [state EXCEPT !.search_success = found, !.last_order_id = @ \/ found]
       /\ Goto(CASE ~found -> "finalize_case_handoff"
                 [] found /\ state.decision = "order_inquiry" -> "order_response"
                 [] OTHER -> "check_refund_eligibility")
  /\ UNCHANGED evidence

check_refund_policy(o) ==
  LET refundable == o.age \in 0 .. REFUND_DAYS /\ o.status = "delivered" /\ ~o.refunded
  IN [eligible |-> refundable,
      requires_manual_review |-> refundable /\ o.amount >= REFUND_LIMIT]

route_after_policy(s) ==
  IF ~s.eligible \/ s.requires_manual_review THEN "finalize_case_handoff" ELSE "approval_node"

check_refund_eligibility ==
  /\ node = "check_refund_eligibility"
  /\ \E o \in RefundOrders :
       LET result == check_refund_policy(o) IN
       /\ state' = [state EXCEPT !.eligible = result.eligible,
                                 !.requires_manual_review = result.requires_manual_review]
       /\ Hear(CASE result.requires_manual_review -> {<<"refund_manual_review">>}
                 [] result.eligible /\ ~result.requires_manual_review -> {<<"refundable">>}
                 [] OTHER -> {})
  /\ Goto(route_after_policy(state'))

approval_node(yes) ==
  /\ node = "approval_node"
  /\ Goto(IF yes THEN "proceed" ELSE "cancel")
  /\ Hear(IF yes THEN {<<"yes to refund">>} ELSE {}) /\ UNCHANGED state

(* INSERT ... ON CONFLICT (order_id) DO NOTHING *)
create_refund_node ==
  /\ node = "proceed" /\ node' = "finalize_case_handoff"
  /\ IF refunds = 0
     THEN refunds' = 1 /\ effects' = effects \cup {<<"refund">>}
     ELSE UNCHANGED <<refunds, effects>>
  /\ UNCHANGED <<state, order, operation, turn, evidence>>

-----------------------------------------------------------------------------
(* The operation subgraph *)
load_operation_snapshot ==
  /\ node = "load_operation_snapshot"
  /\ \E found \in BOOLEAN :
       /\ state' = [state EXCEPT !.operation_snapshot = IF found THEN order ELSE None,
                                 !.last_order_id = @ \/ found]
       /\ Goto(IF found THEN "extract_operation_request" ELSE "finalize_case_handoff")
  /\ UNCHANGED evidence

extract_operation_request ==
  /\ node = "extract_operation_request"
  /\ \E e \in Extractions : state' = [state EXCEPT !.operation_extraction = e]
  /\ Goto("evaluate_operation_request") /\ UNCHANGED evidence

(* create_pending_operation returns the order's active operation, if any. *)
ActiveOperation ==
  operation.status \in {"pending_confirmation", "queued", "submitted", "processing",
                        "manual_review"}

(* _persist_or_respond: only an eligible or manual decision is persisted. *)
EvaluateOperation(d) ==
  IF d.outcome \in {"eligible", "manual_review"}
  THEN /\ operation' = IF ActiveOperation THEN operation
                       ELSE [status |-> "pending_confirmation",
                             manual |-> d.outcome = "manual_review", reason |-> d.reason]
       /\ state' = [state EXCEPT !.operation_outcome = d.outcome, !.operation_id = TRUE,
                                 !.operation_status = operation'.status]
  ELSE /\ state' = [state EXCEPT !.operation_outcome = d.outcome]
       /\ UNCHANGED operation

EvaluateDeliveryIssue(d) ==
  /\ state' = [state EXCEPT
                 !.operation_outcome = d.outcome,
                 !.domain_case_reason_codes =
                   IF d.outcome = "manual_review" THEN {<<d.reason>>} ELSE {}]
  /\ UNCHANGED operation

NeedsConfirmation(s) ==
  IF s.operation_id THEN s.operation_status = "pending_confirmation"
  ELSE s.operation_outcome = "manual_review" /\ s.domain_case_reason_codes # {}

evaluate_operation_request ==
  LET e == state.operation_extraction
      s == state.operation_snapshot
  IN /\ node = "evaluate_operation_request"
     /\ CASE e.ambiguous ->
               /\ state' = [state EXCEPT !.operation_outcome = "ambiguous"]
               /\ UNCHANGED operation
          [] ~e.ambiguous /\ e.issue # None ->
               \E asked \in BOOLEAN :
                 EvaluateDeliveryIssue(evaluate_delivery_issue(e.issue, s, Now, asked))
          [] OTHER ->
               \E a \in {TRUE, FALSE, None} :
                 EvaluateOperation(evaluate_operation(e.type, s, Now, a))
     /\ node' = IF NeedsConfirmation(state')
                THEN "operation_confirmation" ELSE "finalize_case_handoff"
     /\ UNCHANGED <<order, refunds, turn, evidence, effects>>

operation_confirmation_node(yes) ==
  LET investigation == ~state.operation_id IN
  /\ node = "operation_confirmation"
  /\ Goto(CASE investigation ->
                 IF yes THEN "confirm_delivery_investigation"
                 ELSE "cancel_delivery_investigation"
            [] ~investigation /\ ~yes -> "cancel_operation"
            [] ~investigation /\ yes ->
                 IF state.operation_outcome = "manual_review"
                 THEN "confirm_manual_operation" ELSE "submit_confirmed_operation")
  /\ Hear(IF yes THEN {<<IF investigation THEN "yes to investigation"
                         ELSE "yes to operation">>} ELSE {})
  /\ UNCHANGED state

(* The subgraph's last node: the operation and the fields of the turn it      *)
(* leaves; a service that refuses the operation raises.                       *)
Finish(row, s, did) ==
  /\ operation' = row /\ state' = s /\ effects' = effects \cup did
  /\ node' = "finalize_case_handoff" /\ UNCHANGED <<order, refunds, turn, evidence>>

Refused == node' = "raised" /\ UNCHANGED <<world, state, evidence, effects>>

Pending == operation.status = "pending_confirmation"

submit_confirmed_operation ==
  /\ node = "submit_confirmed_operation"
  /\ \E connected \in Connected :
       CASE connected /\ ~operation.manual /\ operation.status \in {"pending_confirmation",
                                                                    "queued"} ->
              Finish([operation EXCEPT !.status = "queued"],
                     [state EXCEPT !.operation_status = "queued"],
                     IF Pending THEN {<<"queued", order>>} ELSE {})
         [] ~connected /\ Pending ->
              LET case == [should_create_case |-> TRUE, case_type |-> "order_operation_review",
                           priority |-> 1, reason_codes |-> {<<"provider_delivery_failed">>}]
              IN Finish([operation EXCEPT !.status = "manual_review", !.manual = TRUE],
                        [state EXCEPT !.operation_status = "manual_review",
                                      !.support_case = case,
                                      !.provider_failure_case_persisted = TRUE],
                        {<<"case", case>>})
         [] OTHER -> Refused

confirm_manual_operation ==
  /\ node = "confirm_manual_operation"
  /\ IF operation.manual /\ operation.status \notin {"none", "cancelled_by_customer",
                                                     "completed", "rejected"}
     THEN LET row == [operation EXCEPT !.status = IF Pending THEN "manual_review" ELSE @]
          IN Finish(row, [state EXCEPT !.operation_status = row.status,
                                       !.domain_case_reason_codes = {<<row.reason>>}],
                    {<<"reviewed">>})
     ELSE Refused

cancel_operation ==
  /\ node = "cancel_operation"
  /\ IF operation.status \in {"pending_confirmation", "cancelled_by_customer"}
     THEN Finish([operation EXCEPT !.status = "cancelled_by_customer"],
                 [state EXCEPT !.operation_status = "cancelled_by_customer"], {})
     ELSE Refused

confirm_delivery_investigation ==
  /\ node = "confirm_delivery_investigation"
  /\ Finish(operation, [state EXCEPT !.operation_status = "submitted"], {<<"told opened">>})

cancel_delivery_investigation ==
  /\ node = "cancel_delivery_investigation"
  /\ Finish(operation, [state EXCEPT !.operation_status = "cancelled",
                                     !.domain_case_reason_codes = {}], {})

-----------------------------------------------------------------------------
(* The end of every turn: at most one case, then its link to the operation. *)
build_handoff_policy_input(s) ==
  [hard_critical_categories |-> s.hard,
   semantic_risk_level |-> s.semantic_risk_level,
   semantic_risk_categories |-> s.semantic_risk_categories,
   refund_requires_manual_review |-> s.requires_manual_review,
   human_handoff_confirmed |-> s.human_handoff_confirmed,
   staff_complaint_severity |-> s.staff_complaint_severity,
   explicit_other_complaint |-> s.explicit_other_complaint,
   domain_case_reason_codes |-> s.domain_case_reason_codes]

WithProviderFailure(d) ==
  [d EXCEPT !.priority = 1, !.reason_codes = @ \cup {<<"provider_delivery_failed">>}]

(* Of a confirmed investigation, a case of another type sends no command. *)
RecordCase(d) ==
  /\ state' = [state EXCEPT !.support_case = d, !.provider_failure_case_persisted = FALSE]
  /\ effects' = effects \cup {<<"case", d>>}

FinalizeCase(d) ==
  CASE ~d.should_create_case ->
         /\ state' = [state EXCEPT !.support_case = NO_CASE,
                                   !.provider_failure_case_persisted = FALSE]
         /\ UNCHANGED effects
    [] d.should_create_case /\ d.case_type # "delivery_investigation" -> RecordCase(d)
    [] OTHER ->
         \E connected \in Connected :
           IF connected
           THEN /\ state' = [state EXCEPT !.support_case = d,
                                          !.provider_failure_case_persisted = FALSE]
                /\ effects' = effects \cup {<<"case", d>>, <<"command">>}
           ELSE RecordCase(WithProviderFailure(d))

finalize_case_handoff ==
  LET input == build_handoff_policy_input(state) IN
  /\ node = "finalize_case_handoff"
  /\ CASE state.provider_failure_case_persisted ->
            /\ state' = [state EXCEPT !.provider_failure_case_persisted = FALSE]
            /\ node' = "attach_operation_case" /\ UNCHANGED effects
       [] ~state.provider_failure_case_persisted /\ ~InputIsValid(input) ->
            node' = "raised" /\ UNCHANGED <<state, effects>>
       [] OTHER ->
            FinalizeCase(determine_handoff_policy(input)) /\ node' = "attach_operation_case"
  /\ UNCHANGED <<world, evidence>>

(* Its write is OperationFlow's AttachSupportCase. *)
attach_operation_case ==
  node = "attach_operation_case" /\ Goto("END") /\ UNCHANGED <<state, evidence>>

-----------------------------------------------------------------------------
Node ==
  \/ check_risk_rules \/ classify_semantic_risk \/ llm_call_router
  \/ classify_formal_complaint \/ resume_order_flow \/ Respond
  \/ detect_order \/ search_order_node \/ check_refund_eligibility \/ create_refund_node
  \/ load_operation_snapshot \/ extract_operation_request \/ evaluate_operation_request
  \/ submit_confirmed_operation \/ confirm_manual_operation \/ cancel_operation
  \/ confirm_delivery_investigation \/ cancel_delivery_investigation
  \/ finalize_case_handoff \/ attach_operation_case

Answer(yes) ==
  \/ confirm_human_handoff(yes) \/ confirm_order_priority(yes)
  \/ approval_node(yes) \/ operation_confirmation_node(yes)

Next ==
  \/ \E text \in BOOLEAN : NewMessage(text)
  \/ \E yes \in BOOLEAN : Answer(yes)
  \/ Node
  \/ OrderChanges \/ OperationEnds

Spec == Init /\ [][Next]_vars

-----------------------------------------------------------------------------
Cases == {e[2] : e \in {x \in effects : x[1] = "case"}}
CaseReasons == UNION {c.reason_codes : c \in Cases}

(* What the turn must have heard for a case to name a reason. *)
Supported(r) ==
  CASE r[1] = "provider_delivery_failed" ->
         evidence \cap {<<"yes to operation">>, <<"yes to investigation">>} # {}
    [] r[1] \in OrderReviewReasons \ {"provider_delivery_failed"} ->
         <<"yes to operation">> \in evidence
    [] r[1] \in DeliveryReasons -> <<"yes to investigation">> \in evidence
    [] OTHER -> r \in evidence

(* Nothing happens that this turn did not ask for: every reason of a case was *)
(* reported or confirmed in this turn, an operation is queued or sent to      *)
(* review, an investigation opened and a refund created only after the        *)
(* customer's yes in this turn, and a refund only when the policy allows it   *)
(* without review.  No field of an earlier turn, left in the checkpoint by a  *)
(* finished or an abandoned run, plays a part (new_turn_state).               *)
SupportedByThisTurn ==
  /\ \A r \in CaseReasons : Supported(r)
  /\ \A e \in effects :
       /\ e[1] \in {"queued", "reviewed"} => <<"yes to operation">> \in evidence
       /\ e[1] \in {"told opened", "command"} => <<"yes to investigation">> \in evidence
       /\ e[1] = "refund" => {<<"yes to refund">>, <<"refundable">>} \subseteq evidence

(* A level weighs by itself: SemanticRiskDetection may report it without a    *)
(* category.                                                                  *)
Critical(r) ==
  \/ r[1] = "hard_critical"
  \/ r[1] \in {"semantic", "risk_level"} /\ r[2] \in {"high", "critical"}

(* A level demands what every category of it does, p1; a category, its own. *)
UrgentEnough(c, r) ==
  IF r[1] = "risk_level" THEN c.priority <= 1
  ELSE /\ c.priority <= ReasonPriority(r)
       /\ CaseTypeRank(c.case_type) <= CaseTypeRank(ReasonCaseType(r))

(* A message with a hard-critical match, or of high or critical semantic      *)
(* risk, is never handled as ordinary business: it ends with a case at least  *)
(* as urgent as its risk demands, and with nothing else                       *)
(* (route_after_risk_rules, route_after_semantic_risk).  The one way it ends  *)
(* without a case is an exception of HandoffPolicyInput.validate_semantic_risk, *)
(* and that only when the turn's sole evidence is a level the classifier      *)
(* reported without any category.                                             *)
SafetyFirst ==
  \A r \in evidence :
    Critical(r) =>
      /\ node \in {"handle_critical_risk", "finalize_case_handoff", "attach_operation_case",
                   "END", "raised"}
      /\ \A e \in effects : e[1] = "case"
      /\ node = "END" => \E c \in Cases : UrgentEnough(c, r)
      /\ node = "raised" => evidence = {r} /\ r[1] = "risk_level"

CaseCreating(r) ==
  \/ r[1] \in {"hard_critical", "staff_conduct", "refund_manual_review",
               "confirmed_human_request", "explicit_other_complaint"}
  \/ r[1] = "semantic" /\ r[2] # "low"

FellBack ==
  \E c \in Cases : /\ c.case_type = "order_operation_review"
                   /\ <<"provider_delivery_failed">> \in c.reason_codes

(* Everything a turn hears that calls for a case is among the reasons of the  *)
(* case it ends with, also what was heard before the customer chose to go on  *)
(* with the order (build_handoff_policy_input, determine_handoff_policy).     *)
(* There are two exceptions: a turn whose operation fell back to provider     *)
(* review, and one that raises in finalize_case_handoff, which has no end.    *)
HeardIsKept ==
  node = "END" /\ ~FellBack => \A r \in evidence : CaseCreating(r) => r \in CaseReasons
=============================================================================

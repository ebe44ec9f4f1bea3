--------------------------- MODULE MCCaseService ----------------------------
(* Instances of CaseService.  What a handoff asks for is what the handoff     *)
(* policy decides about the message's facts.                                  *)
EXTENDS CaseService, TLC

CONSTANTS k1, k2, a1, a2
CONSTANTS h1, h2, h3, s1, s2, s3, r1, r2

Facts ==
  [hard_critical_categories |-> {}, semantic_risk_level |-> "none",
   semantic_risk_categories |-> {}, staff_complaint_severity |-> "absent",
   refund_requires_manual_review |-> FALSE, human_handoff_confirmed |-> FALSE,
   explicit_other_complaint |-> FALSE, domain_case_reason_codes |-> {}]

Legal(level) ==
  [Facts EXCEPT !.semantic_risk_level = level, !.semantic_risk_categories = {"legal"}]
HumanRequest == [Facts EXCEPT !.human_handoff_confirmed = TRUE]
Domain(r) == [Facts EXCEPT !.domain_case_reason_codes = {<<r>>}]

RiskRank(i) ==
  CASE i.semantic_risk_level = "medium" -> 3 [] i.semantic_risk_level = "high" -> 4
    [] OTHER -> 0

Handoff(message, order, facts, connected) ==
  LET d == determine_handoff_policy(facts)
  IN [kind |-> "handoff", thread |-> "t", message |-> message, order |-> order,
      case_type |-> d.case_type, priority |-> d.priority, reasons |-> d.reason_codes,
      risk |-> RiskRank(facts), connected |-> connected]

Status(id, target, by) == [kind |-> "status", id |-> id, target |-> target, by |-> by]
Assign(id, agent) == [kind |-> "assign", id |-> id, agent |-> agent]
Failure(kind, message) == [kind |-> kind, thread |-> "t", message |-> message, order |-> "o1"]
Finalize(outcome) == [kind |-> "finalize", outcome |-> outcome]
Callback == [kind |-> "callback"]
Redrive == [kind |-> "redrive"]

(* Messages of one thread merge into a case the staff is working on; the run  *)
(* of the first message is repeated, and classified differently.              *)
Merge ==
  (h1 :> Handoff("m1", None, Legal("medium"), FALSE))
    @@ (h2 :> Handoff("m1", None, HumanRequest, FALSE))
    @@ (h3 :> Handoff("m2", "o1", Legal("high"), FALSE))
    @@ (s1 :> Status("q1", "in_progress", None))
    @@ (r1 :> Assign("q2", a1))

(* A case through the staff's hands; a request is repeated with its id. *)
Staff ==
  (h1 :> Handoff("m1", None, HumanRequest, FALSE))
    @@ (s1 :> Status("q1", "in_progress", a1)) @@ (s2 :> Status("q1", "in_progress", a1))
    @@ (s3 :> Status("q2", "resolved", a2))
    @@ (r1 :> Assign("q3", a1)) @@ (r2 :> Assign("q4", a2))

(* Investigations with and without a connection, put on hold or resolved. *)
Delivery ==
  (h1 :> Handoff("m1", "o1", Domain("delivery_tracking_stalled"), TRUE))
    @@ (h2 :> Handoff("m2", "o1", Domain("delivery_overdue_investigation"), FALSE))
    @@ (h3 :> Handoff("m3", "o1", Domain("delivery_tracking_stalled"), TRUE))
    @@ (s1 :> Status("q1", "in_progress", None)) @@ (s2 :> Status("q2", "on_hold", None))

(* The provider fallback beside reviews of the same thread. *)
Review ==
  (h1 :> Handoff("m1", None, Domain("exchange_inventory_unknown"), FALSE))
    @@ (h2 :> Handoff("m2", "o1", Domain("return_manual_amount_review"), FALSE))
    @@ (r1 :> Failure("failure", "m2"))
    @@ (s1 :> Status("q1", "in_progress", None)) @@ (s2 :> Status("q2", "resolved", None))

(* The command of an investigation ends, is redriven and ends again, beside a *)
(* callback, a second trigger and a change of status.                         *)
Provider(first, second) ==
  (h1 :> Handoff("m1", "o1", Domain("delivery_tracking_stalled"), TRUE))
    @@ (h2 :> Handoff("m2", "o1", Domain("delivery_overdue_investigation"), TRUE))
    @@ (s1 :> Status("q1", "in_progress", None))
    @@ (r1 :> Finalize(first)) @@ (r2 :> Finalize(second)) @@ (s2 :> Redrive)
    @@ (s3 :> Callback)

(* Two operations of a thread fail; their commands are redriven. *)
DeadCommands ==
  (h1 :> Handoff("m1", None, Domain("exchange_inventory_unknown"), FALSE))
    @@ (r1 :> Failure("dead_command", "m2")) @@ (r2 :> Failure("dead_command", "m3"))
    @@ (s1 :> Status("q1", "in_progress", None)) @@ (h2 :> Redrive) @@ (h3 :> Redrive)

(* A case is reopened after the thread has got another one. *)
Reopen ==
  (h1 :> Handoff("m1", None, HumanRequest, FALSE))
    @@ (h2 :> Handoff("m2", None, HumanRequest, FALSE))
    @@ (s1 :> Status("q1", "in_progress", None)) @@ (s2 :> Status("q2", "resolved", None))
    @@ (s3 :> Status("q3", "open", None))

(* Calls a workload does not make. *)
Made(w) == [c \in Calls |-> IF c \in DOMAIN w THEN w[c] ELSE [kind |-> "none"]]

MCWorkloads ==
  {Made(w) : w \in {Merge, Staff, Delivery, Review, DeadCommands, Reopen,
                    Provider("failed", "accepted"), Provider("failed", "rejected")}}
=============================================================================

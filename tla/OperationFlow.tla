---------------------------- MODULE OperationFlow ----------------------------
(* The customer's side of an order operation: graph runs that record it, ask  *)
(* for confirmation, and cancel it, queue it or hand it to the staff          *)
(* (agent.nodes.operations, agent.operations.service and its PostgreSQL       *)
(* repository, and the last two nodes of agent.graph).  Every await between a *)
(* read and the write that relies on it is a point where other runs and the   *)
(* Provider side may act.                                                     *)
(*                                                                            *)
(* The row of an operation is named by the source message that created it, so *)
(* Operations is also the set of messages, and run[m] is the graph run that   *)
(* message m started.                                                         *)
EXTENDS CommandLifecycle, Naturals

CONSTANTS
  Threads, Orders,
  ThreadOf,            \* message -> conversation thread
  OrderOf,             \* message -> order it is about
  ManualDecisions,     \* messages the policy decides as manual_review
  MAX_WRITE_ATTEMPTS,  \* OperationService._max_write_attempts
  MaxVersion,          \* bound: versions the Provider side may bring a row to
  MaxCases,            \* bound: review cases per thread
  MaxCrashes           \* bound: runs killed between two awaits

CaseIds == Threads \X (1 .. MaxCases)
NoCase == <<"no case">>

ASSUME MessagesTyped ==
  /\ ThreadOf \in [Operations -> Threads]
  /\ OrderOf \in [Operations -> Orders]
  /\ ManualDecisions \subseteq Operations
  /\ Investigations = {}

ASSUME FlowBounds ==
  /\ MAX_WRITE_ATTEMPTS \in Nat \ {0}
  /\ {MaxVersion, MaxCases, MaxCrashes} \subseteq Nat

VARIABLES
  row,      \* operation -> [requires_manual_review, support_case_id, version]
  decided,  \* operation -> idempotency keys of its customer decision events
  review,   \* thread -> [count, open]: its order_operation_review cases
  failed,   \* case ids that carry provider_delivery_failed
  trigger,  \* message -> case whose events name it as source_message_id
  run,      \* message -> the graph run it started, with its checkpointed state
  crashes

flow == <<row, decided, review, failed, trigger, run, crashes>>
vars == <<delivery, status, flow>>

Nodes == {"idle", "evaluate", "confirm", "cancel", "manual", "submit", "handoff",
          "attach", "done"}
Steps == {"read", "active", "change", "write", "failed"}
Answers == {"nothing", "accepted", "cancelled", "review", "already"}

FreshRun(m) ==
  [node |-> "idle", step |-> "read", tries |-> 0, seen |-> 0,
   operation_id |-> m, operation_status |-> "absent", reasons |-> FALSE,
   support_case_id |-> NoCase, marked |-> FALSE, persisted |-> FALSE,
   told |-> "nothing"]

Init ==
  /\ LifecycleInit /\ \A o \in Operations : status[o] = "absent"
  /\ row = [o \in Operations |->
              [requires_manual_review |-> FALSE, support_case_id |-> NoCase, version |-> 0]]
  /\ decided = [o \in Operations |-> {}]
  /\ review = [t \in Threads |-> [count |-> 0, open |-> FALSE]]
  /\ failed = {} /\ trigger = [m \in Operations |-> NoCase]
  /\ run = [m \in Operations |-> FreshRun(m)]
  /\ crashes = 0

-----------------------------------------------------------------------------
(* Running a graph: nodes, awaits inside a node, checkpoints. *)

At(m, node, step) == run[m].node = node /\ run[m].step = step

Enter(r, node) == [r EXCEPT !.node = node, !.step = "read", !.tries = 0, !.seen = 0]

Raise(r) == [r EXCEPT !.step = "failed", !.seen = 0]

Continue(m, r) == run' = [run EXCEPT ![m] = r] /\ UNCHANGED crashes

(* A node that has committed is left for the next one, unless the process    *)
(* dies before the checkpoint: the run is then resumed at the same node.     *)
Committed(m, r) ==
  \/ Continue(m, r)
  \/ /\ crashes < MaxCrashes /\ crashes' = crashes + 1
     /\ run' = [run EXCEPT ![m] = Enter(@, @.node)]

AtRest(m) == run[m].node \in {"idle", "confirm", "done"} \/ run[m].step = "failed"

(* A message starts a run of its thread, where only one executes at a time;  *)
(* a client may send the same message again.  check_risk_rules resets every  *)
(* field of the turn.                                                        *)
SendMessage(m) ==
  /\ \A n \in Operations : ThreadOf[n] = ThreadOf[m] => AtRest(n)
  /\ run' = [n \in Operations |->
               CASE n = m -> Enter(FreshRun(n), "evaluate")
                 [] n # m /\ ThreadOf[n] = ThreadOf[m] ->
                      IF run[n].node = "done" THEN run[n] ELSE FreshRun(n)
                 [] OTHER -> run[n]]
  /\ UNCHANGED <<delivery, status, row, decided, review, failed, trigger, crashes>>

(* The process dies between two awaits, or the client re-invokes a run that  *)
(* raised: the node starts again from its checkpointed state.                *)
Crash(m) ==
  /\ ~AtRest(m) /\ run[m] # Enter(run[m], run[m].node)
  /\ crashes < MaxCrashes /\ crashes' = crashes + 1
  /\ run' = [run EXCEPT ![m] = Enter(@, @.node)]
  /\ UNCHANGED <<delivery, status, row, decided, review, failed, trigger>>

Reinvoke(m) ==
  /\ run[m].step = "failed"
  /\ Continue(m, Enter(run[m], run[m].node))
  /\ UNCHANGED <<delivery, status, row, decided, review, failed, trigger>>

-----------------------------------------------------------------------------
(* evaluate_operation_request: create_pending_operation *)

ACTIVE_STATUSES ==
  {"pending_confirmation", "queued", "submitted", "processing", "manual_review"}

ActiveOn(order) ==
  {o \in Operations : OrderOf[o] = order /\ status[o] \in ACTIVE_STATUSES}

(* _persist_or_respond: an operation no longer pending is only reported;     *)
(* route to operation_confirmation otherwise.                                *)
Result(m, o) ==
  LET r == [run[m] EXCEPT !.operation_id = o, !.operation_status = status'[o]]
  IN IF status'[o] = "pending_confirmation"
     THEN Enter(r, "confirm")
     ELSE Enter([r EXCEPT !.told = "already"], "handoff")

FindBySourceMessage(m) ==
  /\ At(m, "evaluate", "read")
  /\ UNCHANGED <<delivery, status, row, decided, review, failed, trigger>>
  /\ IF status[m] # "absent"
     THEN Continue(m, Result(m, m))
     ELSE Continue(m, [run[m] EXCEPT !.step = "active"])

(* After the last attempt both look-ups are made once more. *)
FindActiveByOrderId(m) ==
  /\ At(m, "evaluate", "active")
  /\ UNCHANGED <<delivery, status, row, decided, review, failed, trigger>>
  /\ \/ \E o \in ActiveOn(OrderOf[m]) : Continue(m, Result(m, o))
     \/ /\ ActiveOn(OrderOf[m]) = {}
        /\ IF run[m].tries < MAX_WRITE_ATTEMPTS
           THEN Continue(m, [run[m] EXCEPT !.step = "write"])
           ELSE Continue(m, Raise(run[m]))

(* Mutant: the index on the active order is missing. *)
UniqueSourceOnly(m) == status[m] # "absent"

(* The unique indexes on the source message and on the active order. *)
UniqueViolation(m) == status[m] # "absent" \/ ActiveOn(OrderOf[m]) # {}

CreateOperation(m) ==
  /\ At(m, "evaluate", "write")
  /\ UNCHANGED <<delivery, decided, review, failed, trigger>>
  /\ IF UniqueViolation(m)
     THEN /\ Continue(m, [run[m] EXCEPT !.step = "read", !.tries = @ + 1])
          /\ UNCHANGED <<status, row>>
     ELSE /\ status' = WithStatus({m}, "pending_confirmation")
          /\ row' = [row EXCEPT ![m] =
                       [requires_manual_review |-> m \in ManualDecisions,
                        support_case_id |-> NoCase, version |-> 1]]
          /\ Committed(m, Result(m, m))

-----------------------------------------------------------------------------
(* operation_confirmation_node: the interrupt is answered, at any later time. *)
Answer(m, yes) ==
  /\ run[m].node = "confirm"
  /\ Continue(m, Enter(run[m], CASE ~yes -> "cancel"
                                 [] yes /\ m \in ManualDecisions -> "manual"
                                 [] OTHER -> "submit"))
  /\ UNCHANGED <<delivery, status, row, decided, review, failed, trigger>>

(* cancel_operation and confirm_manual_operation: _change_from_pending *)
Decisions == {"cancel", "manual"}

(* Mutant: confirm_manual_operation does not pass the reasons on. *)
ToldWithoutReasons(m, s) ==
  Enter([run[m] EXCEPT !.operation_status = s,
                       !.told = IF run[m].node = "cancel" THEN "cancelled" ELSE "review"],
        "handoff")

(* What the node returns, once the service has an operation to show. *)
Told(m, s) ==
  Enter([run[m] EXCEPT !.operation_status = s,
                       !.reasons = (run[m].node = "manual"),
                       !.told = IF run[m].node = "cancel" THEN "cancelled" ELSE "review"],
        "handoff")

(* confirm_operation refuses automatic operations; a decision event that is  *)
(* already recorded answers a repeated request.                              *)
StartDecision(m) ==
  LET o == run[m].operation_id IN
  /\ run[m].node \in Decisions /\ run[m].step = "read"
  /\ Continue(m, IF run[m].node = "manual" /\ ~row[o].requires_manual_review
                 THEN Raise(run[m])
                 ELSE IF run[m].node \in decided[o] THEN Told(m, status[o])
                 ELSE [run[m] EXCEPT !.step = "change"])
  /\ UNCHANGED <<delivery, status, row, decided, review, failed, trigger>>

(* Mutant: any decided operation answers any decision. *)
AnyDecision(node, s) == TRUE

AlreadyDecided(node, s) ==
  IF node = "cancel" THEN s = "cancelled_by_customer" ELSE s \in ACTIVE_STATUSES

ReadForDecision(m) ==
  LET o == run[m].operation_id IN
  /\ run[m].node \in Decisions /\ run[m].step = "change"
  /\ Continue(m, IF run[m].tries = MAX_WRITE_ATTEMPTS THEN Raise(run[m])
                 ELSE IF status[o] = "pending_confirmation"
                 THEN [run[m] EXCEPT !.step = "write", !.seen = row[o].version]
                 ELSE IF AlreadyDecided(run[m].node, status[o]) THEN Told(m, status[o])
                 ELSE Raise(run[m]))
  /\ UNCHANGED <<delivery, status, row, decided, review, failed, trigger>>

(* Mutant: the version is not part of the WHERE clause. *)
Unversioned(m) == TRUE

(* update_operation_with_events: UPDATE ... WHERE version = expected_version *)
Unchanged(m) == row[run[m].operation_id].version = run[m].seen

Touch(o) == row' = [row EXCEPT ![o].version = @ + 1]

(* Mutant: the write is tried again on the stale read. *)
RetryStale(m) == run[m]

(* After a conflict: the decision may be this run's own, committed before a  *)
(* crash; else read again.                                                   *)
AfterConflict(m) ==
  LET r == [run[m] EXCEPT !.step = "change", !.tries = @ + 1, !.seen = 0] IN
  IF run[m].node \in decided[run[m].operation_id]
  THEN Told(m, status[run[m].operation_id])
  ELSE r

WriteDecision(m) ==
  LET o == run[m].operation_id IN
  /\ run[m].node \in Decisions /\ run[m].step = "write"
  /\ UNCHANGED <<delivery, review, failed, trigger>>
  /\ IF Unchanged(m)
     THEN /\ status' = WithStatus({o}, IF run[m].node = "cancel"
                                       THEN "cancelled_by_customer" ELSE "manual_review")
          /\ Touch(o)
          /\ decided' = [decided EXCEPT ![o] = @ \cup {run[m].node}]
          /\ Committed(m, Told(m, status'[o]))
     ELSE /\ Continue(m, AfterConflict(m))
          /\ UNCHANGED <<status, row, decided>>

-----------------------------------------------------------------------------
(* submit_confirmed_operation: queue_confirmed_operation, or the review of   *)
(* an operation whose tenant has no Provider connection                      *)
Accepted(m, s) ==
  Enter([run[m] EXCEPT !.operation_status = s, !.told = "accepted"], "handoff")

ReadToQueue(m) ==
  LET o == run[m].operation_id IN
  /\ At(m, "submit", "read")
  /\ Continue(m, CASE row[o].requires_manual_review -> Raise(run[m])
                   [] ~row[o].requires_manual_review /\ status[o] = "queued" ->
                        Accepted(m, status[o])
                   [] ~row[o].requires_manual_review /\ status[o] = "pending_confirmation" ->
                        [run[m] EXCEPT !.step = "write", !.seen = row[o].version]
                   [] OTHER -> Raise(run[m]))
  /\ UNCHANGED <<delivery, status, row, decided, review, failed, trigger>>

(* The Outbox command is inserted in the same transaction; a version         *)
(* conflict is not retried.                                                  *)
QueueOperation(m) ==
  LET o == run[m].operation_id IN
  /\ At(m, "submit", "write")
  /\ UNCHANGED <<decided, review, failed, trigger>>
  /\ IF Unchanged(m)
     THEN /\ status' = WithStatus({o}, "queued")
          /\ delivery' = [delivery EXCEPT ![o] = "undecided"]
          /\ Touch(o) /\ Committed(m, Accepted(m, "queued"))
     ELSE Continue(m, Raise(run[m])) /\ UNCHANGED <<delivery, status, row>>

(* The thread's unresolved review case, or the next one. *)
ReviewCase(t) ==
  <<t, IF review[t].open THEN review[t].count ELSE review[t].count + 1>>

UseReviewCase(t) ==
  /\ ReviewCase(t) \in CaseIds
  /\ review' = [review EXCEPT ![t] = [count |-> ReviewCase(t)[2], open |-> TRUE]]

Triggered(m, c) == [trigger EXCEPT ![m] = IF @ = NoCase THEN c ELSE @]

(* PostgresProviderQueueFailureCoordinator and the Outbox finalizer link the *)
(* case with the status change, in one transaction.                          *)
LinkReviewCase(o) ==
  LET c == ReviewCase(ThreadOf[o]) IN
  /\ UseReviewCase(ThreadOf[o])
  /\ failed' = failed \cup {c}
  /\ trigger' = Triggered(o, c)
  /\ row' = [row EXCEPT ![o] = [requires_manual_review |-> TRUE, support_case_id |-> c,
                                version |-> @.version + 1]]

(* finalize_case_handoff only keeps a fallback case that is unresolved. *)
Fallback(m, c) ==
  Enter([run[m] EXCEPT !.operation_status = "manual_review", !.support_case_id = c,
                       !.marked = (c \in failed'),
                       !.persisted = (review'[c[1]] = [count |-> c[2], open |-> TRUE]),
                       !.told = "review"],
        "handoff")

MoveToProviderManualReview(m) ==
  LET o == run[m].operation_id IN
  /\ At(m, "submit", "read")
  /\ UNCHANGED <<delivery, decided>>
  /\ CASE status[o] = "pending_confirmation" ->
            /\ status' = WithStatus({o}, "manual_review") /\ LinkReviewCase(o)
            /\ Committed(m, Fallback(m, row'[o].support_case_id))
       [] status[o] = "manual_review" /\ row[o].support_case_id # NoCase ->
            /\ UNCHANGED <<status, row, review, failed, trigger>>
            /\ Continue(m, Fallback(m, row[o].support_case_id))
       [] OTHER ->
            /\ Continue(m, Raise(run[m]))
            /\ UNCHANGED <<status, row, review, failed, trigger>>

-----------------------------------------------------------------------------
(* finalize_case_handoff: a persisted fallback case is kept; the reasons of  *)
(* a confirmed manual operation create or reuse the thread's review case     *)
(* (record_handoff, whose own races CaseService models); else no case.  The  *)
(* reason of an automatic decision is no HandoffReason: validation raises.   *)
HandedOver(m, c) ==
  Enter([run[m] EXCEPT !.support_case_id = c, !.marked = (c \in failed),
                       !.persisted = FALSE], "attach")

FinalizeCaseHandoff(m) ==
  /\ At(m, "handoff", "read")
  /\ UNCHANGED <<delivery, status, row, decided, failed>>
  /\ CASE run[m].persisted /\ run[m].marked ->
            /\ Continue(m, Enter([run[m] EXCEPT !.persisted = FALSE], "attach"))
            /\ UNCHANGED <<review, trigger>>
       [] ~(run[m].persisted /\ run[m].marked) /\ ~run[m].reasons ->
            /\ Continue(m, HandedOver(m, NoCase))
            /\ UNCHANGED <<review, trigger>>
       [] OTHER ->
            IF run[m].operation_id \notin ManualDecisions
            THEN Continue(m, Raise(run[m])) /\ UNCHANGED <<review, trigger>>
            ELSE IF trigger[m] # NoCase
            THEN Continue(m, HandedOver(m, trigger[m])) /\ UNCHANGED <<review, trigger>>
            ELSE LET c == ReviewCase(ThreadOf[m]) IN
                 /\ UseReviewCase(ThreadOf[m])
                 /\ trigger' = Triggered(m, c)
                 /\ Committed(m, HandedOver(m, c))

(* attach_operation_case: attach_support_case, skipped for a case that       *)
(* already carries provider_delivery_failed.                                 *)
SkipsAttach(m) ==
  \/ run[m].support_case_id = NoCase
  \/ run[m].operation_status # "manual_review"
  \/ run[m].marked

ReadToAttach(m) ==
  LET o == run[m].operation_id IN
  /\ At(m, "attach", "read")
  /\ Continue(m, CASE SkipsAttach(m) -> Enter(run[m], "done")
                   [] ~SkipsAttach(m) /\ run[m].tries = MAX_WRITE_ATTEMPTS -> Raise(run[m])
                   [] OTHER ->
                      IF ~row[o].requires_manual_review \/ status[o] # "manual_review"
                      THEN Raise(run[m])
                      ELSE CASE row[o].support_case_id = NoCase ->
                                  [run[m] EXCEPT !.step = "write", !.seen = row[o].version]
                             [] row[o].support_case_id = run[m].support_case_id ->
                                  Enter(run[m], "done")
                             [] OTHER -> Raise(run[m]))
  /\ UNCHANGED <<delivery, status, row, decided, review, failed, trigger>>

AttachSupportCase(m) ==
  LET o == run[m].operation_id IN
  /\ At(m, "attach", "write")
  /\ UNCHANGED <<delivery, status, decided, review, failed, trigger>>
  /\ IF Unchanged(m)
     THEN /\ row' = [row EXCEPT ![o].support_case_id = run[m].support_case_id,
                                ![o].version = @ + 1]
          /\ Committed(m, Enter(run[m], "done"))
     ELSE /\ Continue(m, [run[m] EXCEPT !.step = "read", !.tries = @ + 1, !.seen = 0])
          /\ UNCHANGED row

-----------------------------------------------------------------------------
(* The rest of the system: the Outbox and the Inbox decide (ProviderOutbox,  *)
(* ProviderInbox), the staff redrive and resolve cases.  Every one of their  *)
(* transactions raises the version of the operation it changes.              *)
ProviderSide(o) ==
  /\ row[o].version < MaxVersion
  /\ UNCHANGED <<decided, run, crashes>>
  /\ \/ /\ Accept(o) \/ Reject(o) \/ Callback(o)
        /\ Touch(o) /\ UNCHANGED <<review, failed, trigger>>
     \/ Fail({o}) /\ LinkReviewCase(o)
     \/ /\ Redrive(o)
        /\ row' = [row EXCEPT ![o] = [requires_manual_review |-> FALSE,
                                      support_case_id |-> NoCase,
                                      version |-> @.version + 1]]
        /\ UNCHANGED <<review, failed, trigger>>

StaffResolves(t) ==
  /\ review[t].open /\ review[t].count < MaxCases
  /\ review' = [review EXCEPT ![t].open = FALSE]
  /\ UNCHANGED <<delivery, status, row, decided, failed, trigger, run, crashes>>

RunStep(m) ==
  \/ FindBySourceMessage(m) \/ FindActiveByOrderId(m) \/ CreateOperation(m)
  \/ StartDecision(m) \/ ReadForDecision(m) \/ WriteDecision(m)
  \/ ReadToQueue(m) \/ MoveToProviderManualReview(m) \/ QueueOperation(m)
  \/ FinalizeCaseHandoff(m) \/ ReadToAttach(m) \/ AttachSupportCase(m)

Next ==
  \/ \E m \in Operations :
       SendMessage(m) \/ Crash(m) \/ Reinvoke(m) \/ RunStep(m)
       \/ \E yes \in BOOLEAN : Answer(m, yes)
  \/ \E o \in Operations : ProviderSide(o)
  \/ \E t \in Threads : StaffResolves(t)

Spec == Init /\ [][Next]_vars

(* An executing run is scheduled by the event loop; nothing makes a customer *)
(* answer, a client re-invoke, or the Provider decide.                       *)
Fairness == \A m \in Operations : WF_vars(RunStep(m))

FairSpec == Spec /\ Fairness

-----------------------------------------------------------------------------
(* Rows, runs and the case a run links are well formed: a linked case exists. *)
FlowTypeOK ==
  /\ LifecycleType
  /\ row \in [Operations -> [requires_manual_review : BOOLEAN,
                             support_case_id : CaseIds \cup {NoCase},
                             version : Nat]]
  /\ decided \in [Operations -> SUBSET Decisions]
  /\ review \in [Threads -> [count : 0 .. MaxCases, open : BOOLEAN]]
  /\ failed \subseteq CaseIds
  /\ trigger \in [Operations -> CaseIds \cup {NoCase}]
  /\ run \in [Operations ->
       [node : Nodes, step : Steps, tries : Nat, seen : Nat, operation_id : Operations,
        operation_status : OperationRecordStatus \cup {"absent"}, reasons : BOOLEAN,
        support_case_id : CaseIds \cup {NoCase}, marked : BOOLEAN, persisted : BOOLEAN,
        told : Answers]]
  /\ crashes \in Nat

(* However conversations race to create, at most one operation of an order   *)
(* is pending, queued, with the Provider or under review                     *)
(* (create_pending_operation over uq_order_operations_active_order).         *)
OneActivePerOrder == \A r \in Orders : \A o, p \in ActiveOn(r) : o = p

(* What a conversation tells the customer is what happened to the operation, *)
(* also when another conversation, or a run that died after its commit,      *)
(* decided first: "accepted" only for a queued command, "cancelled" only for *)
(* a cancelled operation, "review" only for a confirmed one                  *)
(* (_change_from_pending, queue_confirmed_operation, move_to_manual_review). *)
TruthfulAnswers ==
  \A m \in Operations :
    LET o == run[m].operation_id IN
    /\ run[m].told = "accepted" => delivery[o] # "none"
    /\ run[m].told = "cancelled" => status[o] = "cancelled_by_customer"
    /\ run[m].told = "review" =>
         status[o] \notin {"absent", "pending_confirmation", "cancelled_by_customer"}
    /\ run[m].told = "already" => status[o] \notin {"absent", "pending_confirmation"}

(* A conversation that ended by announcing a manual review has left the      *)
(* operation linked to a case, unless attach_operation_case skipped a case   *)
(* that carries provider_delivery_failed (confirm_manual_operation,          *)
(* finalize_case_handoff and attach_operation_case are three transactions).  *)
ReviewHandedOver ==
  \A m \in Operations :
    run[m].node = "done" /\ run[m].told = "review" /\ ~run[m].marked
      /\ status[run[m].operation_id] = "manual_review" =>
        row[run[m].operation_id].support_case_id # NoCase

(* The case of an operation is written once: no run, stale or repeated,      *)
(* replaces it; only a redrive clears it (attach_support_case's version      *)
(* check, redrive_outbox).                                                   *)
CaseLinkKept ==
  [][\A o \in Operations :
       row[o].support_case_id # NoCase /\ row'[o].support_case_id # row[o].support_case_id =>
         delivery[o] = "failed" /\ delivery'[o] = "undecided"]_vars

(* A run that executes comes to rest: it ends, waits for the customer, or    *)
(* raises.  Conflicts are retried on a new read and at most three times.     *)
RunsComeToRest == \A m \in Operations : ~AtRest(m) ~> AtRest(m)
=============================================================================

--------------------------- MODULE ProviderOutbox ---------------------------
(* The transactional Outbox that delivers Provider commands: the rows of     *)
(* integration.outbox_messages and outbox_delivery_attempts, the delivery    *)
(* workers that claim, send and finalize them under a lease, the recovery of *)
(* expired leases, the manual redrive of dead commands, and the order        *)
(* operation or delivery-investigation case each command acts on.            *)
(*                                                                           *)
(* A database transaction is one step: it locks the outbox row first, so no  *)
(* other transaction on the same command interleaves with it.  Everything    *)
(* between two transactions of a worker (an await) is a step boundary.       *)
EXTENDS Naturals, Sequences, FiniteSets

CONSTANTS
  Operations,      \* commands whose aggregate is an order operation
  Investigations,  \* commands whose aggregate is a delivery-investigation case
  Threads,         \* conversation threads
  ThreadOf,        \* the thread of each order operation
  Workers,         \* delivery worker processes (worker_id)
  Requests,        \* request_ids of manual redrives
  Kinds,           \* failure kinds the transport reports
  MAX_ATTEMPTS,    \* delivery attempts per cycle (8 in the code)
  LeaseTicks,      \* length of a lease in ticks of the model's clock
  BatchSize,       \* LIMIT of a claim or of a recovery
  MaxCases         \* bound: review cases opened by other flows, per thread

Commands == Operations \cup Investigations

(* models.py: the failure kinds, and the ones that are retried. *)
RETRYABLE_FAILURE_KINDS == {"network_error", "timeout", "http_retryable"}

TECHNICAL_FAILURE_KINDS ==
  RETRYABLE_FAILURE_KINDS \cup {"http_client_error", "validation_error"}

FailureKinds == TECHNICAL_FAILURE_KINDS \cup {"provider_rejection"}

ASSUME CommandsDisjoint == Operations \cap Investigations = {}
ASSUME ThreadOfType == ThreadOf \in [Operations -> Threads]
ASSUME KindsTechnical == Kinds \subseteq TECHNICAL_FAILURE_KINDS
ASSUME MaxAttemptsPositive == MAX_ATTEMPTS \in Nat \ {0}
ASSUME LeaseTicksPositive == LeaseTicks \in Nat \ {0}
ASSUME BoundsNat == BatchSize \in Nat /\ MaxCases \in Nat

VARIABLES
  outbox,         \* command -> row of outbox_messages
  attempts,       \* command -> sequence of rows of outbox_delivery_attempts
  operation,      \* operation command -> its order_operations row
  investigation,  \* investigation command -> its support case
  cases,          \* thread -> sequence of order_operation_review cases
  events,         \* command -> finalization events (the idempotency keys)
  redrives,       \* rows of outbox_redrives
  task,           \* worker -> command -> the asyncio task dispatching it
  sent,           \* commands some request of which is on the wire
  provider        \* command -> the Provider's recorded decision

database == <<outbox, attempts, operation, investigation, cases, events, redrives>>
vars == <<database, task, sent, provider>>

-----------------------------------------------------------------------------
(* Rows.  Every claim mints a lease_id and an attempt_id: both are the       *)
(* position of the claim in the command's attempt ledger; 0 is NULL.  The    *)
(* lease_owner is the worker_id of that attempt.  lease_ttl counts down to   *)
(* lease_expires_at; due says available_at <= now.                           *)

Row == [status : {"absent", "pending", "processing", "retry_scheduled",
                  "published", "dead"},
        delivery_cycle : Nat, attempts_in_cycle : Nat,
        lease_id : Nat, lease_ttl : Nat, due : BOOLEAN,
        last_failure_kind : FailureKinds \cup {"none"}]

Attempt == [delivery_cycle : Nat, attempt_number : Nat, worker_id : Workers,
            outcome : {"open", "accepted", "provider_rejected",
                       "terminal_failure", "retry_scheduled", "lease_expired"},
            failure_kind : FailureKinds \cup {"none"}]

Operation == [status : {"pending_confirmation", "queued", "submitted", "processing",
                        "completed", "rejected", "manual_review"},
              requires_manual_review : BOOLEAN, support_case_id : Nat]

ReviewCase == [status : {"active", "resolved"}, delivery_failed : BOOLEAN]

Event == [cycle : Nat, status : {"submitted", "rejected", "manual_review", "accepted"}]

Redrive == [request_id : Requests, command_id : Commands, new_cycle : Nat]

Task == [stage : {"idle", "claimed", "sending", "accepted", "rejected", "failed"},
         lease_id : Nat, kind : FailureKinds \cup {"none"}]

Idle == [stage |-> "idle", lease_id |-> 0, kind |-> "none"]

Init ==
  /\ outbox = [c \in Commands |->
       [status |-> "absent", delivery_cycle |-> 1, attempts_in_cycle |-> 0,
        lease_id |-> 0, lease_ttl |-> 0, due |-> FALSE,
        last_failure_kind |-> "none"]]
  /\ attempts = [c \in Commands |-> << >>]
  /\ operation = [c \in Operations |->
       [status |-> "pending_confirmation", requires_manual_review |-> FALSE,
        support_case_id |-> 0]]
  /\ investigation \in [Investigations -> [delivery_failed : BOOLEAN]]
  /\ cases = [t \in Threads |-> << >>]
  /\ events = [c \in Commands |-> {}]
  /\ redrives = {}
  /\ task = [w \in Workers |-> [c \in Commands |-> Idle]]
  /\ sent = {}
  /\ provider = [c \in Commands |-> "none"]

-----------------------------------------------------------------------------
(* Leases and fences. *)

LeaseOwner(c) == attempts[c][outbox[c].lease_id].worker_id

(* The transaction finds the row processing under the caller's lease. *)
HoldsLease(w, c) ==
  /\ outbox[c].status = "processing"
  /\ outbox[c].lease_id = task[w][c].lease_id
  /\ LeaseOwner(c) = w

LeaseLive(c) == outbox[c].lease_ttl > 0

(* _lock_claimed_command: the finalizer's fence.  The claimed handle carries *)
(* the cycle and number written to its attempt row by the same claim.        *)
Fenced(w, c) ==
  LET handle == attempts[c][task[w][c].lease_id]
  IN /\ HoldsLease(w, c)
     /\ outbox[c].delivery_cycle = handle.delivery_cycle
     /\ outbox[c].attempts_in_cycle = handle.attempt_number
     /\ LeaseLive(c)
     /\ handle.outcome = "open"

(* decide_retry of the failure the task holds. *)
Retryable(w, c) ==
  /\ task[w][c].kind \in RETRYABLE_FAILURE_KINDS
  /\ attempts[c][task[w][c].lease_id].attempt_number < MAX_ATTEMPTS

FinishAttempt(ledger, i, outcome, kind) ==
  [ledger EXCEPT ![i] = [@ EXCEPT !.outcome = outcome, !.failure_kind = kind]]

(* Mutants: the transition keeps the lease, or resets the attempt count. *)
TransitionKeepsLease(row, status, due, kind) ==
  [row EXCEPT !.status = status, !.due = due, !.lease_ttl = 0,
              !.last_failure_kind = IF kind = "none" THEN @ ELSE kind]

TransitionResetsCount(row, status, due, kind) ==
  [row EXCEPT !.status = status, !.due = due, !.lease_id = 0, !.lease_ttl = 0,
              !.attempts_in_cycle = 0,
              !.last_failure_kind = IF kind = "none" THEN @ ELSE kind]

(* update_outbox_transition: leaves processing, drops the lease, and keeps   *)
(* the previous failure kind when it is given none.                          *)
Transition(row, status, due, kind) ==
  [row EXCEPT !.status = status, !.due = due, !.lease_id = 0, !.lease_ttl = 0,
              !.last_failure_kind = IF kind = "none" THEN @ ELSE kind]

EndTask(w, c) == task' = [task EXCEPT ![w][c] = Idle]

SetTask(w, c, stage, kind) ==
  task' = [task EXCEPT ![w][c] =
            [stage |-> stage, lease_id |-> task[w][c].lease_id, kind |-> kind]]

-----------------------------------------------------------------------------
(* The aggregates a command acts on. *)

ActiveCases(t) == {i \in DOMAIN cases[t] : cases[t][i].status = "active"}

(* _ensure_technical_review_case: reuse the thread's active review case and  *)
(* mark it provider_delivery_failed, or create one that is.                  *)
ReviewCaseId(t) ==
  IF ActiveCases(t) # {} THEN CHOOSE i \in ActiveCases(t) : TRUE
  ELSE Len(cases[t]) + 1

(* Mutant: a reused case is not marked provider_delivery_failed. *)
WithReviewCaseUnmarked(t) ==
  IF ActiveCases(t) # {} THEN cases[t]
  ELSE Append(cases[t], [status |-> "active", delivery_failed |-> TRUE])

WithReviewCase(t) ==
  IF ActiveCases(t) # {}
  THEN [cases[t] EXCEPT ![ReviewCaseId(t)] = [@ EXCEPT !.delivery_failed = TRUE]]
  ELSE Append(cases[t], [status |-> "active", delivery_failed |-> TRUE])

(* Mutant: a command dies and its operation is not told. *)
ReviewForgotten(S) == UNCHANGED <<operation, cases>>

(* _finalize_operation's technical failure, for every operation of S; an     *)
(* operation that already has a case keeps it.                               *)
MoveToManualReview(S) ==
  LET caseless == {o \in S : operation[o].support_case_id = 0}
  IN /\ operation' = [o \in Operations |->
          IF o \in S
          THEN [status |-> "manual_review", requires_manual_review |-> TRUE,
                support_case_id |-> IF o \in caseless THEN ReviewCaseId(ThreadOf[o])
                                    ELSE operation[o].support_case_id]
          ELSE operation[o]]
     /\ cases' = [t \in Threads |->
          IF \E o \in caseless : ThreadOf[o] = t THEN WithReviewCase(t) ELSE cases[t]]

(* Mutant: the idempotency key leaves out the delivery cycle. *)
EventKeyWithoutCycle(c, status) ==
  \A e \in events[c] : c \in Investigations /\ e.status # status

(* The idempotency key of the event a finalization inserts: one per cycle    *)
(* for an operation, one per cycle and status for an investigation.          *)
EventKeyFree(c, status) ==
  IF c \in Operations
  THEN \A e \in events[c] : e.cycle # outbox[c].delivery_cycle
  ELSE [cycle |-> outbox[c].delivery_cycle, status |-> status] \notin events[c]

(* Neither ValueError (operation not queued) nor UniqueViolation is raised. *)
CanFinalize(c, status) ==
  /\ c \in Operations => operation[c].status = "queued"
  /\ EventKeyFree(c, status)

(* Mutant: the status event is not inserted. *)
EventsForgotten(S, status) == UNCHANGED events

RecordEvents(S, status) ==
  events' = [c \in Commands |->
    IF c \in S
    THEN events[c] \cup {[cycle |-> outbox[c].delivery_cycle, status |-> status]}
    ELSE events[c]]

(* Mutant: the row's status is written as the outcome of the attempt. *)
CloseCommandSwapped(w, c, target, outcome, kind) ==
  /\ attempts' = [attempts EXCEPT ![c] =
                    FinishAttempt(@, task[w][c].lease_id, target, kind)]
  /\ outbox' = [outbox EXCEPT ![c] = Transition(@, target, FALSE, kind)]
  /\ EndTask(w, c)
  /\ UNCHANGED <<redrives, sent, provider>>

(* _finalize: the attempt is closed and the row leaves processing. *)
CloseCommand(w, c, target, outcome, kind) ==
  /\ attempts' = [attempts EXCEPT ![c] =
                    FinishAttempt(@, task[w][c].lease_id, outcome, kind)]
  /\ outbox' = [outbox EXCEPT ![c] = Transition(@, target, FALSE, kind)]
  /\ EndTask(w, c)
  /\ UNCHANGED <<redrives, sent, provider>>

-----------------------------------------------------------------------------
(* Commands enter the Outbox. *)

(* queue_operation_with_events_and_command, or the creation of a delivery    *)
(* investigation: the aggregate and its pending command commit together.     *)
Enqueue(c) ==
  /\ outbox[c].status = "absent"
  /\ c \in Operations => operation[c].status = "pending_confirmation"
  /\ outbox' = [outbox EXCEPT ![c] = [@ EXCEPT !.status = "pending", !.due = TRUE]]
  /\ operation' = [o \in Operations |->
       IF o = c THEN [operation[o] EXCEPT !.status = "queued"] ELSE operation[o]]
  /\ UNCHANGED <<attempts, investigation, cases, events, redrives, task, sent, provider>>

(* PostgresProviderQueueFailureCoordinator._move_once: no Provider connection *)
(* is configured, so the confirmed operation goes to review without a command. *)
move_to_manual_review(c) ==
  /\ operation[c].status = "pending_confirmation"
  /\ MoveToManualReview({c})
  /\ UNCHANGED <<outbox, attempts, investigation, events, redrives, task, sent, provider>>

-----------------------------------------------------------------------------
(* A worker's delivery of one command. *)

(* run_once claims when its previous batch is done.  SKIP LOCKED may pass    *)
(* over any due row, hence any batch up to the LIMIT.                        *)
claim_due_outbox(w, batch) ==
  /\ \A c \in Commands : task[w][c].stage = "idle"
  /\ batch # {} /\ Cardinality(batch) <= BatchSize
  /\ \A c \in batch : /\ outbox[c].status \in {"pending", "retry_scheduled"}
                       /\ outbox[c].due
                       /\ outbox[c].attempts_in_cycle < MAX_ATTEMPTS
  /\ outbox' = [c \in Commands |->
       IF c \in batch
       THEN [outbox[c] EXCEPT !.status = "processing", !.due = FALSE,
                              !.lease_id = Len(attempts[c]) + 1,
                              !.lease_ttl = LeaseTicks,
                              !.attempts_in_cycle = @ + 1]
       ELSE outbox[c]]
  /\ attempts' = [c \in Commands |->
       IF c \in batch
       THEN Append(attempts[c],
              [delivery_cycle |-> outbox[c].delivery_cycle,
               attempt_number |-> outbox[c].attempts_in_cycle + 1,
               worker_id |-> w, outcome |-> "open", failure_kind |-> "none"])
       ELSE attempts[c]]
  /\ task' = [task EXCEPT ![w] = [c \in Commands |->
       IF c \in batch
       THEN [stage |-> "claimed", lease_id |-> Len(attempts[c]) + 1, kind |-> "none"]
       ELSE Idle]]
  /\ UNCHANGED <<operation, investigation, cases, events, redrives, sent, provider>>

(* _process resolves the connection and starts the request. *)
send_command(w, c) ==
  /\ task[w][c].stage = "claimed"
  /\ SetTask(w, c, "sending", "none")
  /\ sent' = sent \cup {c}
  /\ UNCHANGED <<database, provider>>

(* The connection is missing or does not match the persisted command. *)
ConnectionUnusable(w, c) ==
  /\ task[w][c].stage = "claimed"
  /\ SetTask(w, c, "failed", "validation_error")
  /\ UNCHANGED <<database, sent, provider>>

(* External: the Provider decides a command once and repeats that answer for *)
(* its idempotency key.  A request can arrive after its sender has gone.     *)
ProviderDecides(c) ==
  /\ c \in sent /\ provider[c] = "none"
  /\ \E answer \in {"accepted", "rejected"} :
       provider' = [provider EXCEPT ![c] = answer]
  /\ UNCHANGED <<database, task, sent>>

(* Mutant: any answer of the Provider counts as its acceptance. *)
AnyAnswerAccepts(w, c) ==
  /\ task[w][c].stage = "sending"
  /\ provider[c] # "none"
  /\ SetTask(w, c, "accepted", "none")
  /\ UNCHANGED <<database, sent, provider>>

ProviderAnswers(w, c) ==
  /\ task[w][c].stage = "sending"
  /\ provider[c] # "none"
  /\ SetTask(w, c, provider[c], "none")
  /\ UNCHANGED <<database, sent, provider>>

(* A timeout, a network error, an HTTP error, an invalid response, or an     *)
(* error of the lease renewal itself, whatever the Provider did.             *)
RequestFails(w, c) ==
  /\ task[w][c].stage = "sending"
  /\ \E kind \in Kinds : SetTask(w, c, "failed", kind)
  /\ UNCHANGED <<database, sent, provider>>

(* _send_with_lease_renewal while the request is in flight: a live lease is  *)
(* extended; otherwise the request is cancelled and no finalizer runs.       *)
renew_outbox_lease(w, c) ==
  /\ task[w][c].stage = "sending"
  /\ HoldsLease(w, c) /\ LeaseLive(c)
  /\ outbox' = [outbox EXCEPT ![c].lease_ttl = LeaseTicks]
  /\ UNCHANGED <<attempts, operation, investigation, cases, events, redrives,
                 task, sent, provider>>

RenewalRefused(w, c) ==
  /\ task[w][c].stage = "sending"
  /\ ~(HoldsLease(w, c) /\ LeaseLive(c))
  /\ EndTask(w, c)
  /\ UNCHANGED <<database, sent, provider>>

accepted(w, c) ==
  /\ task[w][c].stage = "accepted"
  /\ Fenced(w, c)
  /\ CanFinalize(c, IF c \in Operations THEN "submitted" ELSE "accepted")
  /\ operation' = [o \in Operations |->
       IF o = c THEN [operation[o] EXCEPT !.status = "submitted"] ELSE operation[o]]
  /\ RecordEvents({c}, IF c \in Operations THEN "submitted" ELSE "accepted")
  /\ CloseCommand(w, c, "published", "accepted", "none")
  /\ UNCHANGED <<investigation, cases>>

(* Mutant: the investigation's reason codes are not updated. *)
MarkInvestigationSkipped(c) == c \in Commands /\ UNCHANGED investigation

MarkInvestigation(c) ==
  investigation' = [i \in Investigations |->
    IF i = c THEN [delivery_failed |-> TRUE] ELSE investigation[i]]

rejected(w, c) ==
  /\ task[w][c].stage = "rejected"
  /\ Fenced(w, c)
  /\ CanFinalize(c, "rejected")
  /\ operation' = [o \in Operations |->
       IF o = c THEN [operation[o] EXCEPT !.status = "rejected"] ELSE operation[o]]
  /\ MarkInvestigation(c)
  /\ RecordEvents({c}, "rejected")
  /\ CloseCommand(w, c, "dead", "provider_rejected", "provider_rejection")
  /\ UNCHANGED cases

(* The finalizing transaction raises anything but a lease conflict: the      *)
(* answer is lost and the error is unclassifiable, hence validation_error.   *)
FinalizerRaises(w, c) ==
  /\ task[w][c].stage \in {"accepted", "rejected"}
  /\ SetTask(w, c, "failed", "validation_error")
  /\ UNCHANGED <<database, sent, provider>>

(* Mutants: the retry asks only that the row is processing, or asks nothing. *)
RetryFencedByStatus(w, c) == w \in Workers /\ outbox[c].status = "processing"

RetryUnfenced(w, c) == w \in Workers /\ c \in Commands

(* schedule_outbox_retry's fence: unlike the finalizers' it does not ask     *)
(* that the lease is live, only that it is still this one.                   *)
RetryFenced(w, c) ==
  HoldsLease(w, c) /\ attempts[c][task[w][c].lease_id].outcome = "open"

(* _handle_failure of a retryable kind. *)
schedule_outbox_retry(w, c) ==
  /\ task[w][c].stage = "failed"
  /\ Retryable(w, c)
  /\ RetryFenced(w, c)
  /\ outbox[c].attempts_in_cycle < MAX_ATTEMPTS
  /\ CloseCommand(w, c, "retry_scheduled", "retry_scheduled", task[w][c].kind)
  /\ UNCHANGED <<operation, investigation, cases, events>>

(* _handle_failure of a terminal kind, or of the last attempt of the cycle. *)
GivesUp(w, c) ==
  \/ ~Retryable(w, c)
  \/ HoldsLease(w, c) /\ outbox[c].attempts_in_cycle >= MAX_ATTEMPTS

terminal_failure(w, c) ==
  /\ task[w][c].stage = "failed"
  /\ GivesUp(w, c)
  /\ Fenced(w, c)
  /\ CanFinalize(c, IF c \in Operations THEN "manual_review" ELSE "rejected")
  /\ MoveToManualReview({c} \cap Operations)
  /\ MarkInvestigation(c)
  /\ RecordEvents({c}, IF c \in Operations THEN "manual_review" ELSE "rejected")
  /\ CloseCommand(w, c, "dead", "terminal_failure", task[w][c].kind)

(* LeaseConflictError ends the task and leaves the database alone. *)
LeaseConflict(w, c) ==
  /\ \/ task[w][c].stage \in {"accepted", "rejected"} /\ ~Fenced(w, c)
     \/ task[w][c].stage = "failed" /\ ~GivesUp(w, c) /\ ~RetryFenced(w, c)
     \/ task[w][c].stage = "failed" /\ GivesUp(w, c) /\ ~Fenced(w, c)
  /\ EndTask(w, c)
  /\ UNCHANGED <<database, sent, provider>>

(* The transaction that records the failure itself fails. *)
HandlingRaises(w, c) ==
  /\ task[w][c].stage = "failed"
  /\ EndTask(w, c)
  /\ UNCHANGED <<database, sent, provider>>

(* The process dies: its tasks are gone, its leases stay. *)
WorkerCrash(w) ==
  /\ \E c \in Commands : task[w][c].stage # "idle"
  /\ task' = [task EXCEPT ![w] = [c \in Commands |-> Idle]]
  /\ UNCHANGED <<database, sent, provider>>

-----------------------------------------------------------------------------
(* Time. *)

LeaseTick(c) ==
  /\ outbox[c].status = "processing" /\ LeaseLive(c)
  /\ outbox' = [outbox EXCEPT ![c].lease_ttl = @ - 1]
  /\ UNCHANGED <<attempts, operation, investigation, cases, events, redrives,
                 task, sent, provider>>

BackoffElapses(c) ==
  /\ outbox[c].status = "retry_scheduled" /\ ~outbox[c].due
  /\ outbox' = [outbox EXCEPT ![c].due = TRUE]
  /\ UNCHANGED <<attempts, operation, investigation, cases, events, redrives,
                 task, sent, provider>>

-----------------------------------------------------------------------------
(* Recovery of expired leases, one transaction for the batch. *)

Expired(c) == outbox[c].status = "processing" /\ ~LeaseLive(c)

(* Mutant: off by one, so the last attempt of a cycle is retried. *)
ExhaustedLate(c) == outbox[c].attempts_in_cycle > MAX_ATTEMPTS

Exhausted(c) == outbox[c].attempts_in_cycle >= MAX_ATTEMPTS

(* The row's recovery raises neither LeaseConflictError nor ValueError; one  *)
(* row that did would roll back the whole batch and end the worker.          *)
Recoverable(c) ==
  /\ outbox[c].lease_id \in DOMAIN attempts[c]
  /\ attempts[c][outbox[c].lease_id].outcome = "open"
  /\ c \in Operations /\ Exhausted(c) => CanFinalize(c, "manual_review")

recover_expired_outbox_leases(batch) ==
  LET failed == {c \in batch \cap Operations : Exhausted(c)}
  IN /\ batch # {} /\ Cardinality(batch) <= BatchSize
     /\ \A c \in batch : Expired(c) /\ Recoverable(c)
     /\ MoveToManualReview(failed)
     /\ RecordEvents(failed, "manual_review")
     /\ attempts' = [c \in Commands |->
          IF c \in batch
          THEN FinishAttempt(attempts[c], outbox[c].lease_id, "lease_expired", "none")
          ELSE attempts[c]]
     /\ outbox' = [c \in Commands |->
          IF c \notin batch THEN outbox[c]
          ELSE IF Exhausted(c) THEN Transition(outbox[c], "dead", FALSE, "none")
          ELSE Transition(outbox[c], "retry_scheduled", TRUE, "none")]
     /\ UNCHANGED <<investigation, redrives, task, sent, provider>>

-----------------------------------------------------------------------------
(* Manual redrive. *)

(* The newest finished attempt of the current cycle. *)
TerminalAttempts(c) ==
  LET finished == {i \in DOMAIN attempts[c] :
        /\ attempts[c][i].delivery_cycle = outbox[c].delivery_cycle
        /\ attempts[c][i].outcome # "open"}
  IN {i \in finished : \A j \in finished :
        attempts[c][j].attempt_number <= attempts[c][i].attempt_number}

decide_outbox_redrive_eligibility(c) ==
  /\ outbox[c].status = "dead"
  /\ outbox[c].lease_id = 0
  /\ outbox[c].last_failure_kind # "provider_rejection"
  /\ outbox[c].attempts_in_cycle >= 1
  /\ \E i \in TerminalAttempts(c) :
       /\ attempts[c][i].attempt_number = outbox[c].attempts_in_cycle
       /\ \/ /\ attempts[c][i].outcome = "terminal_failure"
             /\ attempts[c][i].failure_kind \in TECHNICAL_FAILURE_KINDS
          \/ /\ attempts[c][i].outcome = "lease_expired"
             /\ attempts[c][i].failure_kind = "none"
             /\ outbox[c].attempts_in_cycle = MAX_ATTEMPTS

(* _recover_operation's checks of the operation and its review case. *)
OperationRedrivable(c) ==
  /\ operation[c].status = "manual_review"
  /\ operation[c].requires_manual_review
  /\ operation[c].support_case_id \in DOMAIN cases[ThreadOf[c]]

(* Mutant: a replayed request is not recognised. *)
RequestUnchecked(r) == r \in Requests

(* A request_id already in outbox_redrives is answered from its row. *)
RequestUnused(r) == \A a \in redrives : a.request_id # r

redrive_outbox(c, r) ==
  /\ RequestUnused(r)
  /\ decide_outbox_redrive_eligibility(c)
  /\ c \in Operations => OperationRedrivable(c)
  /\ operation' = [o \in Operations |->
       IF o = c THEN [status |-> "queued", requires_manual_review |-> FALSE,
                      support_case_id |-> 0]
       ELSE operation[o]]
  /\ outbox' = [outbox EXCEPT ![c] =
       [@ EXCEPT !.status = "retry_scheduled", !.due = TRUE,
                 !.delivery_cycle = outbox[c].delivery_cycle + 1,
                 !.attempts_in_cycle = 0,
                 !.last_failure_kind = "none"]]
  /\ redrives' = redrives \cup
       {[request_id |-> r, command_id |-> c, new_cycle |-> outbox[c].delivery_cycle + 1]}
  /\ UNCHANGED <<attempts, investigation, cases, events, task, sent, provider>>

-----------------------------------------------------------------------------
(* A Provider callback, as far as the Outbox can tell: the Inbox finalizer   *)
(* advances the operation of a published command.                            *)
CallbackTargets(status) ==
  CASE status = "submitted" -> {"processing", "completed", "rejected"}
    [] status = "processing" -> {"completed", "rejected"}
    [] OTHER -> {}

ApplyCallback(c) ==
  /\ outbox[c].status = "published"
  /\ \E status \in CallbackTargets(operation[c].status) :
       operation' = [operation EXCEPT ![c].status = status]
  /\ UNCHANGED <<outbox, attempts, investigation, cases, events, redrives,
                 task, sent, provider>>

-----------------------------------------------------------------------------
(* Review cases of the thread, as the conversation and the staff change them. *)

(* A handoff for another reason opens the thread's review case. *)
OpenReviewCase(t) ==
  /\ ActiveCases(t) = {} /\ Len(cases[t]) < MaxCases
  /\ cases' = [cases EXCEPT ![t] =
       Append(@, [status |-> "active", delivery_failed |-> FALSE])]
  /\ UNCHANGED <<outbox, attempts, operation, investigation, events, redrives,
                 task, sent, provider>>

(* change_status: uq_support_cases_active_thread_type refuses to reopen a    *)
(* case while the thread has another active one.                             *)
change_status(t, i) ==
  /\ i \in DOMAIN cases[t]
  /\ cases[t][i].status = "active" \/ ActiveCases(t) = {}
  /\ cases' = [cases EXCEPT ![t][i].status =
       IF cases[t][i].status = "active" THEN "resolved" ELSE "active"]
  /\ UNCHANGED <<outbox, attempts, operation, investigation, events, redrives,
                 task, sent, provider>>

-----------------------------------------------------------------------------
(* What a live worker does with a claimed command. *)
Deliver(w, c) ==
  \/ send_command(w, c) \/ ConnectionUnusable(w, c)
  \/ ProviderAnswers(w, c) \/ RequestFails(w, c) \/ RenewalRefused(w, c)
  \/ accepted(w, c) \/ rejected(w, c) \/ FinalizerRaises(w, c)
  \/ schedule_outbox_retry(w, c) \/ terminal_failure(w, c)
  \/ LeaseConflict(w, c) \/ HandlingRaises(w, c)

Claim == \E w \in Workers, batch \in SUBSET Commands : claim_due_outbox(w, batch)

Recover == \E batch \in SUBSET Commands : recover_expired_outbox_leases(batch)

Next ==
  \/ Claim
  \/ Recover
  \/ \E w \in Workers, c \in Commands : Deliver(w, c) \/ renew_outbox_lease(w, c)
  \/ \E w \in Workers : WorkerCrash(w)
  \/ \E c \in Commands : Enqueue(c) \/ ProviderDecides(c) \/ LeaseTick(c) \/ BackoffElapses(c)
  \/ \E c \in Operations : move_to_manual_review(c) \/ ApplyCallback(c)
  \/ \E c \in Commands, r \in Requests : redrive_outbox(c, r)
  \/ \E t \in Threads : OpenReviewCase(t) \/ \E i \in DOMAIN cases[t] : change_status(t, i)

Spec == Init /\ [][Next]_vars

(* The worker loop polls, recovers every 30 s and bounds every request by a  *)
(* timeout; clocks advance.  Nothing is assumed of crashes, of the Provider  *)
(* or of the staff.                                                          *)
Fairness ==
  /\ WF_vars(Claim) /\ WF_vars(Recover)
  /\ \A w \in Workers, c \in Commands : WF_vars(Deliver(w, c))
  /\ \A c \in Commands : WF_vars(LeaseTick(c)) /\ WF_vars(BackoffElapses(c))

FairSpec == Spec /\ Fairness

-----------------------------------------------------------------------------
(* Properties. *)

TypeOK ==
  /\ outbox \in [Commands -> Row]
  /\ attempts \in [Commands -> Seq(Attempt)]
  /\ operation \in [Operations -> Operation]
  /\ investigation \in [Investigations -> [delivery_failed : BOOLEAN]]
  /\ cases \in [Threads -> Seq(ReviewCase)]
  /\ events \in [Commands -> SUBSET Event]
  /\ redrives \subseteq Redrive
  /\ task \in [Workers -> [Commands -> Task]]
  /\ sent \subseteq Commands
  /\ provider \in [Commands -> {"none", "accepted", "rejected"}]

(* A row is processing exactly while one attempt of its ledger is open, and  *)
(* that attempt is the newest one, of the row's cycle and attempt count: a   *)
(* stale worker, a recovery and a redrive never leave two attempts open or   *)
(* close the wrong one (claim, schedule_outbox_retry, _finalize, recovery).  *)
LeaseLedger ==
  \A c \in Commands :
    /\ \A i \in DOMAIN attempts[c] :
         attempts[c][i].outcome = "open" <=>
           outbox[c].status = "processing" /\ outbox[c].lease_id = i
    /\ outbox[c].status = "processing" => outbox[c].lease_id = Len(attempts[c])
    /\ outbox[c].attempts_in_cycle > 0 =>
         /\ Len(attempts[c]) > 0
         /\ attempts[c][Len(attempts[c])].delivery_cycle = outbox[c].delivery_cycle
         /\ attempts[c][Len(attempts[c])].attempt_number = outbox[c].attempts_in_cycle

(* (delivery_cycle, attempt_number) grows strictly along the ledger, so the  *)
(* UNIQUE constraint of outbox_delivery_attempts never fires, and no cycle   *)
(* spends more than MAX_ATTEMPTS, whatever crashes and redrives happen.      *)
AttemptBudget ==
  \A c \in Commands : \A j \in DOMAIN attempts[c] :
    /\ attempts[c][j].attempt_number \in 1..MAX_ATTEMPTS
    /\ \A i \in 1..(j - 1) :
         \/ attempts[c][i].delivery_cycle < attempts[c][j].delivery_cycle
         \/ /\ attempts[c][i].delivery_cycle = attempts[c][j].delivery_cycle
            /\ attempts[c][i].attempt_number < attempts[c][j].attempt_number

(* The operation and its command never disagree: queued while the command    *)
(* is undecided, submitted or later once published, rejected or under review *)
(* once dead.  Two aggregates change in one transaction in _finalize, in the *)
(* recovery and in the redrive.                                              *)
OperationFollowsCommand ==
  \A c \in Operations :
    /\ outbox[c].status \in {"pending", "processing", "retry_scheduled"} <=>
         operation[c].status = "queued"
    /\ operation[c].status \in {"submitted", "processing", "completed"} =>
         outbox[c].status = "published"
    /\ outbox[c].status = "published" =>
         operation[c].status \in {"submitted", "processing", "completed", "rejected"}
    /\ outbox[c].status = "dead" =>
         operation[c].status = IF outbox[c].last_failure_kind = "provider_rejection"
                               THEN "rejected" ELSE "manual_review"

(* A customer sees submitted or rejected only if the Provider decided so,    *)
(* whatever stale answer, resend or redrive led there.                       *)
ProviderAgreement ==
  \A c \in Commands :
    /\ outbox[c].status = "published" => provider[c] = "accepted"
    /\ outbox[c].last_failure_kind = "provider_rejection" => provider[c] = "rejected"

(* An operation under review always has a review case of its own thread that *)
(* says provider_delivery_failed, even when operations of one thread fail    *)
(* together and the staff resolves and reopens cases in between.             *)
TechnicalFailureHandedOff ==
  \A c \in Operations :
    LET id == operation[c].support_case_id
    IN /\ operation[c].requires_manual_review <=> operation[c].status = "manual_review"
       /\ operation[c].status = "manual_review" =>
            /\ id \in DOMAIN cases[ThreadOf[c]]
            /\ cases[ThreadOf[c]][id].delivery_failed
       /\ operation[c].status # "manual_review" => id = 0

(* Every cycle of an operation's command is concluded by exactly one event,  *)
(* with the status the operation got; the current cycle has one only when    *)
(* the command is published or dead.                                         *)
OneEventPerCycle ==
  \A c \in Operations :
    /\ \A e, f \in events[c] : e.cycle = f.cycle => e = f
    /\ {e.cycle : e \in events[c]} =
         1..(IF outbox[c].status \in {"published", "dead"}
             THEN outbox[c].delivery_cycle ELSE outbox[c].delivery_cycle - 1)
    /\ \A e \in events[c] :
         e.status = IF e.cycle < outbox[c].delivery_cycle THEN "manual_review"
                    ELSE IF outbox[c].status = "published" THEN "submitted"
                    ELSE operation[c].status

(* An investigation's history tells what became of its command: one event    *)
(* per cycle, accepted exactly for the cycle that published it, and every    *)
(* recorded rejection or failure left provider_delivery_failed on the case.  *)
InvestigationHistory ==
  \A c \in Investigations :
    /\ \A e, f \in events[c] : e.cycle = f.cycle => e = f
    /\ outbox[c].status = "published" =>
         [cycle |-> outbox[c].delivery_cycle, status |-> "accepted"] \in events[c]
    /\ \A e \in events[c] :
         IF e.status = "accepted"
         THEN outbox[c].status = "published" /\ e.cycle = outbox[c].delivery_cycle
         ELSE investigation[c].delivery_failed

(* Each cycle after the first was opened by exactly one audited request, and *)
(* one request_id opens at most one cycle of one command.                    *)
CyclesAudited ==
  /\ \A a, b \in redrives : a.request_id = b.request_id => a = b
  /\ \A c \in Commands : \A n \in 2..outbox[c].delivery_cycle :
       \E a \in redrives : a.command_id = c /\ a.new_cycle = n
  /\ \A a, b \in redrives :
       a.command_id = b.command_id /\ a.new_cycle = b.new_cycle => a = b
  /\ \A a \in redrives : a.new_cycle \in 2..outbox[a.command_id].delivery_cycle

(* A command that died for a technical reason can always be redriven: the    *)
(* terminal evidence the eligibility decision asks for and the review state  *)
(* _recover_operation asks for are there on every path to dead.              *)
DeadIsRedrivable ==
  \A c \in Commands :
    outbox[c].status = "dead" /\ outbox[c].last_failure_kind # "provider_rejection" =>
      /\ decide_outbox_redrive_eligibility(c)
      /\ c \in Operations => OperationRedrivable(c)

(* No command is poisoned: whoever holds a live lease can finalize, and an   *)
(* expired lease can be recovered, so no row makes recovery raise and roll   *)
(* back the rows it is batched with.                                         *)
NeverPoisoned ==
  \A c \in Commands :
    outbox[c].status = "processing" =>
      /\ Recoverable(c)
      /\ \A status \in {"submitted", "accepted", "rejected", "manual_review"} :
           CanFinalize(c, status)

(* A published command, or one the Provider rejected, is never touched       *)
(* again, and its operation never goes back: no late finalizer, recovery or  *)
(* redrive reopens a decision the Provider has made.                         *)
DecisionIsFinal ==
  [][\A c \in Commands :
       \/ outbox[c].status = "published"
       \/ outbox[c].status = "dead" /\ outbox[c].last_failure_kind = "provider_rejection"
       => /\ outbox'[c] = outbox[c] /\ attempts'[c] = attempts[c]
          /\ c \in Operations =>
               \/ operation'[c] = operation[c]
               \/ /\ operation[c].status \in {"submitted", "processing"}
                  /\ operation'[c].status \in {"processing", "completed", "rejected"}]_vars

(* Every queued command is published or dead eventually, although workers    *)
(* may crash at any await, the Provider may never answer and every failure   *)
(* handler may raise: attempts are bounded and leases expire.                *)
Settles ==
  \A c \in Commands :
    outbox[c].status \in {"pending", "processing", "retry_scheduled"} ~>
      outbox[c].status \in {"published", "dead"}

(* docs/v0.7_step3_outbound_dispatch.md: technical failure adds              *)
(* provider_delivery_failed to the existing investigation case.              *)
InvestigationMarked ==
  \A c \in Investigations :
    outbox[c].status = "dead" => investigation[c].delivery_failed

-----------------------------------------------------------------------------
(* The strengthening that makes these invariants inductive. *)

(* The row of a command against its ledger: no attempt is ahead of the row,  *)
(* no lease outlives processing, and a dead row has its terminal evidence.   *)
RowConsistent ==
  \A c \in Commands :
    LET row == outbox[c]
        last == attempts[c][Len(attempts[c])]
    IN /\ row.delivery_cycle >= 1 /\ row.attempts_in_cycle <= MAX_ATTEMPTS
       /\ row.status # "processing" => row.lease_id = 0
       /\ row.status \in {"processing", "published", "dead"} => row.attempts_in_cycle >= 1
       /\ row.last_failure_kind = "provider_rejection" => row.status = "dead"
       /\ \A i \in DOMAIN attempts[c] :
            \/ attempts[c][i].delivery_cycle < row.delivery_cycle
            \/ /\ attempts[c][i].delivery_cycle = row.delivery_cycle
               /\ attempts[c][i].attempt_number <= row.attempts_in_cycle
       /\ row.status = "dead" /\ row.last_failure_kind # "provider_rejection" =>
            \/ /\ last.outcome = "terminal_failure"
               /\ last.failure_kind \in TECHNICAL_FAILURE_KINDS
            \/ /\ last.outcome = "lease_expired" /\ last.failure_kind = "none"
               /\ row.attempts_in_cycle = MAX_ATTEMPTS

(* What a worker holds: the handle of one of its own attempts, an answer the *)
(* Provider gave, or a technical failure.                                    *)
TasksConsistent ==
  \A w \in Workers, c \in Commands :
    LET t == task[w][c]
    IN t.stage # "idle" =>
         /\ t.lease_id \in DOMAIN attempts[c]
         /\ attempts[c][t.lease_id].worker_id = w
         /\ t.stage \in {"accepted", "rejected"} => provider[c] = t.stage
         /\ t.stage = "failed" => t.kind \in TECHNICAL_FAILURE_KINDS

(* No event is ahead of the row's cycle, and an undecided cycle has none. *)
EventsConsistent ==
  \A c \in Commands : \A e \in events[c] :
    \/ e.cycle < outbox[c].delivery_cycle
    \/ /\ e.cycle = outbox[c].delivery_cycle
       /\ outbox[c].status \in {"published", "dead"}

IndInv ==
  /\ TypeOK /\ LeaseLedger /\ AttemptBudget
  /\ RowConsistent /\ TasksConsistent /\ EventsConsistent
  /\ OperationFollowsCommand /\ ProviderAgreement
  /\ TechnicalFailureHandedOff /\ OneEventPerCycle /\ CyclesAudited
=============================================================================

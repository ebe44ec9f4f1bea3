----------------------- MODULE OutboxLifecycle_proofs -----------------------
(* The safety of ProviderOutbox.  Whatever the action, a command changes in  *)
(* one of the few ways listed in CommandStep, and each of them preserves the *)
(* inductive invariant of that command.  And the Outbox implements           *)
(* CommandLifecycle: every action maps to one step of the lifecycle, or      *)
(* changes neither a delivery nor a status.                                  *)
EXTENDS OutboxLifecycle, TLAPS

(* Ledgers and histories: reading, replacing and appending an entry. *)
LEMMA EntryOf ==
  ASSUME NEW S, NEW seq \in Seq(S), NEW n \in 1 .. Len(seq)
  PROVE  seq[n] \in S
OBVIOUS

LEMMA EntryReplaced ==
  ASSUME NEW S, NEW seq \in Seq(S), NEW n \in 1 .. Len(seq), NEW e \in S
  PROVE  /\ [seq EXCEPT ![n] = e] \in Seq(S) /\ Len([seq EXCEPT ![n] = e]) = Len(seq)
         /\ \A m \in 1 .. Len(seq) : [seq EXCEPT ![n] = e][m] = IF m = n THEN e ELSE seq[m]
OBVIOUS

LEMMA EntryAdded ==
  ASSUME NEW S, NEW seq \in Seq(S), NEW e \in S
  PROVE  /\ Append(seq, e) \in Seq(S) /\ Len(Append(seq, e)) = Len(seq) + 1
         /\ \A m \in 1 .. Len(seq) : Append(seq, e)[m] = seq[m]
         /\ Append(seq, e)[Len(seq) + 1] = e
OBVIOUS

LEMMA NoEntry == ASSUME NEW S PROVE <<>> \in Seq(S) /\ Len(<<>>) = 0
OBVIOUS

LEMMA TransitionType ==
  ASSUME NEW row \in Row, NEW status \in {"retry_scheduled", "published", "dead"},
         NEW due \in BOOLEAN, NEW kind \in FailureKinds \cup {"none"}
  PROVE  /\ Transition(row, status, due, kind) \in Row
         /\ Transition(row, status, due, kind).status = status
         /\ Transition(row, status, due, kind).lease_id = 0
         /\ Transition(row, status, due, kind).delivery_cycle = row.delivery_cycle
         /\ Transition(row, status, due, kind).attempts_in_cycle = row.attempts_in_cycle
         /\ Transition(row, status, due, kind).last_failure_kind =
              IF kind = "none" THEN row.last_failure_kind ELSE kind
  BY Zenon DEF Transition, Row

LEMMA ClaimedRow ==
  ASSUME NEW row \in Row, NEW lease \in Nat, NEW ttl \in Nat, NEW count \in Nat
  PROVE  [row EXCEPT !.status = "processing", !.due = FALSE, !.lease_id = lease,
                     !.lease_ttl = ttl, !.attempts_in_cycle = count] \in Row
  BY Zenon DEF Row

LEMMA RedrivenRow ==
  ASSUME NEW row \in Row, NEW cycle \in Nat
  PROVE  [row EXCEPT !.status = "retry_scheduled", !.due = TRUE,
                     !.delivery_cycle = cycle, !.attempts_in_cycle = 0,
                     !.last_failure_kind = "none"] \in Row
  BY Zenon DEF Row

LEMMA FinishAttemptShape ==
  ASSUME NEW ledger \in Seq(Attempt), NEW i \in DOMAIN ledger, NEW outcome, NEW kind,
         NEW new, new = FinishAttempt(ledger, i, outcome, kind)
  PROVE  /\ Len(new) = Len(ledger) /\ DOMAIN new = DOMAIN ledger
         /\ new[i].outcome = outcome /\ new[i].failure_kind = kind
         /\ \A j \in DOMAIN ledger :
              /\ new[j].delivery_cycle = ledger[j].delivery_cycle
              /\ new[j].attempt_number = ledger[j].attempt_number
              /\ new[j].worker_id = ledger[j].worker_id
              /\ j # i => new[j] = ledger[j]
<1> DEFINE entry == [ledger[i] EXCEPT !.outcome = outcome, !.failure_kind = kind]
<1>1. ledger[i] \in Attempt
  BY EntryOf
<1>2. entry.outcome = outcome /\ entry.failure_kind = kind
      /\ entry.delivery_cycle = ledger[i].delivery_cycle
      /\ entry.attempt_number = ledger[i].attempt_number
      /\ entry.worker_id = ledger[i].worker_id
  BY <1>1 DEF Attempt
<1>3. new = [ledger EXCEPT ![i] = entry]
  BY DEF FinishAttempt
<1> HIDE DEF entry
<1>4. Len(new) = Len(ledger) /\ DOMAIN new = DOMAIN ledger
  <2>1. ledger \in Seq(Attempt \cup {entry}) /\ entry \in Attempt \cup {entry}
    OBVIOUS
  <2> QED
    BY <1>3, <2>1, EntryReplaced
<1> QED
  BY <1>2, <1>3, <1>4

(* The type of the ledger does not depend on which attempt is closed. *)
LEMMA FinishAttemptSeq ==
  ASSUME NEW ledger \in Seq(Attempt), NEW i,
         NEW outcome \in {"accepted", "provider_rejected", "terminal_failure",
                          "retry_scheduled", "lease_expired"},
         NEW kind \in FailureKinds \cup {"none"}
  PROVE  FinishAttempt(ledger, i, outcome, kind) \in Seq(Attempt)
<1>1. CASE i \in DOMAIN ledger
  <2> DEFINE entry == [ledger[i] EXCEPT !.outcome = outcome, !.failure_kind = kind]
  <2>1. ledger[i] \in Attempt
    BY <1>1, EntryOf
  <2>2. entry \in Attempt
    BY <2>1, Zenon DEF Attempt
  <2>3. FinishAttempt(ledger, i, outcome, kind) = [ledger EXCEPT ![i] = entry]
    BY DEF FinishAttempt
  <2> HIDE DEF entry
  <2> QED
    BY <1>1, <2>2, <2>3, EntryReplaced
<1>2. CASE i \notin DOMAIN ledger
  <2>1. FinishAttempt(ledger, i, outcome, kind) = ledger
    BY <1>2 DEF FinishAttempt
  <2> QED
    BY <2>1
<1> QED
  BY <1>1, <1>2

LEMMA SetTaskType ==
  ASSUME TypeOK, NEW w \in Workers, NEW c \in Commands,
         NEW stage \in {"sending", "accepted", "rejected", "failed"},
         NEW kind \in FailureKinds \cup {"none"}, SetTask(w, c, stage, kind)
  PROVE  /\ task' \in [Workers -> [Commands -> Task]]
         /\ task'[w][c].stage = stage /\ task'[w][c].kind = kind
         /\ task'[w][c].lease_id = task[w][c].lease_id
         /\ \A v \in Workers, d \in Commands :
              v # w \/ d # c => task'[v][d] = task[v][d]
<1> DEFINE new == [stage |-> stage, lease_id |-> task[w][c].lease_id, kind |-> kind]
<1>1. task[w] \in [Commands -> Task] /\ task[w][c] \in Task
  BY DEF TypeOK
<1>2. new \in Task /\ new.stage = stage /\ new.kind = kind
      /\ new.lease_id = task[w][c].lease_id
  BY <1>1 DEF Task
<1>3. task' = [task EXCEPT ![w][c] = new]
  BY DEF SetTask
<1> HIDE DEF new
<1> QED
  BY <1>1, <1>2, <1>3 DEF TypeOK

LEMMA EndTaskType ==
  ASSUME TypeOK, NEW w \in Workers, NEW c \in Commands, EndTask(w, c)
  PROVE  /\ task' \in [Workers -> [Commands -> Task]]
         /\ task'[w][c] = Idle
         /\ \A v \in Workers, d \in Commands :
              v # w \/ d # c => task'[v][d] = task[v][d]
<1>1. Idle \in Task
  BY DEF Idle, Task
<1> QED
  BY <1>1 DEF EndTask, TypeOK

LEMMA MoveToManualReviewType ==
  ASSUME TypeOK, NEW S, S \subseteq Operations, MoveToManualReview(S)
  PROVE  /\ operation' \in [Operations -> Operation]
         /\ cases' \in [Threads -> Seq(ReviewCase)]
<1>1. ASSUME NEW t \in Threads
      PROVE  ReviewCaseId(t) \in Nat /\ WithReviewCase(t) \in Seq(ReviewCase)
  <2>1. cases[t] \in Seq(ReviewCase) /\ DOMAIN cases[t] = 1..Len(cases[t])
        /\ Len(cases[t]) \in Nat
    BY <1>1 DEF TypeOK
  <2>2. CASE ActiveCases(t) # {}
    <3>1. ReviewCaseId(t) \in DOMAIN cases[t]
      BY <2>2 DEF ReviewCaseId, ActiveCases
    <3>2. cases[t][ReviewCaseId(t)] \in ReviewCase
      BY <2>1, <3>1, EntryOf
    <3>3. [cases[t][ReviewCaseId(t)] EXCEPT !.delivery_failed = TRUE] \in ReviewCase
      BY <3>2, Zenon DEF ReviewCase
    <3>4. WithReviewCase(t) = [cases[t] EXCEPT ![ReviewCaseId(t)] =
            [cases[t][ReviewCaseId(t)] EXCEPT !.delivery_failed = TRUE]]
      BY <2>2 DEF WithReviewCase
    <3> QED
      BY <2>1, <3>1, <3>3, <3>4, EntryReplaced
  <2>3. CASE ActiveCases(t) = {}
    <3>1. [status |-> "active", delivery_failed |-> TRUE] \in ReviewCase
      BY DEF ReviewCase
    <3>2. WithReviewCase(t) =
            Append(cases[t], [status |-> "active", delivery_failed |-> TRUE])
      BY <2>3 DEF WithReviewCase
    <3>3. ReviewCaseId(t) = Len(cases[t]) + 1
      BY <2>3 DEF ReviewCaseId
    <3> QED
      BY <2>1, <3>1, <3>2, <3>3, EntryAdded
  <2> QED
    BY <2>2, <2>3
<1>2. cases' \in [Threads -> Seq(ReviewCase)]
  BY <1>1 DEF MoveToManualReview, TypeOK
<1>3. ASSUME NEW o \in Operations,
             NEW id \in {ReviewCaseId(ThreadOf[o]), operation[o].support_case_id}
      PROVE  [status |-> "manual_review", requires_manual_review |-> TRUE,
              support_case_id |-> id] \in Operation
  <2>1. ReviewCaseId(ThreadOf[o]) \in Nat /\ operation[o].support_case_id \in Nat
    BY <1>1, ThreadOfType DEF TypeOK, Operation
  <2> QED
    BY <2>1 DEF Operation
<1>4. operation' \in [Operations -> Operation]
  BY <1>3, Zenon DEF MoveToManualReview, TypeOK
<1> QED
  BY <1>2, <1>4

LEMMA RecordEventsType ==
  ASSUME TypeOK, NEW S,
         NEW status \in {"submitted", "rejected", "manual_review", "accepted"},
         RecordEvents(S, status)
  PROVE  events' \in [Commands -> SUBSET Event]
<1>1. ASSUME NEW c \in Commands
      PROVE  [cycle |-> outbox[c].delivery_cycle, status |-> status] \in Event
  BY DEF TypeOK, Row, Event
<1> QED
  BY <1>1 DEF RecordEvents, TypeOK

-----------------------------------------------------------------------------
(* Type correctness. *)

LEMMA CloseCommandType ==
  ASSUME TypeOK, NEW w \in Workers, NEW c \in Commands,
         NEW target \in {"retry_scheduled", "published", "dead"},
         NEW outcome \in {"accepted", "provider_rejected", "terminal_failure",
                          "retry_scheduled", "lease_expired"},
         NEW kind \in FailureKinds \cup {"none"},
         CloseCommand(w, c, target, outcome, kind)
  PROVE  /\ outbox' \in [Commands -> Row]
         /\ attempts' \in [Commands -> Seq(Attempt)]
         /\ task' \in [Workers -> [Commands -> Task]]
         /\ redrives' = redrives /\ sent' = sent /\ provider' = provider
<1>1. Transition(outbox[c], target, FALSE, kind) \in Row
  <2>1. outbox[c] \in Row
    BY DEF TypeOK
  <2> QED
    BY <2>1, TransitionType, Zenon
<1>2. FinishAttempt(attempts[c], task[w][c].lease_id, outcome, kind) \in Seq(Attempt)
  BY FinishAttemptSeq, Zenon DEF TypeOK
<1>3. task' \in [Workers -> [Commands -> Task]]
  BY EndTaskType DEF CloseCommand
<1>4. outbox' \in [Commands -> Row]
  BY <1>1, Zenon DEF CloseCommand, TypeOK
<1>5. attempts' \in [Commands -> Seq(Attempt)]
  BY <1>2 DEF CloseCommand, TypeOK
<1> QED
  BY <1>3, <1>4, <1>5, Zenon DEF CloseCommand

LEMMA ClaimType ==
  ASSUME TypeOK, NEW w \in Workers, NEW batch \in SUBSET Commands,
         claim_due_outbox(w, batch)
  PROVE  TypeOK'
<1>1. ASSUME NEW c \in Commands
      PROVE  [outbox[c] EXCEPT !.status = "processing", !.due = FALSE,
                !.lease_id = Len(attempts[c]) + 1, !.lease_ttl = LeaseTicks,
                !.attempts_in_cycle = @ + 1] \in Row
  <2>1. outbox[c] \in Row /\ Len(attempts[c]) \in Nat
    BY DEF TypeOK
  <2>2. outbox[c].attempts_in_cycle + 1 \in Nat /\ Len(attempts[c]) + 1 \in Nat
    BY <2>1 DEF Row
  <2> QED
    BY <2>1, <2>2, LeaseTicksPositive, ClaimedRow, Zenon
<1>2. outbox' \in [Commands -> Row]
  BY <1>1, Zenon DEF TypeOK, claim_due_outbox
<1>3. ASSUME NEW c \in Commands
      PROVE  [delivery_cycle |-> outbox[c].delivery_cycle,
              attempt_number |-> outbox[c].attempts_in_cycle + 1,
              worker_id |-> w, outcome |-> "open", failure_kind |-> "none"] \in Attempt
  BY DEF TypeOK, Row, Attempt
<1>4. attempts' \in [Commands -> Seq(Attempt)]
  BY <1>3, EntryAdded, Zenon DEF TypeOK, claim_due_outbox
<1>5. ASSUME NEW c \in Commands
      PROVE  /\ [stage |-> "claimed", lease_id |-> Len(attempts[c]) + 1,
                 kind |-> "none"] \in Task
             /\ Idle \in Task
  BY DEF TypeOK, Task, Idle
<1>6. task' \in [Workers -> [Commands -> Task]]
  BY <1>5, Zenon DEF TypeOK, claim_due_outbox
<1> QED
  BY <1>2, <1>4, <1>6, Zenon DEF TypeOK, claim_due_outbox

LEMMA RecoverType ==
  ASSUME TypeOK, NEW batch \in SUBSET Commands, recover_expired_outbox_leases(batch)
  PROVE  TypeOK'
<1> DEFINE failed == {c \in batch \cap Operations : Exhausted(c)}
<1>1. operation' \in [Operations -> Operation] /\ cases' \in [Threads -> Seq(ReviewCase)]
  <2>1. MoveToManualReview(failed) /\ failed \subseteq Operations
    BY DEF recover_expired_outbox_leases
  <2> QED
    BY <2>1, MoveToManualReviewType
<1>2. events' \in [Commands -> SUBSET Event]
  <2>1. RecordEvents(failed, "manual_review")
    BY DEF recover_expired_outbox_leases
  <2> QED
    BY <2>1, RecordEventsType
<1>3. attempts' \in [Commands -> Seq(Attempt)]
  <2>1. ASSUME NEW c \in Commands
        PROVE  FinishAttempt(attempts[c], outbox[c].lease_id, "lease_expired", "none")
                 \in Seq(Attempt)
    BY FinishAttemptSeq, Zenon DEF TypeOK
  <2> QED
    BY <2>1 DEF TypeOK, recover_expired_outbox_leases
<1>4. outbox' \in [Commands -> Row]
  <2>1. ASSUME NEW c \in Commands
        PROVE  /\ Transition(outbox[c], "dead", FALSE, "none") \in Row
               /\ Transition(outbox[c], "retry_scheduled", TRUE, "none") \in Row
    <3>1. outbox[c] \in Row
      BY Zenon DEF TypeOK
    <3> QED
      BY <3>1, TransitionType
  <2>2. /\ outbox \in [Commands -> Row]
        /\ outbox' = [c \in Commands |->
             IF c \notin batch THEN outbox[c]
             ELSE IF Exhausted(c) THEN Transition(outbox[c], "dead", FALSE, "none")
             ELSE Transition(outbox[c], "retry_scheduled", TRUE, "none")]
    BY Zenon DEF TypeOK, recover_expired_outbox_leases
  <2> QED
    BY <2>1, <2>2
<1> QED
  BY <1>1, <1>2, <1>3, <1>4, Zenon DEF TypeOK, recover_expired_outbox_leases

(* The steps of a claimed command that only change the worker's task. *)
TaskOnly(w, c) ==
  \/ send_command(w, c) \/ ConnectionUnusable(w, c) \/ ProviderAnswers(w, c)
  \/ RequestFails(w, c) \/ RenewalRefused(w, c) \/ FinalizerRaises(w, c)
  \/ LeaseConflict(w, c) \/ HandlingRaises(w, c)

LEMMA TaskOnlyType ==
  ASSUME TypeOK, NEW w \in Workers, NEW c \in Commands, TaskOnly(w, c)
  PROVE  TypeOK' /\ UNCHANGED <<database, provider>>
<1> USE DEF database
<1>1. CASE send_command(w, c)
  BY <1>1, SetTaskType DEF TypeOK, send_command
<1>2. CASE ConnectionUnusable(w, c)
  <2>1. "validation_error" \in FailureKinds
    BY DEF FailureKinds, TECHNICAL_FAILURE_KINDS
  <2> QED
    BY <1>2, <2>1, SetTaskType DEF TypeOK, ConnectionUnusable
<1>3. CASE ProviderAnswers(w, c)
  <2>1. provider[c] \in {"accepted", "rejected"}
    BY <1>3 DEF TypeOK, ProviderAnswers
  <2> QED
    BY <1>3, <2>1, SetTaskType DEF TypeOK, ProviderAnswers
<1>4. CASE RequestFails(w, c)
  <2>1. PICK kind \in Kinds : SetTask(w, c, "failed", kind)
    BY <1>4 DEF RequestFails
  <2>2. kind \in FailureKinds
    BY <2>1, KindsTechnical DEF FailureKinds
  <2> QED
    BY <1>4, <2>1, <2>2, SetTaskType DEF TypeOK, RequestFails
<1>5. CASE RenewalRefused(w, c)
  BY <1>5, EndTaskType DEF TypeOK, RenewalRefused
<1>6. CASE FinalizerRaises(w, c)
  <2>1. "validation_error" \in FailureKinds
    BY DEF FailureKinds, TECHNICAL_FAILURE_KINDS
  <2> QED
    BY <1>6, <2>1, SetTaskType DEF TypeOK, FinalizerRaises
<1>7. CASE LeaseConflict(w, c)
  BY <1>7, EndTaskType DEF TypeOK, LeaseConflict
<1>8. CASE HandlingRaises(w, c)
  BY <1>8, EndTaskType DEF TypeOK, HandlingRaises
<1> QED
  BY <1>1, <1>2, <1>3, <1>4, <1>5, <1>6, <1>7, <1>8 DEF TaskOnly

(* The finalizers and the retry, which close the claimed attempt. *)
LEMMA CloseType ==
  ASSUME TypeOK, NEW w \in Workers, NEW c \in Commands,
         \/ accepted(w, c) \/ rejected(w, c)
         \/ schedule_outbox_retry(w, c) \/ terminal_failure(w, c)
  PROVE  TypeOK'
<1>1. task[w][c].kind \in FailureKinds \cup {"none"}
  BY DEF TypeOK, Task
<1>2. CASE accepted(w, c)
  <2>1. operation' \in [Operations -> Operation]
    <3>1. ASSUME NEW o \in Operations
          PROVE  [operation[o] EXCEPT !.status = "submitted"] \in Operation
      BY Zenon DEF TypeOK, Operation
    <3> QED
      BY <1>2, <3>1 DEF TypeOK, accepted
  <2>2. events' \in [Commands -> SUBSET Event]
    BY <1>2, RecordEventsType DEF accepted
  <2>3. /\ outbox' \in [Commands -> Row] /\ attempts' \in [Commands -> Seq(Attempt)]
        /\ task' \in [Workers -> [Commands -> Task]]
        /\ redrives' = redrives /\ sent' = sent /\ provider' = provider
    <3>1. CloseCommand(w, c, "published", "accepted", "none")
      BY <1>2 DEF accepted
    <3> QED
      BY <3>1, CloseCommandType
  <2> QED
    BY <1>2, <2>1, <2>2, <2>3 DEF TypeOK, accepted
<1>3. CASE rejected(w, c)
  <2>1. operation' \in [Operations -> Operation]
    <3>1. ASSUME NEW o \in Operations
          PROVE  [operation[o] EXCEPT !.status = "rejected"] \in Operation
      BY Zenon DEF TypeOK, Operation
    <3> QED
      BY <1>3, <3>1 DEF TypeOK, rejected
  <2>2. events' \in [Commands -> SUBSET Event]
    BY <1>3, RecordEventsType DEF rejected
  <2>3. /\ outbox' \in [Commands -> Row] /\ attempts' \in [Commands -> Seq(Attempt)]
        /\ task' \in [Workers -> [Commands -> Task]]
        /\ redrives' = redrives /\ sent' = sent /\ provider' = provider
    <3>1. CloseCommand(w, c, "dead", "provider_rejected", "provider_rejection")
      BY <1>3 DEF rejected
    <3> QED
      BY <3>1, CloseCommandType DEF FailureKinds
  <2> QED
    BY <1>3, <2>1, <2>2, <2>3 DEF TypeOK, rejected, MarkInvestigation
<1>4. CASE schedule_outbox_retry(w, c)
  <2>1. /\ outbox' \in [Commands -> Row] /\ attempts' \in [Commands -> Seq(Attempt)]
        /\ task' \in [Workers -> [Commands -> Task]]
        /\ redrives' = redrives /\ sent' = sent /\ provider' = provider
    <3>1. CloseCommand(w, c, "retry_scheduled", "retry_scheduled", task[w][c].kind)
      BY <1>4 DEF schedule_outbox_retry
    <3> QED
      BY <1>1, <3>1, CloseCommandType
  <2> QED
    BY <1>4, <2>1 DEF TypeOK, schedule_outbox_retry
<1>5. CASE terminal_failure(w, c)
  <2>1. operation' \in [Operations -> Operation] /\ cases' \in [Threads -> Seq(ReviewCase)]
    <3>1. MoveToManualReview({c} \cap Operations)
      BY <1>5 DEF terminal_failure
    <3>2. {c} \cap Operations \subseteq Operations
      OBVIOUS
    <3> QED
      BY <3>1, <3>2, MoveToManualReviewType
  <2>2. events' \in [Commands -> SUBSET Event]
    BY <1>5, RecordEventsType DEF terminal_failure
  <2>3. /\ outbox' \in [Commands -> Row] /\ attempts' \in [Commands -> Seq(Attempt)]
        /\ task' \in [Workers -> [Commands -> Task]]
        /\ redrives' = redrives /\ sent' = sent /\ provider' = provider
    <3>1. CloseCommand(w, c, "dead", "terminal_failure", task[w][c].kind)
      BY <1>5 DEF terminal_failure
    <3> QED
      BY <1>1, <3>1, CloseCommandType
  <2> QED
    BY <1>5, <2>1, <2>2, <2>3 DEF TypeOK, terminal_failure, MarkInvestigation
<1> QED
  BY <1>2, <1>3, <1>4, <1>5

LEMMA RedriveType ==
  ASSUME TypeOK, NEW c \in Commands, NEW r \in Requests, redrive_outbox(c, r)
  PROVE  TypeOK'
<1>1. outbox[c] \in Row
  BY DEF TypeOK
<1>2. [outbox[c] EXCEPT !.status = "retry_scheduled", !.due = TRUE,
         !.delivery_cycle = outbox[c].delivery_cycle + 1,
         !.attempts_in_cycle = 0, !.last_failure_kind = "none"] \in Row
  <2>1. outbox[c].delivery_cycle + 1 \in Nat
    BY <1>1 DEF Row
  <2> QED
    BY <1>1, <2>1, RedrivenRow, Zenon
<1>3. outbox' \in [Commands -> Row]
  BY <1>2 DEF TypeOK, redrive_outbox
<1>4. [request_id |-> r, command_id |-> c,
       new_cycle |-> outbox[c].delivery_cycle + 1] \in Redrive
  BY <1>1 DEF Redrive, Row
<1>5. redrives' \subseteq Redrive
  BY <1>4 DEF TypeOK, redrive_outbox
<1>6. operation' \in [Operations -> Operation]
  <2>1. [status |-> "queued", requires_manual_review |-> FALSE,
         support_case_id |-> 0] \in Operation
    BY DEF Operation
  <2> QED
    BY <2>1 DEF TypeOK, redrive_outbox
<1> QED
  BY <1>3, <1>5, <1>6 DEF TypeOK, redrive_outbox

(* What the clocks, the Provider, the conversation and the staff do. *)
LEMMA EnvironmentType ==
  ASSUME TypeOK,
         \/ \E w \in Workers, c \in Commands : renew_outbox_lease(w, c)
         \/ \E w \in Workers : WorkerCrash(w)
         \/ \E c \in Commands :
              Enqueue(c) \/ ProviderDecides(c) \/ LeaseTick(c) \/ BackoffElapses(c)
         \/ \E c \in Operations : move_to_manual_review(c) \/ ApplyCallback(c)
         \/ \E t \in Threads : OpenReviewCase(t) \/ \E i \in DOMAIN cases[t] : change_status(t, i)
  PROVE  TypeOK'
<1>1. ASSUME NEW c \in Commands PROVE outbox[c] \in Row
  BY DEF TypeOK
<1>2. ASSUME NEW w \in Workers, NEW c \in Commands, renew_outbox_lease(w, c)
      PROVE  TypeOK'
  <2>1. [outbox[c] EXCEPT !.lease_ttl = LeaseTicks] \in Row
    BY <1>1, LeaseTicksPositive DEF Row
  <2> QED
    BY <1>2, <2>1 DEF TypeOK, renew_outbox_lease
<1>3. ASSUME NEW w \in Workers, WorkerCrash(w)
      PROVE  TypeOK'
  <2>1. Idle \in Task
    BY DEF Idle, Task
  <2> QED
    BY <1>3, <2>1 DEF TypeOK, WorkerCrash, database
<1>4. ASSUME NEW c \in Commands, Enqueue(c)
      PROVE  TypeOK'
  <2>1. [outbox[c] EXCEPT !.status = "pending", !.due = TRUE] \in Row
    BY <1>1, Zenon DEF Row
  <2>2. ASSUME NEW o \in Operations
        PROVE  [operation[o] EXCEPT !.status = "queued"] \in Operation
    BY Zenon DEF TypeOK, Operation
  <2> QED
    BY <1>4, <2>1, <2>2, Zenon DEF TypeOK, Enqueue
<1>5. ASSUME NEW c \in Commands, ProviderDecides(c)
      PROVE  TypeOK'
  BY <1>5 DEF TypeOK, ProviderDecides, database
<1>6. ASSUME NEW c \in Commands, LeaseTick(c)
      PROVE  TypeOK'
  <2>1. outbox[c].lease_ttl - 1 \in Nat
    BY <1>1, <1>6 DEF Row, LeaseTick, LeaseLive
  <2>2. [outbox[c] EXCEPT !.lease_ttl = outbox[c].lease_ttl - 1] \in Row
    BY <1>1, <2>1 DEF Row
  <2> QED
    BY <1>6, <2>2 DEF TypeOK, LeaseTick
<1>7. ASSUME NEW c \in Commands, BackoffElapses(c)
      PROVE  TypeOK'
  <2>1. [outbox[c] EXCEPT !.due = TRUE] \in Row
    BY <1>1, Zenon DEF Row
  <2> QED
    BY <1>7, <2>1 DEF TypeOK, BackoffElapses
<1>8. ASSUME NEW c \in Operations, move_to_manual_review(c)
      PROVE  TypeOK'
  <2>1. operation' \in [Operations -> Operation] /\ cases' \in [Threads -> Seq(ReviewCase)]
    BY <1>8, MoveToManualReviewType DEF move_to_manual_review
  <2> QED
    BY <1>8, <2>1 DEF TypeOK, move_to_manual_review
<1>9. ASSUME NEW c \in Operations, ApplyCallback(c)
      PROVE  TypeOK'
  <2>1. PICK status \in CallbackTargets(operation[c].status) :
          operation' = [operation EXCEPT ![c].status = status]
    BY <1>9, Zenon DEF ApplyCallback
  <2>2. status \in {"processing", "completed", "rejected"}
    BY <2>1 DEF CallbackTargets
  <2>3. operation[c] \in Operation
    BY DEF TypeOK
  <2>4. [operation[c] EXCEPT !.status = status] \in Operation
    BY <2>2, <2>3 DEF Operation
  <2> QED
    BY <1>9, <2>1, <2>4, Zenon DEF TypeOK, ApplyCallback
<1>10. ASSUME NEW t \in Threads, OpenReviewCase(t)
       PROVE  TypeOK'
  <2>1. [status |-> "active", delivery_failed |-> FALSE] \in ReviewCase
    BY DEF ReviewCase
  <2>2. cases' \in [Threads -> Seq(ReviewCase)]
    BY <1>10, <2>1, EntryAdded DEF TypeOK, OpenReviewCase
  <2> QED
    BY <1>10, <2>2 DEF TypeOK, OpenReviewCase
<1>11. ASSUME NEW t \in Threads, NEW i \in DOMAIN cases[t], change_status(t, i)
       PROVE  TypeOK'
  <2> DEFINE status == IF cases[t][i].status = "active" THEN "resolved" ELSE "active"
             entry == [cases[t][i] EXCEPT !.status = status]
  <2>1. cases[t] \in Seq(ReviewCase) /\ i \in 1..Len(cases[t])
    BY <1>11 DEF TypeOK
  <2>2. cases[t][i] \in ReviewCase
    BY <2>1, EntryOf
  <2>3. entry \in ReviewCase
    BY <2>2 DEF ReviewCase
  <2>4. cases' = [cases EXCEPT ![t] = [cases[t] EXCEPT ![i] = entry]]
    BY <1>11 DEF change_status
  <2> HIDE DEF entry
  <2>5. [cases[t] EXCEPT ![i] = entry] \in Seq(ReviewCase)
    BY <2>1, <2>3, EntryReplaced
  <2>6. cases' \in [Threads -> Seq(ReviewCase)]
    BY <2>4, <2>5 DEF TypeOK
  <2> QED
    BY <1>11, <2>6 DEF TypeOK, change_status
<1> QED
  BY <1>2, <1>3, <1>4, <1>5, <1>6, <1>7, <1>8, <1>9, <1>10, <1>11

LEMMA TypeInit == Init => TypeOK
<1> SUFFICES ASSUME Init PROVE TypeOK
  OBVIOUS
<1>1. outbox \in [Commands -> Row]
  BY DEF Init, Row
<1>2. attempts \in [Commands -> Seq(Attempt)] /\ cases \in [Threads -> Seq(ReviewCase)]
  BY NoEntry DEF Init
<1>3. operation \in [Operations -> Operation]
  BY DEF Init, Operation
<1>4. task \in [Workers -> [Commands -> Task]]
  BY DEF Init, Task, Idle
<1> QED
  BY <1>1, <1>2, <1>3, <1>4 DEF Init, TypeOK

LEMMA TypeStep == TypeOK /\ [Next]_vars => TypeOK'
<1> SUFFICES ASSUME TypeOK, [Next]_vars PROVE TypeOK'
  OBVIOUS
<1>1. CASE UNCHANGED vars
  BY <1>1 DEF TypeOK, vars, database
<1>2. ASSUME NEW w \in Workers, NEW c \in Commands, Deliver(w, c)
      PROVE  TypeOK'
  BY <1>2, TaskOnlyType, CloseType DEF Deliver, TaskOnly
<1> QED
  BY <1>1, <1>2, ClaimType, RecoverType, RedriveType, EnvironmentType
     DEF Next, Claim, Recover

(* Every variable keeps its type: each row of the tables, each task of a     *)
(* worker, for any number of commands, workers, threads and requests.        *)
THEOREM TypeCorrect == Spec => []TypeOK
  BY TypeInit, TypeStep, PTL DEF Spec

-----------------------------------------------------------------------------
(* What a step can do to a command. *)

(* The ways a step can change the row and the ledger of a command. *)
RowKept(c) ==
  /\ attempts'[c] = attempts[c]
  /\ outbox'[c] = outbox[c] \/ outbox[c].status \in {"processing", "retry_scheduled"}
  /\ outbox'[c].status = outbox[c].status
  /\ outbox'[c].delivery_cycle = outbox[c].delivery_cycle
  /\ outbox'[c].attempts_in_cycle = outbox[c].attempts_in_cycle
  /\ outbox'[c].lease_id = outbox[c].lease_id
  /\ outbox'[c].last_failure_kind = outbox[c].last_failure_kind

RowEnqueued(c) ==
  /\ outbox[c].status = "absent" /\ outbox'[c].status = "pending"
  /\ attempts'[c] = attempts[c]
  /\ outbox'[c].delivery_cycle = outbox[c].delivery_cycle
  /\ outbox'[c].attempts_in_cycle = outbox[c].attempts_in_cycle
  /\ outbox'[c].lease_id = outbox[c].lease_id
  /\ outbox'[c].last_failure_kind = outbox[c].last_failure_kind

RowClaimed(c, entry) ==
  /\ outbox[c].status \in {"pending", "retry_scheduled"}
  /\ outbox'[c].status = "processing"
  /\ outbox[c].attempts_in_cycle < MAX_ATTEMPTS
  /\ entry.delivery_cycle = outbox[c].delivery_cycle
  /\ entry.attempt_number = outbox[c].attempts_in_cycle + 1
  /\ entry.outcome = "open"
  /\ attempts'[c] = Append(attempts[c], entry)
  /\ outbox'[c].delivery_cycle = outbox[c].delivery_cycle
  /\ outbox'[c].attempts_in_cycle = outbox[c].attempts_in_cycle + 1
  /\ outbox'[c].lease_id = Len(attempts[c]) + 1
  /\ outbox'[c].last_failure_kind = outbox[c].last_failure_kind

RowClosed(c, target, outcome, kind) ==
  /\ outbox[c].status = "processing" /\ outbox'[c].status = target
  /\ outbox[c].lease_id \in DOMAIN attempts[c]
  /\ attempts'[c] = FinishAttempt(attempts[c], outbox[c].lease_id, outcome, kind)
  /\ outbox'[c].delivery_cycle = outbox[c].delivery_cycle
  /\ outbox'[c].attempts_in_cycle = outbox[c].attempts_in_cycle
  /\ outbox'[c].lease_id = 0
  /\ outbox'[c].last_failure_kind =
       IF kind = "none" THEN outbox[c].last_failure_kind ELSE kind

RowRedriven(c) ==
  /\ \E r \in Requests : redrive_outbox(c, r)
  /\ outbox[c].status = "dead" /\ outbox'[c].status = "retry_scheduled"
  /\ outbox[c].last_failure_kind # "provider_rejection"
  /\ attempts'[c] = attempts[c]
  /\ outbox'[c].delivery_cycle = outbox[c].delivery_cycle + 1
  /\ outbox'[c].attempts_in_cycle = 0
  /\ outbox'[c].lease_id = 0
  /\ outbox'[c].last_failure_kind = "none"

(* The ways it can change the command's operation and events. *)
AggregateKept(c) ==
  /\ events'[c] = events[c]
  /\ c \in Operations => operation'[c] = operation[c]

EventAdded(c, status) ==
  events'[c] = events[c] \cup {[cycle |-> outbox[c].delivery_cycle, status |-> status]}

StatusSet(c, from, to) ==
  c \in Operations =>
    /\ operation[c].status \in from /\ operation'[c].status = to
    /\ operation'[c].requires_manual_review = operation[c].requires_manual_review
    /\ operation'[c].support_case_id = operation[c].support_case_id

UnderReview(c) ==
  LET id == operation'[c].support_case_id
  IN /\ operation'[c].status = "manual_review" /\ operation'[c].requires_manual_review
     /\ id \in DOMAIN cases'[ThreadOf[c]] /\ cases'[ThreadOf[c]][id].delivery_failed

OperationStatus(c, status, other) == IF c \in Operations THEN status ELSE other

(* One step of one command. *)
CommandStep(c) ==
  \/ RowKept(c) /\ AggregateKept(c)
  \/ RowEnqueued(c) /\ events'[c] = events[c] /\ StatusSet(c, {"pending_confirmation"}, "queued")
  \/ /\ RowKept(c) /\ c \in Operations /\ outbox[c].status = "absent"
     /\ events'[c] = events[c] /\ UnderReview(c)
  \/ /\ RowKept(c) /\ c \in Operations /\ outbox[c].status = "published"
     /\ events'[c] = events[c]
     /\ operation'[c].status \in CallbackTargets(operation[c].status)
     /\ StatusSet(c, {operation[c].status}, operation'[c].status)
  \/ \E entry \in Attempt : RowClaimed(c, entry) /\ AggregateKept(c)
  \/ /\ RowClosed(c, "published", "accepted", "none") /\ provider[c] = "accepted"
     /\ StatusSet(c, {"queued"}, "submitted")
     /\ EventAdded(c, OperationStatus(c, "submitted", "accepted"))
  \/ /\ RowClosed(c, "dead", "provider_rejected", "provider_rejection")
     /\ provider[c] = "rejected"
     /\ StatusSet(c, {"queued"}, "rejected") /\ EventAdded(c, "rejected")
  \/ /\ \E kind \in TECHNICAL_FAILURE_KINDS : RowClosed(c, "dead", "terminal_failure", kind)
     /\ c \in Operations => UnderReview(c)
     /\ EventAdded(c, OperationStatus(c, "manual_review", "rejected"))
  \/ /\ \E kind \in TECHNICAL_FAILURE_KINDS :
          RowClosed(c, "retry_scheduled", "retry_scheduled", kind)
     /\ AggregateKept(c)
  \/ /\ RowClosed(c, "retry_scheduled", "lease_expired", "none")
     /\ outbox[c].attempts_in_cycle < MAX_ATTEMPTS /\ AggregateKept(c)
  \/ /\ RowClosed(c, "dead", "lease_expired", "none")
     /\ outbox[c].attempts_in_cycle >= MAX_ATTEMPTS
     /\ c \in Operations => UnderReview(c) /\ EventAdded(c, "manual_review")
     /\ c \notin Operations => events'[c] = events[c]
  \/ /\ RowRedriven(c) /\ events'[c] = events[c]
     /\ c \in Operations =>
          /\ operation[c].status = "manual_review" /\ operation'[c].status = "queued"
          /\ ~operation'[c].requires_manual_review /\ operation'[c].support_case_id = 0

-----------------------------------------------------------------------------
(* The review cases a technical failure hands operations to. *)

CasesGrow ==
  \A t \in Threads : \A i \in DOMAIN cases[t] :
    /\ i \in DOMAIN cases'[t]
    /\ cases[t][i].delivery_failed => cases'[t][i].delivery_failed

LEMMA ReviewCaseMarked ==
  ASSUME TypeOK, NEW t \in Threads
  PROVE  /\ ReviewCaseId(t) \in DOMAIN WithReviewCase(t)
         /\ WithReviewCase(t)[ReviewCaseId(t)].delivery_failed
         /\ \A i \in DOMAIN cases[t] :
              /\ i \in DOMAIN WithReviewCase(t)
              /\ cases[t][i].delivery_failed => WithReviewCase(t)[i].delivery_failed
<1>1. cases[t] \in Seq(ReviewCase) /\ DOMAIN cases[t] = 1..Len(cases[t])
      /\ Len(cases[t]) \in Nat
  BY DEF TypeOK
<1>2. CASE ActiveCases(t) # {}
  <2> DEFINE id == ReviewCaseId(t)
             entry == [cases[t][id] EXCEPT !.delivery_failed = TRUE]
  <2>1. id \in DOMAIN cases[t]
    BY <1>2 DEF ReviewCaseId, ActiveCases
  <2>2. cases[t][id] \in ReviewCase
    BY <1>1, <2>1, EntryOf
  <2>3. entry.delivery_failed
    BY <2>2 DEF ReviewCase
  <2>4. WithReviewCase(t) = [cases[t] EXCEPT ![id] = entry]
    BY <1>2 DEF WithReviewCase
  <2> HIDE DEF id, entry
  <2> QED
    BY <1>1, <2>1, <2>3, <2>4 DEF id
<1>3. CASE ActiveCases(t) = {}
  <2>1. WithReviewCase(t) =
          Append(cases[t], [status |-> "active", delivery_failed |-> TRUE])
    BY <1>3 DEF WithReviewCase
  <2>2. ReviewCaseId(t) = Len(cases[t]) + 1
    BY <1>3 DEF ReviewCaseId
  <2>3. [status |-> "active", delivery_failed |-> TRUE] \in ReviewCase
    BY DEF ReviewCase
  <2> QED
    BY <1>1, <2>1, <2>2, <2>3
<1> QED
  BY <1>2, <1>3

LEMMA MovedUnderReview ==
  ASSUME TypeOK, NEW S, S \subseteq Operations, MoveToManualReview(S),
         \A o \in S : operation[o].support_case_id = 0
  PROVE  /\ \A o \in S : UnderReview(o)
         /\ \A o \in Operations \ S : operation'[o] = operation[o]
         /\ CasesGrow
<1>1. ASSUME NEW o \in S PROVE UnderReview(o)
  <2>1. ThreadOf[o] \in Threads
    BY ThreadOfType
  <2>2. operation'[o] = [status |-> "manual_review", requires_manual_review |-> TRUE,
                         support_case_id |-> ReviewCaseId(ThreadOf[o])]
    BY Zenon DEF MoveToManualReview
  <2>3. cases'[ThreadOf[o]] = WithReviewCase(ThreadOf[o])
    BY <2>1 DEF MoveToManualReview
  <2> QED
    BY <2>1, <2>2, <2>3, ReviewCaseMarked DEF UnderReview
<1>2. CasesGrow
  <2> SUFFICES ASSUME NEW t \in Threads, NEW i \in DOMAIN cases[t]
               PROVE  /\ i \in DOMAIN cases'[t]
                      /\ cases[t][i].delivery_failed => cases'[t][i].delivery_failed
    BY DEF CasesGrow
  <2>1. cases'[t] = WithReviewCase(t) \/ cases'[t] = cases[t]
    BY DEF MoveToManualReview
  <2> QED
    BY <2>1, ReviewCaseMarked
<1> QED
  BY <1>1, <1>2 DEF MoveToManualReview

-----------------------------------------------------------------------------
(* Every step is a CommandStep of every command. *)

LEMMA UntouchedCommand ==
  ASSUME NEW c \in Commands, outbox'[c] = outbox[c], attempts'[c] = attempts[c],
         events'[c] = events[c], c \in Operations => operation'[c] = operation[c]
  PROVE  CommandStep(c)
BY DEF CommandStep, RowKept, AggregateKept

LEMMA CloseShape ==
  ASSUME TypeOK, TasksConsistent, NEW w \in Workers, NEW c \in Commands,
         NEW target \in {"retry_scheduled", "published", "dead"}, NEW outcome,
         NEW kind \in FailureKinds \cup {"none"},
         task[w][c].stage # "idle", HoldsLease(w, c),
         CloseCommand(w, c, target, outcome, kind)
  PROVE  /\ RowClosed(c, target, outcome, kind)
         /\ \A d \in Commands : d # c => outbox'[d] = outbox[d] /\ attempts'[d] = attempts[d]
<1>1. task[w][c].lease_id \in DOMAIN attempts[c] /\ outbox[c].lease_id = task[w][c].lease_id
      /\ outbox[c].status = "processing"
  BY DEF TasksConsistent, HoldsLease
<1>2. outbox[c] \in Row
  BY DEF TypeOK
<1>3. outbox' = [outbox EXCEPT ![c] = Transition(outbox[c], target, FALSE, kind)]
      /\ attempts' = [attempts EXCEPT ![c] =
           FinishAttempt(attempts[c], task[w][c].lease_id, outcome, kind)]
  BY DEF CloseCommand
<1>4. outbox'[c] = Transition(outbox[c], target, FALSE, kind)
      /\ attempts'[c] = FinishAttempt(attempts[c], task[w][c].lease_id, outcome, kind)
  BY <1>3 DEF TypeOK
<1>5. RowClosed(c, target, outcome, kind)
  <2> DEFINE row == Transition(outbox[c], target, FALSE, kind)
  <2>1. /\ row.status = target /\ row.lease_id = 0
        /\ row.delivery_cycle = outbox[c].delivery_cycle
        /\ row.attempts_in_cycle = outbox[c].attempts_in_cycle
        /\ row.last_failure_kind = IF kind = "none" THEN outbox[c].last_failure_kind ELSE kind
    BY <1>2 DEF Transition, Row
  <2>2. outbox'[c] = row
    BY <1>4
  <2> HIDE DEF row
  <2> QED
    BY <1>1, <1>4, <2>1, <2>2, Zenon DEF RowClosed
<1>6. \A d \in Commands : d # c => outbox'[d] = outbox[d] /\ attempts'[d] = attempts[d]
  BY <1>3 DEF TypeOK
<1> QED
  BY <1>5, <1>6

LEMMA FinalizedShape ==
  ASSUME TypeOK, TasksConsistent, NEW w \in Workers, NEW c \in Commands,
         accepted(w, c) \/ rejected(w, c)
  PROVE  (\A d \in Commands : CommandStep(d)) /\ cases' = cases
<1>1. ASSUME accepted(w, c) PROVE \A d \in Commands : CommandStep(d)
  <2>1. /\ RowClosed(c, "published", "accepted", "none")
        /\ \A d \in Commands : d # c => outbox'[d] = outbox[d] /\ attempts'[d] = attempts[d]
    BY <1>1, CloseShape DEF accepted, Fenced
  <2>2. provider[c] = "accepted"
    BY <1>1 DEF accepted, TasksConsistent
  <2>3. EventAdded(c, OperationStatus(c, "submitted", "accepted"))
        /\ \A d \in Commands : d # c => events'[d] = events[d]
    BY <1>1 DEF accepted, RecordEvents, EventAdded, OperationStatus
  <2>4. StatusSet(c, {"queued"}, "submitted")
        /\ \A d \in Operations : d # c => operation'[d] = operation[d]
    BY <1>1 DEF accepted, StatusSet, CanFinalize, TypeOK, Operation
  <2>5. CommandStep(c)
    BY <2>1, <2>2, <2>3, <2>4 DEF CommandStep
  <2> QED
    BY <2>1, <2>3, <2>4, <2>5, UntouchedCommand
<1>2. ASSUME rejected(w, c) PROVE \A d \in Commands : CommandStep(d)
  <2>1. /\ RowClosed(c, "dead", "provider_rejected", "provider_rejection")
        /\ \A d \in Commands : d # c => outbox'[d] = outbox[d] /\ attempts'[d] = attempts[d]
    BY <1>2, CloseShape DEF rejected, Fenced, FailureKinds
  <2>2. provider[c] = "rejected"
    BY <1>2 DEF rejected, TasksConsistent
  <2>3. EventAdded(c, "rejected") /\ \A d \in Commands : d # c => events'[d] = events[d]
    BY <1>2 DEF rejected, RecordEvents, EventAdded
  <2>4. StatusSet(c, {"queued"}, "rejected")
        /\ \A d \in Operations : d # c => operation'[d] = operation[d]
    BY <1>2 DEF rejected, StatusSet, CanFinalize, TypeOK, Operation
  <2>5. CommandStep(c)
    BY <2>1, <2>2, <2>3, <2>4, Zenon DEF CommandStep
  <2> QED
    BY <2>1, <2>3, <2>4, <2>5, UntouchedCommand
<1> QED
  BY <1>1, <1>2 DEF accepted, rejected

LEMMA FailureShape ==
  ASSUME TypeOK, TasksConsistent, TechnicalFailureHandedOff, NEW w \in Workers, NEW c \in Commands,
         schedule_outbox_retry(w, c) \/ terminal_failure(w, c)
  PROVE  (\A d \in Commands : CommandStep(d)) /\ CasesGrow
<1>1. task[w][c].stage = "failed" /\ task[w][c].kind \in TECHNICAL_FAILURE_KINDS
  BY DEF schedule_outbox_retry, terminal_failure, TasksConsistent
<1>2. task[w][c].kind \in FailureKinds \cup {"none"}
  BY <1>1 DEF FailureKinds
<1>3. CASE schedule_outbox_retry(w, c)
  <2>1. /\ RowClosed(c, "retry_scheduled", "retry_scheduled", task[w][c].kind)
        /\ \A d \in Commands : d # c => outbox'[d] = outbox[d] /\ attempts'[d] = attempts[d]
    BY <1>1, <1>2, <1>3, CloseShape DEF schedule_outbox_retry, RetryFenced
  <2>2. CommandStep(c)
    BY <1>1, <1>3, <2>1, Zenon DEF CommandStep, AggregateKept, schedule_outbox_retry
  <2>3. CasesGrow
    BY <1>3, Zenon DEF schedule_outbox_retry, CasesGrow
  <2> QED
    BY <1>3, <2>1, <2>2, <2>3, UntouchedCommand DEF schedule_outbox_retry
<1>4. CASE terminal_failure(w, c)
  <2>1. /\ RowClosed(c, "dead", "terminal_failure", task[w][c].kind)
        /\ \A d \in Commands : d # c => outbox'[d] = outbox[d] /\ attempts'[d] = attempts[d]
    BY <1>1, <1>2, <1>4, CloseShape, Zenon DEF terminal_failure, Fenced
  <2>2. EventAdded(c, OperationStatus(c, "manual_review", "rejected"))
        /\ \A d \in Commands : d # c => events'[d] = events[d]
    BY <1>4 DEF terminal_failure, RecordEvents, EventAdded, OperationStatus
  <2>3. /\ c \in Operations => UnderReview(c)
        /\ \A d \in Operations : d # c => operation'[d] = operation[d]
        /\ CasesGrow
    <3>1. MoveToManualReview({c} \cap Operations)
      BY <1>4 DEF terminal_failure
    <3>2. \A o \in {c} \cap Operations : operation[o].support_case_id = 0
      BY <1>4 DEF terminal_failure, CanFinalize, TechnicalFailureHandedOff
    <3> QED
      BY <3>1, <3>2, MovedUnderReview
  <2>4. CommandStep(c)
    BY <1>1, <2>1, <2>2, <2>3 DEF CommandStep
  <2> QED
    BY <2>1, <2>2, <2>3, <2>4, UntouchedCommand
<1> QED
  BY <1>3, <1>4

LEMMA ClaimShape ==
  ASSUME TypeOK, NEW w \in Workers, NEW batch \in SUBSET Commands,
         claim_due_outbox(w, batch)
  PROVE  \A c \in Commands : CommandStep(c)
<1> SUFFICES ASSUME NEW c \in Commands PROVE CommandStep(c)
  OBVIOUS
<1>1. AggregateKept(c)
  BY Zenon DEF claim_due_outbox, AggregateKept
<1>2. CASE c \in batch
  <2> DEFINE entry == [delivery_cycle |-> outbox[c].delivery_cycle,
                       attempt_number |-> outbox[c].attempts_in_cycle + 1,
                       worker_id |-> w, outcome |-> "open", failure_kind |-> "none"]
             row == [outbox[c] EXCEPT !.status = "processing", !.due = FALSE,
                       !.lease_id = Len(attempts[c]) + 1, !.lease_ttl = LeaseTicks,
                       !.attempts_in_cycle = @ + 1]
  <2>1. outbox[c] \in Row
    BY DEF TypeOK
  <2>2. entry \in Attempt /\ entry.delivery_cycle = outbox[c].delivery_cycle
        /\ entry.attempt_number = outbox[c].attempts_in_cycle + 1
        /\ entry.outcome = "open"
    <3> PICK n, m : n = outbox[c].delivery_cycle /\ m = outbox[c].attempts_in_cycle + 1
      OBVIOUS
    <3>1. n \in Nat /\ m \in Nat
      BY <2>1 DEF Row
    <3>2. entry = [delivery_cycle |-> n, attempt_number |-> m, worker_id |-> w,
                   outcome |-> "open", failure_kind |-> "none"]
      OBVIOUS
    <3> HIDE DEF entry
    <3> QED
      BY <3>1, <3>2 DEF Attempt
  <2>3. /\ row.status = "processing" /\ row.lease_id = Len(attempts[c]) + 1
        /\ row.delivery_cycle = outbox[c].delivery_cycle
        /\ row.attempts_in_cycle = outbox[c].attempts_in_cycle + 1
        /\ row.last_failure_kind = outbox[c].last_failure_kind
    BY <2>1 DEF Row
  <2>4. outbox'[c] = row /\ attempts'[c] = Append(attempts[c], entry)
    BY <1>2, Zenon DEF claim_due_outbox
  <2>5. /\ outbox[c].status \in {"pending", "retry_scheduled"}
        /\ outbox[c].attempts_in_cycle < MAX_ATTEMPTS
    BY <1>2, Zenon DEF claim_due_outbox
  <2> HIDE DEF entry, row
  <2>6. RowClaimed(c, entry)
    BY <2>2, <2>3, <2>4, <2>5 DEF RowClaimed
  <2> QED
    BY <1>1, <2>2, <2>6, Zenon DEF CommandStep
<1>3. CASE c \notin batch
  BY <1>1, <1>3, UntouchedCommand, Zenon DEF claim_due_outbox, AggregateKept
<1> QED
  BY <1>2, <1>3

LEMMA RecoverShape ==
  ASSUME TypeOK, TechnicalFailureHandedOff, NEW batch \in SUBSET Commands, recover_expired_outbox_leases(batch)
  PROVE  (\A c \in Commands : CommandStep(c)) /\ CasesGrow
<1> DEFINE failed == {c \in batch \cap Operations : Exhausted(c)}
<1>1. /\ \A o \in failed : UnderReview(o)
      /\ \A o \in Operations \ failed : operation'[o] = operation[o]
      /\ CasesGrow
  <2>1. MoveToManualReview(failed) /\ failed \subseteq Operations
    BY DEF recover_expired_outbox_leases
  <2>2. \A o \in failed : operation[o].support_case_id = 0
    BY DEF recover_expired_outbox_leases, Recoverable, CanFinalize, TechnicalFailureHandedOff
  <2> HIDE DEF failed
  <2> QED
    BY <2>1, <2>2, MovedUnderReview
<1>2. ASSUME NEW c \in Commands PROVE CommandStep(c)
  <2>1. CASE c \notin batch
    <3>1. outbox'[c] = outbox[c] /\ attempts'[c] = attempts[c] /\ events'[c] = events[c]
      BY <2>1 DEF recover_expired_outbox_leases, RecordEvents
    <3> QED
      BY <1>1, <2>1, <3>1, UntouchedCommand
  <2>2. CASE c \in batch
    <3> DEFINE target == IF Exhausted(c) THEN "dead" ELSE "retry_scheduled"
               row == Transition(outbox[c], target, ~Exhausted(c), "none")
    <3>1. outbox[c] \in Row
      BY DEF TypeOK
    <3>2. /\ row.status = target /\ row.lease_id = 0
          /\ row.delivery_cycle = outbox[c].delivery_cycle
          /\ row.attempts_in_cycle = outbox[c].attempts_in_cycle
          /\ row.last_failure_kind = outbox[c].last_failure_kind
      BY <3>1 DEF Transition, Row
    <3>3. /\ outbox'[c] = row
          /\ attempts'[c] =
               FinishAttempt(attempts[c], outbox[c].lease_id, "lease_expired", "none")
      BY <2>2, Zenon DEF recover_expired_outbox_leases
    <3>4. outbox[c].status = "processing" /\ outbox[c].lease_id \in DOMAIN attempts[c]
      BY <2>2 DEF recover_expired_outbox_leases, Expired, Recoverable
    <3>5. RowClosed(c, target, "lease_expired", "none")
      <4> HIDE DEF row, target
      <4> QED
        BY <3>2, <3>3, <3>4 DEF RowClosed
    <3>6. CASE Exhausted(c)
      <4>1. outbox[c].attempts_in_cycle >= MAX_ATTEMPTS
        BY <3>6 DEF Exhausted
      <4>2. c \in Operations => UnderReview(c) /\ EventAdded(c, "manual_review")
        BY <1>1, <2>2, <3>6 DEF recover_expired_outbox_leases, RecordEvents, EventAdded
      <4>3. c \notin Operations => events'[c] = events[c]
        BY DEF recover_expired_outbox_leases, RecordEvents
      <4>4. RowClosed(c, "dead", "lease_expired", "none")
        BY <3>5, <3>6
      <4> QED
        BY <4>1, <4>2, <4>3, <4>4, Zenon DEF CommandStep
    <3>7. CASE ~Exhausted(c)
      <4>1. outbox[c].attempts_in_cycle < MAX_ATTEMPTS
        BY <3>1, <3>7, MaxAttemptsPositive DEF Exhausted, Row
      <4>2. AggregateKept(c)
        BY <1>1, <3>7, Zenon DEF recover_expired_outbox_leases, RecordEvents, AggregateKept
      <4>3. RowClosed(c, "retry_scheduled", "lease_expired", "none")
        BY <3>5, <3>7
      <4> QED
        BY <4>1, <4>2, <4>3, Zenon DEF CommandStep
    <3> QED
      BY <3>6, <3>7
  <2> QED
    BY <2>1, <2>2
<1> QED
  BY <1>1, <1>2

LEMMA RedriveShape ==
  ASSUME TypeOK, NEW c \in Commands, NEW r \in Requests, redrive_outbox(c, r)
  PROVE  /\ \A d \in Commands : CommandStep(d)
         /\ outbox[c].status = "dead"
         /\ outbox'[c].delivery_cycle = outbox[c].delivery_cycle + 1
         /\ \A d \in Commands : d # c => outbox'[d] = outbox[d]
<1> DEFINE row == [outbox[c] EXCEPT !.status = "retry_scheduled", !.due = TRUE,
                     !.delivery_cycle = outbox[c].delivery_cycle + 1,
                     !.attempts_in_cycle = 0, !.last_failure_kind = "none"]
<1>1. /\ row.status = "retry_scheduled" /\ row.attempts_in_cycle = 0
      /\ row.delivery_cycle = outbox[c].delivery_cycle + 1
      /\ row.lease_id = outbox[c].lease_id /\ row.last_failure_kind = "none"
  BY DEF TypeOK, Row
<1>2. outbox'[c] = row /\ \A d \in Commands : d # c => outbox'[d] = outbox[d]
  BY DEF redrive_outbox, TypeOK
<1>3. /\ outbox[c].status = "dead" /\ outbox[c].lease_id = 0
      /\ outbox[c].last_failure_kind # "provider_rejection"
  BY DEF redrive_outbox, decide_outbox_redrive_eligibility
<1>4. attempts' = attempts /\ events' = events
  BY DEF redrive_outbox
<1>5. /\ c \in Operations =>
           /\ operation[c].status = "manual_review" /\ operation'[c].status = "queued"
           /\ ~operation'[c].requires_manual_review /\ operation'[c].support_case_id = 0
      /\ \A d \in Operations : d # c => operation'[d] = operation[d]
  BY DEF redrive_outbox, OperationRedrivable
<1> HIDE DEF row
<1>6. CommandStep(c)
  BY <1>1, <1>2, <1>3, <1>4, <1>5, Zenon DEF CommandStep, RowRedriven
<1> QED
  BY <1>1, <1>2, <1>3, <1>4, <1>5, <1>6, UntouchedCommand

LEMMA AdmissionShape ==
  ASSUME TypeOK, OperationFollowsCommand, TechnicalFailureHandedOff,
         \/ \E c \in Commands : Enqueue(c)
         \/ \E c \in Operations : move_to_manual_review(c) \/ ApplyCallback(c)
  PROVE  (\A d \in Commands : CommandStep(d)) /\ CasesGrow
<1>1. ASSUME NEW c \in Commands, Enqueue(c)
      PROVE  (\A d \in Commands : CommandStep(d)) /\ CasesGrow
  <2> DEFINE row == [outbox[c] EXCEPT !.status = "pending", !.due = TRUE]
  <2>1. outbox'[c] = row /\ \A d \in Commands : d # c => outbox'[d] = outbox[d]
    BY <1>1, Zenon DEF Enqueue, TypeOK
  <2>2. /\ row.status = "pending" /\ row.lease_id = outbox[c].lease_id
        /\ row.delivery_cycle = outbox[c].delivery_cycle
        /\ row.attempts_in_cycle = outbox[c].attempts_in_cycle
        /\ row.last_failure_kind = outbox[c].last_failure_kind
    BY DEF TypeOK, Row
  <2> HIDE DEF row
  <2>3. RowEnqueued(c)
    BY <1>1, <2>1, <2>2, Zenon DEF RowEnqueued, Enqueue
  <2>4. StatusSet(c, {"pending_confirmation"}, "queued")
        /\ \A d \in Operations : d # c => operation'[d] = operation[d]
    BY <1>1, Zenon DEF Enqueue, StatusSet, TypeOK, Operation
  <2>5. CommandStep(c)
    BY <1>1, <2>3, <2>4, Zenon DEF CommandStep, Enqueue
  <2>6. CasesGrow
    BY <1>1, Zenon DEF CasesGrow, Enqueue
  <2> QED
    BY <1>1, <2>1, <2>4, <2>5, <2>6, UntouchedCommand, Zenon DEF Enqueue
<1>2. ASSUME NEW c \in Operations, move_to_manual_review(c)
      PROVE  (\A d \in Commands : CommandStep(d)) /\ CasesGrow
  <2>1. c \in Commands
    BY DEF Commands
  <2>2. UnderReview(c) /\ CasesGrow
        /\ \A d \in Operations : d # c => operation'[d] = operation[d]
    <3>1. MoveToManualReview({c}) /\ {c} \subseteq Operations
      BY <1>2 DEF move_to_manual_review
    <3>2. \A o \in {c} : operation[o].support_case_id = 0
      BY <1>2 DEF move_to_manual_review, TechnicalFailureHandedOff
    <3> QED
      BY <3>1, <3>2, MovedUnderReview
  <2>3. outbox[c].status = "absent"
    BY <1>2, <2>1, Zenon DEF TypeOK, Row, move_to_manual_review, OperationFollowsCommand
  <2>4. CommandStep(c)
    BY <1>2, <2>2, <2>3, Zenon DEF CommandStep, RowKept, move_to_manual_review
  <2> QED
    BY <1>2, <2>1, <2>2, <2>4, UntouchedCommand DEF move_to_manual_review
<1>3. ASSUME NEW c \in Operations, ApplyCallback(c)
      PROVE  (\A d \in Commands : CommandStep(d)) /\ CasesGrow
  <2>1. PICK status \in CallbackTargets(operation[c].status) :
          operation' = [operation EXCEPT ![c].status = status]
    BY <1>3, Zenon DEF ApplyCallback
  <2>2. operation[c] \in Operation
    BY DEF TypeOK
  <2>3. operation'[c] = [operation[c] EXCEPT !.status = status]
        /\ \A d \in Operations : d # c => operation'[d] = operation[d]
    BY <2>1 DEF TypeOK
  <2>4. operation'[c].status = status
        /\ StatusSet(c, {operation[c].status}, operation'[c].status)
    BY <2>2, <2>3 DEF StatusSet, Operation
  <2>5. CommandStep(c)
    BY <1>3, <2>1, <2>4 DEF CommandStep, RowKept, ApplyCallback
  <2>6. CasesGrow
    BY <1>3 DEF CasesGrow, ApplyCallback
  <2> QED
    BY <1>3, <2>3, <2>5, <2>6, UntouchedCommand DEF ApplyCallback, Commands
<1> QED
  BY <1>1, <1>2, <1>3

LEMMA ClockShape ==
  ASSUME TypeOK,
         \/ \E w \in Workers, c \in Commands : renew_outbox_lease(w, c)
         \/ \E c \in Commands : LeaseTick(c) \/ BackoffElapses(c)
  PROVE  /\ \A d \in Commands : CommandStep(d) /\ RowKept(d)
         /\ UNCHANGED <<attempts, operation, cases, events, redrives, task, provider>>
<1>1. UNCHANGED <<attempts, operation, cases, events, redrives, task, provider>>
  BY DEF renew_outbox_lease, LeaseTick, BackoffElapses
<1>2. ASSUME NEW c \in Commands, NEW ttl, NEW due,
             outbox' = [outbox EXCEPT ![c] = [outbox[c] EXCEPT !.lease_ttl = ttl, !.due = due]],
             outbox[c].status \in {"processing", "retry_scheduled"}, NEW d \in Commands
      PROVE  RowKept(d)
  <2>1. outbox[c] \in Row
    BY DEF TypeOK
  <2>2. d # c => outbox'[d] = outbox[d]
    BY <1>2 DEF TypeOK
  <2>3. outbox'[c] = [outbox[c] EXCEPT !.lease_ttl = ttl, !.due = due]
    BY <1>2 DEF TypeOK
  <2> QED
    BY <1>1, <1>2, <2>1, <2>2, <2>3 DEF RowKept, Row
<1>3. ASSUME NEW c \in Commands, NEW ttl, outbox' = [outbox EXCEPT ![c].lease_ttl = ttl],
             outbox[c].status = "processing"
      PROVE  \A d \in Commands : RowKept(d)
  <2>1. outbox' = [outbox EXCEPT ![c] =
                    [outbox[c] EXCEPT !.lease_ttl = ttl, !.due = outbox[c].due]]
    BY <1>3, Zenon DEF TypeOK, Row
  <2> QED
    BY <1>2, <1>3, <2>1, Zenon
<1>4. ASSUME NEW c \in Commands, outbox' = [outbox EXCEPT ![c].due = TRUE],
             outbox[c].status = "retry_scheduled"
      PROVE  \A d \in Commands : RowKept(d)
  <2>1. outbox' = [outbox EXCEPT ![c] =
                    [outbox[c] EXCEPT !.lease_ttl = outbox[c].lease_ttl, !.due = TRUE]]
    BY <1>4, Zenon DEF TypeOK, Row
  <2> QED
    BY <1>2, <1>4, <2>1, Zenon
<1>5. \A d \in Commands : RowKept(d)
  BY <1>3, <1>4 DEF renew_outbox_lease, LeaseTick, BackoffElapses, HoldsLease
<1> QED
  BY <1>1, <1>5 DEF CommandStep, AggregateKept

LEMMA CaseShape ==
  ASSUME TypeOK, NEW t \in Threads,
         OpenReviewCase(t) \/ \E i \in DOMAIN cases[t] : change_status(t, i)
  PROVE  (\A d \in Commands : CommandStep(d)) /\ CasesGrow
<1>1. \A d \in Commands : CommandStep(d)
  BY UntouchedCommand DEF OpenReviewCase, change_status
<1>2. cases[t] \in Seq(ReviewCase) /\ Len(cases[t]) \in Nat
      /\ DOMAIN cases[t] = 1..Len(cases[t])
  BY DEF TypeOK
<1>3. CASE OpenReviewCase(t)
  <2> DEFINE entry == [status |-> "active", delivery_failed |-> FALSE]
  <2>1. cases' = [cases EXCEPT ![t] = Append(cases[t], entry)] /\ entry \in ReviewCase
    BY <1>3 DEF OpenReviewCase, ReviewCase
  <2> HIDE DEF entry
  <2>2. \A i \in DOMAIN cases[t] :
          i \in DOMAIN Append(cases[t], entry) /\ Append(cases[t], entry)[i] = cases[t][i]
    BY <1>2, <2>1
  <2> QED
    BY <1>1, <2>1, <2>2 DEF TypeOK, CasesGrow
<1>4. ASSUME NEW i \in DOMAIN cases[t], change_status(t, i)
      PROVE  CasesGrow
  <2> DEFINE status == IF cases[t][i].status = "active" THEN "resolved" ELSE "active"
             entry == [cases[t][i] EXCEPT !.status = status]
  <2>1. cases[t][i] \in ReviewCase
    BY <1>2, EntryOf
  <2>2. entry.delivery_failed = cases[t][i].delivery_failed
    BY <2>1 DEF ReviewCase
  <2>3. cases' = [cases EXCEPT ![t] = [cases[t] EXCEPT ![i] = entry]]
    BY <1>4 DEF change_status
  <2> HIDE DEF entry
  <2> QED
    BY <2>2, <2>3 DEF TypeOK, CasesGrow
<1> QED
  BY <1>1, <1>3, <1>4

(* The step changes every command in one of the ways of CommandStep, and no  *)
(* review case disappears or loses its provider_delivery_failed mark.        *)
LEMMA StepShape ==
  ASSUME TypeOK, TasksConsistent, OperationFollowsCommand, TechnicalFailureHandedOff,
         [Next]_vars
  PROVE  (\A c \in Commands : CommandStep(c)) /\ CasesGrow
<1>1. ASSUME UNCHANGED database
      PROVE  (\A c \in Commands : CommandStep(c)) /\ CasesGrow
  BY <1>1, UntouchedCommand DEF database, CasesGrow
<1>2. ASSUME NEW w \in Workers, NEW c \in Commands, Deliver(w, c)
      PROVE  (\A d \in Commands : CommandStep(d)) /\ CasesGrow
  <2>1. CASE TaskOnly(w, c)
    BY <1>1, <2>1, TaskOnlyType
  <2>2. CASE accepted(w, c) \/ rejected(w, c)
    BY <2>2, FinalizedShape DEF CasesGrow
  <2>3. CASE schedule_outbox_retry(w, c) \/ terminal_failure(w, c)
    BY <2>3, FailureShape
  <2> QED
    BY <1>2, <2>1, <2>2, <2>3 DEF Deliver, TaskOnly
<1>3. ASSUME Claim \/ Recover
      PROVE  (\A d \in Commands : CommandStep(d)) /\ CasesGrow
  <2>1. CASE Claim
    <3>1. PICK w \in Workers, batch \in SUBSET Commands : claim_due_outbox(w, batch)
      BY <2>1 DEF Claim
    <3> QED
      BY <3>1, ClaimShape, Zenon DEF CasesGrow, claim_due_outbox
  <2> QED
    BY <1>3, <2>1, RecoverShape DEF Recover
<1>4. ASSUME NEW c \in Commands, NEW r \in Requests, redrive_outbox(c, r)
      PROVE  (\A d \in Commands : CommandStep(d)) /\ CasesGrow
  <2>1. cases' = cases
    BY <1>4 DEF redrive_outbox
  <2> QED
    BY <1>4, <2>1, RedriveShape DEF CasesGrow
<1>5. ASSUME \/ \E w \in Workers, c \in Commands : renew_outbox_lease(w, c)
             \/ \E c \in Commands : LeaseTick(c) \/ BackoffElapses(c)
      PROVE  (\A d \in Commands : CommandStep(d)) /\ CasesGrow
  BY <1>5, ClockShape DEF CasesGrow
<1>6. CASE UNCHANGED vars
  BY <1>1, <1>6 DEF vars
<1>7. CASE Next
  BY <1>1, <1>2, <1>3, <1>4, <1>5, <1>7, AdmissionShape, CaseShape
     DEF Next, WorkerCrash, ProviderDecides
<1> QED
  BY <1>6, <1>7

-----------------------------------------------------------------------------
(* The row of a command against its ledger. *)

(* LeaseLedger, AttemptBudget and RowConsistent of one command. *)
OpenIsLeased(row, ledger) ==
  /\ \A i \in DOMAIN ledger :
       ledger[i].outcome = "open" <=> row.status = "processing" /\ row.lease_id = i
  /\ row.status = "processing" => row.lease_id = Len(ledger)
  /\ row.attempts_in_cycle > 0 =>
       /\ Len(ledger) > 0
       /\ ledger[Len(ledger)].delivery_cycle = row.delivery_cycle
       /\ ledger[Len(ledger)].attempt_number = row.attempts_in_cycle

Increasing(ledger) ==
  \A j \in DOMAIN ledger :
    /\ ledger[j].attempt_number \in 1..MAX_ATTEMPTS
    /\ \A i \in 1..(j - 1) :
         \/ ledger[i].delivery_cycle < ledger[j].delivery_cycle
         \/ /\ ledger[i].delivery_cycle = ledger[j].delivery_cycle
            /\ ledger[i].attempt_number < ledger[j].attempt_number

Bounded(row, ledger) ==
  /\ row.delivery_cycle >= 1 /\ row.attempts_in_cycle <= MAX_ATTEMPTS
  /\ row.status # "processing" => row.lease_id = 0
  /\ row.status \in {"processing", "published", "dead"} => row.attempts_in_cycle >= 1
  /\ row.last_failure_kind = "provider_rejection" => row.status = "dead"
  /\ \A i \in DOMAIN ledger :
       \/ ledger[i].delivery_cycle < row.delivery_cycle
       \/ /\ ledger[i].delivery_cycle = row.delivery_cycle
          /\ ledger[i].attempt_number <= row.attempts_in_cycle

Evidence(row, ledger) ==
  row.status = "dead" /\ row.last_failure_kind # "provider_rejection" =>
    \/ /\ ledger[Len(ledger)].outcome = "terminal_failure"
       /\ ledger[Len(ledger)].failure_kind \in TECHNICAL_FAILURE_KINDS
    \/ /\ ledger[Len(ledger)].outcome = "lease_expired"
       /\ ledger[Len(ledger)].failure_kind = "none"
       /\ row.attempts_in_cycle = MAX_ATTEMPTS

RowInv(row, ledger) ==
  OpenIsLeased(row, ledger) /\ Increasing(ledger) /\ Bounded(row, ledger) /\ Evidence(row, ledger)

LEMMA RowClaimedInv ==
  ASSUME NEW row \in Row, NEW new \in Row, NEW ledger \in Seq(Attempt), NEW entry \in Attempt,
         RowInv(row, ledger),
         row.status \in {"pending", "retry_scheduled"}, new.status = "processing",
         row.attempts_in_cycle < MAX_ATTEMPTS,
         entry.delivery_cycle = row.delivery_cycle,
         entry.attempt_number = row.attempts_in_cycle + 1, entry.outcome = "open",
         new.delivery_cycle = row.delivery_cycle,
         new.attempts_in_cycle = row.attempts_in_cycle + 1,
         new.lease_id = Len(ledger) + 1, new.last_failure_kind = row.last_failure_kind
  PROVE  RowInv(new, Append(ledger, entry))
<1> DEFINE next == Append(ledger, entry)
           n == Len(ledger)
<1>1. /\ n \in Nat /\ DOMAIN ledger = 1..n
      /\ Len(next) = n + 1 /\ DOMAIN next = 1..(n + 1)
      /\ \A i \in 1..n : next[i] = ledger[i]
      /\ next[n + 1] = entry
  OBVIOUS
<1>2. \A i \in 1..n : /\ ledger[i].delivery_cycle \in Nat /\ ledger[i].attempt_number \in Nat
                      /\ ledger[i].outcome # "open"
  <2>1. \A i \in 1..n : ledger[i] \in Attempt
    BY <1>1, EntryOf
  <2> QED
    BY <1>1, <2>1, Zenon DEF Attempt, RowInv, OpenIsLeased
<1>3. /\ row.delivery_cycle \in Nat /\ row.attempts_in_cycle \in Nat
      /\ row.last_failure_kind # "provider_rejection"
  BY DEF Row, RowInv, Bounded
<1> HIDE DEF next, n
<1>4. OpenIsLeased(new, next)
  BY <1>1, <1>2, <1>3 DEF OpenIsLeased, n
<1>5. Increasing(next)
  <2> SUFFICES ASSUME NEW j \in 1..(n + 1)
               PROVE  /\ next[j].attempt_number \in 1..MAX_ATTEMPTS
                      /\ \A i \in 1..(j - 1) :
                           \/ next[i].delivery_cycle < next[j].delivery_cycle
                           \/ /\ next[i].delivery_cycle = next[j].delivery_cycle
                              /\ next[i].attempt_number < next[j].attempt_number
    BY <1>1 DEF Increasing
  <2>1. CASE j \in 1..n
    <3>1. \A i \in 1..(j - 1) : i \in 1..n
      BY <1>1, <2>1
    <3> QED
      BY <1>1, <2>1, <3>1, Zenon DEF RowInv, Increasing
  <2>2. CASE j = n + 1
    <3>1. \A i \in 1..(j - 1) : i \in 1..n
      BY <1>1, <2>2
    <3>2. entry.attempt_number \in 1..MAX_ATTEMPTS
      BY <1>3, MaxAttemptsPositive
    <3>3. \A i \in 1..n : \/ ledger[i].delivery_cycle < entry.delivery_cycle
                          \/ /\ ledger[i].delivery_cycle = entry.delivery_cycle
                             /\ ledger[i].attempt_number < entry.attempt_number
      BY <1>1, <1>2, <1>3 DEF RowInv, Bounded
    <3> QED
      BY <1>1, <2>2, <3>1, <3>2, <3>3
  <2> QED
    BY <1>1, <2>1, <2>2
<1>6. Bounded(new, next)
  <2>1. new.delivery_cycle >= 1 /\ new.attempts_in_cycle <= MAX_ATTEMPTS
        /\ new.attempts_in_cycle >= 1
    BY <1>3, MaxAttemptsPositive DEF RowInv, Bounded
  <2>2. \A i \in 1..(n + 1) :
          \/ next[i].delivery_cycle < new.delivery_cycle
          \/ /\ next[i].delivery_cycle = new.delivery_cycle
             /\ next[i].attempt_number <= new.attempts_in_cycle
    <3>1. \A i \in 1..n :
            \/ ledger[i].delivery_cycle < new.delivery_cycle
            \/ /\ ledger[i].delivery_cycle = new.delivery_cycle
               /\ ledger[i].attempt_number <= new.attempts_in_cycle
      BY <1>1, <1>2, <1>3 DEF RowInv, Bounded
    <3>2. entry.delivery_cycle = new.delivery_cycle
          /\ entry.attempt_number <= new.attempts_in_cycle
      BY <1>3
    <3>3. \A i \in 1..(n + 1) : i \in 1..n \/ i = n + 1
      BY <1>1
    <3> QED
      BY <1>1, <3>1, <3>2, <3>3
  <2> QED
    BY <1>1, <1>3, <2>1, <2>2 DEF Bounded
<1>7. Evidence(new, next)
  BY DEF Evidence
<1> QED
  BY <1>4, <1>5, <1>6, <1>7 DEF RowInv, next

LEMMA RowClosedInv ==
  ASSUME NEW row \in Row, NEW new \in Row, NEW ledger \in Seq(Attempt),
         NEW target, target # "processing", NEW outcome, outcome # "open", NEW kind,
         RowInv(row, ledger), row.status = "processing", new.status = target,
         row.lease_id \in DOMAIN ledger,
         new.delivery_cycle = row.delivery_cycle,
         new.attempts_in_cycle = row.attempts_in_cycle, new.lease_id = 0,
         new.last_failure_kind = IF kind = "none" THEN row.last_failure_kind ELSE kind,
         target = "dead" \/ kind # "provider_rejection",
         target = "dead" => \/ kind = "provider_rejection"
                            \/ outcome = "terminal_failure" /\ kind \in TECHNICAL_FAILURE_KINDS
                            \/ /\ outcome = "lease_expired" /\ kind = "none"
                               /\ row.attempts_in_cycle = MAX_ATTEMPTS
  PROVE  RowInv(new, FinishAttempt(ledger, row.lease_id, outcome, kind))
<1> DEFINE next == FinishAttempt(ledger, row.lease_id, outcome, kind)
           n == Len(ledger)
<1>1. /\ n \in Nat /\ DOMAIN ledger = 1..n /\ Len(next) = n /\ DOMAIN next = 1..n
      /\ next[row.lease_id].outcome = outcome /\ next[row.lease_id].failure_kind = kind
      /\ \A i \in 1..n : /\ next[i].delivery_cycle = ledger[i].delivery_cycle
                         /\ next[i].attempt_number = ledger[i].attempt_number
                         /\ i # row.lease_id => next[i] = ledger[i]
  <2>1. n \in Nat /\ DOMAIN ledger = 1..n
    OBVIOUS
  <2> HIDE DEF n
  <2>2. PICK lease \in DOMAIN ledger : lease = row.lease_id
    OBVIOUS
  <2>3. next = FinishAttempt(ledger, lease, outcome, kind)
    BY <2>2
  <2> HIDE DEF next
  <2>4. /\ Len(next) = Len(ledger) /\ DOMAIN next = DOMAIN ledger
        /\ next[lease].outcome = outcome /\ next[lease].failure_kind = kind
        /\ \A j \in DOMAIN ledger :
             /\ next[j].delivery_cycle = ledger[j].delivery_cycle
             /\ next[j].attempt_number = ledger[j].attempt_number
             /\ j # lease => next[j] = ledger[j]
    BY <2>3, FinishAttemptShape
  <2> QED
    BY <2>1, <2>2, <2>4 DEF n
<1>2. row.lease_id = n /\ n > 0
  BY <1>1 DEF RowInv, OpenIsLeased
<1>3. row.delivery_cycle \in Nat /\ row.attempts_in_cycle \in Nat
      /\ row.last_failure_kind # "provider_rejection"
  BY DEF Row, RowInv, Bounded
<1> HIDE DEF next, n
<1>4. OpenIsLeased(new, next)
  <2>1. \A i \in 1..n : next[i].outcome # "open"
    BY <1>1, <1>2 DEF RowInv, OpenIsLeased
  <2>2. /\ row.attempts_in_cycle > 0 =>
             /\ ledger[n].delivery_cycle = row.delivery_cycle
             /\ ledger[n].attempt_number = row.attempts_in_cycle
    BY DEF RowInv, OpenIsLeased, n
  <2> QED
    BY <1>1, <1>2, <2>1, <2>2 DEF OpenIsLeased
<1>5. Increasing(next)
  <2>1. \A j \in 1..n : \A i \in 1..(j - 1) : i \in 1..n
    BY <1>1
  <2> QED
    BY <1>1, <2>1 DEF RowInv, Increasing
<1>6. Bounded(new, next)
  BY <1>1, <1>3 DEF RowInv, Bounded
<1>7. Evidence(new, next)
  BY <1>1, <1>2, <1>3 DEF Evidence
<1> QED
  BY <1>4, <1>5, <1>6, <1>7 DEF RowInv, next

LEMMA RowRedrivenInv ==
  ASSUME NEW row \in Row, NEW new \in Row, NEW ledger \in Seq(Attempt),
         RowInv(row, ledger), row.status = "dead", new.status = "retry_scheduled",
         new.delivery_cycle = row.delivery_cycle + 1, new.attempts_in_cycle = 0,
         new.lease_id = 0, new.last_failure_kind = "none"
  PROVE  RowInv(new, ledger)
<1>1. /\ row.delivery_cycle \in Nat /\ Len(ledger) \in Nat /\ DOMAIN ledger = 1..Len(ledger)
      /\ \A i \in DOMAIN ledger : ledger[i].delivery_cycle \in Nat
  <2>1. \A i \in DOMAIN ledger : ledger[i] \in Attempt
    BY EntryOf
  <2> QED
    BY <2>1 DEF Row, Attempt
<1>2. OpenIsLeased(new, ledger)
  BY DEF RowInv, OpenIsLeased
<1>3. Bounded(new, ledger)
  BY <1>1, MaxAttemptsPositive DEF RowInv, Bounded
<1> QED
  BY <1>2, <1>3 DEF RowInv, Evidence

LEMMA RowStep ==
  ASSUME TypeOK, TypeOK', NEW c \in Commands, CommandStep(c),
         RowInv(outbox[c], attempts[c])
  PROVE  RowInv(outbox'[c], attempts'[c])
<1>1. /\ outbox[c] \in Row /\ outbox'[c] \in Row
      /\ attempts[c] \in Seq(Attempt) /\ attempts'[c] \in Seq(Attempt)
  BY DEF TypeOK
<1>2. CASE RowKept(c)
  BY <1>2 DEF RowKept, RowInv, OpenIsLeased, Bounded, Evidence
<1>3. CASE RowEnqueued(c)
  BY <1>3 DEF RowEnqueued, RowInv, OpenIsLeased, Bounded, Evidence
<1>4. ASSUME NEW entry \in Attempt, RowClaimed(c, entry)
      PROVE  RowInv(outbox'[c], attempts'[c])
  BY <1>1, <1>4, RowClaimedInv DEF RowClaimed
<1>5. ASSUME NEW target, target # "processing", NEW outcome, outcome # "open", NEW kind,
             RowClosed(c, target, outcome, kind),
             target = "dead" \/ kind # "provider_rejection",
             target = "dead" =>
               \/ kind = "provider_rejection"
               \/ outcome = "terminal_failure" /\ kind \in TECHNICAL_FAILURE_KINDS
               \/ /\ outcome = "lease_expired" /\ kind = "none"
                  /\ outbox[c].attempts_in_cycle = MAX_ATTEMPTS
      PROVE  RowInv(outbox'[c], attempts'[c])
  BY <1>1, <1>5, RowClosedInv, Zenon DEF RowClosed
<1>6. CASE RowRedriven(c)
  BY <1>1, <1>6, RowRedrivenInv DEF RowRedriven
<1>7. /\ "provider_rejection" \in FailureKinds /\ TECHNICAL_FAILURE_KINDS \subseteq FailureKinds
      /\ "provider_rejection" \notin TECHNICAL_FAILURE_KINDS
  BY DEF FailureKinds, TECHNICAL_FAILURE_KINDS, RETRYABLE_FAILURE_KINDS
<1>8. outbox[c].attempts_in_cycle >= MAX_ATTEMPTS =>
        outbox[c].attempts_in_cycle = MAX_ATTEMPTS
  BY <1>1, MaxAttemptsPositive DEF RowInv, Bounded, Row
<1>9. CASE RowClosed(c, "published", "accepted", "none")
  BY <1>5, <1>9
<1>10. CASE RowClosed(c, "dead", "provider_rejected", "provider_rejection")
  BY <1>5, <1>7, <1>10
<1>11. CASE \E kind \in TECHNICAL_FAILURE_KINDS : RowClosed(c, "dead", "terminal_failure", kind)
  BY <1>5, <1>7, <1>11
<1>12. CASE \E kind \in TECHNICAL_FAILURE_KINDS :
              RowClosed(c, "retry_scheduled", "retry_scheduled", kind)
  BY <1>5, <1>7, <1>12
<1>13. CASE RowClosed(c, "retry_scheduled", "lease_expired", "none")
  BY <1>5, <1>13
<1>14. CASE /\ RowClosed(c, "dead", "lease_expired", "none")
            /\ outbox[c].attempts_in_cycle >= MAX_ATTEMPTS
  BY <1>5, <1>8, <1>14
<1> QED
  BY <1>2, <1>3, <1>4, <1>6, <1>9, <1>10, <1>11, <1>12, <1>13, <1>14 DEF CommandStep

-----------------------------------------------------------------------------
(* The command, its operation and the Provider. *)

(* OperationFollowsCommand and ProviderAgreement of one command. *)
Agrees(c) ==
  /\ c \in Operations =>
       /\ outbox[c].status \in {"pending", "processing", "retry_scheduled"} <=>
            operation[c].status = "queued"
       /\ operation[c].status \in {"submitted", "processing", "completed"} =>
            outbox[c].status = "published"
       /\ outbox[c].status = "published" =>
            operation[c].status \in {"submitted", "processing", "completed", "rejected"}
       /\ outbox[c].status = "dead" =>
            operation[c].status = IF outbox[c].last_failure_kind = "provider_rejection"
                                  THEN "rejected" ELSE "manual_review"
  /\ outbox[c].status = "published" => provider[c] = "accepted"
  /\ outbox[c].last_failure_kind = "provider_rejection" => provider[c] = "rejected"

(* The Provider's decision, once made, stays. *)
LEMMA DecisionKept ==
  ASSUME TypeOK, [Next]_vars, NEW c \in Commands, provider[c] # "none"
  PROVE  provider'[c] = provider[c]
<1>1. CASE provider' = provider
  BY <1>1
<1>2. ASSUME NEW d \in Commands, ProviderDecides(d)
      PROVE  provider'[c] = provider[c]
  BY <1>2 DEF ProviderDecides, TypeOK
<1>3. provider' = provider \/ \E d \in Commands : ProviderDecides(d)
  <2>1. CASE UNCHANGED vars
    BY <2>1 DEF vars
  <2>2. ASSUME NEW w \in Workers, NEW d \in Commands,
               Deliver(w, d) \/ renew_outbox_lease(w, d)
        PROVE  provider' = provider
    BY <2>2, Zenon DEF Deliver, renew_outbox_lease, send_command, ConnectionUnusable,
         ProviderAnswers, RequestFails, RenewalRefused, accepted, rejected,
         FinalizerRaises, schedule_outbox_retry, terminal_failure, LeaseConflict,
         HandlingRaises, CloseCommand
  <2>3. ASSUME Claim \/ Recover PROVE provider' = provider
    BY <2>3, Zenon DEF Claim, Recover, claim_due_outbox, recover_expired_outbox_leases
  <2>4. CASE Next
    BY <2>2, <2>3, <2>4, Zenon DEF Next, WorkerCrash, Enqueue, LeaseTick, BackoffElapses,
         move_to_manual_review, ApplyCallback, redrive_outbox, OpenReviewCase, change_status
  <2> QED
    BY <2>1, <2>4
<1> QED
  BY <1>1, <1>2, <1>3

LEMMA AgreementStep ==
  ASSUME TypeOK, [Next]_vars, NEW c \in Commands, CommandStep(c), Agrees(c),
         RowInv(outbox[c], attempts[c])
  PROVE  Agrees(c)'
<1> USE DEF Agrees
<1>1. provider[c] # "none" => provider'[c] = provider[c]
  BY DecisionKept
<1>2. outbox[c].last_failure_kind = "provider_rejection" => outbox[c].status = "dead"
  BY DEF RowInv, Bounded
<1>3. CASE RowKept(c) /\ AggregateKept(c)
  BY <1>1, <1>3 DEF RowKept, AggregateKept
<1>4. CASE RowEnqueued(c) /\ StatusSet(c, {"pending_confirmation"}, "queued")
  BY <1>1, <1>2, <1>4 DEF RowEnqueued, StatusSet
<1>5. CASE RowKept(c) /\ c \in Operations /\ outbox[c].status = "absent" /\ UnderReview(c)
  BY <1>1, <1>2, <1>5 DEF RowKept, UnderReview
<1>6. CASE /\ RowKept(c) /\ c \in Operations /\ outbox[c].status = "published"
           /\ operation'[c].status \in CallbackTargets(operation[c].status)
  <2>1. operation'[c].status \in {"processing", "completed", "rejected"}
    BY <1>6 DEF CallbackTargets
  <2> QED
    BY <1>1, <1>2, <1>6, <2>1 DEF RowKept
<1>7. CASE \E entry \in Attempt : RowClaimed(c, entry) /\ AggregateKept(c)
  BY <1>1, <1>2, <1>7 DEF RowClaimed, AggregateKept
<1>8. CASE /\ RowClosed(c, "published", "accepted", "none") /\ provider[c] = "accepted"
           /\ StatusSet(c, {"queued"}, "submitted")
  BY <1>1, <1>2, <1>8 DEF RowClosed, StatusSet
<1>9. CASE /\ RowClosed(c, "dead", "provider_rejected", "provider_rejection")
           /\ provider[c] = "rejected" /\ StatusSet(c, {"queued"}, "rejected")
  BY <1>1, <1>9 DEF RowClosed, StatusSet
<1>10. CASE /\ \E kind \in TECHNICAL_FAILURE_KINDS :
                 RowClosed(c, "dead", "terminal_failure", kind)
            /\ c \in Operations => UnderReview(c)
  BY <1>10 DEF RowClosed, UnderReview, TECHNICAL_FAILURE_KINDS, RETRYABLE_FAILURE_KINDS
<1>11. CASE /\ \E kind \in TECHNICAL_FAILURE_KINDS :
                 RowClosed(c, "retry_scheduled", "retry_scheduled", kind)
            /\ AggregateKept(c)
  BY <1>11 DEF RowClosed, AggregateKept, TECHNICAL_FAILURE_KINDS, RETRYABLE_FAILURE_KINDS
<1>12. CASE RowClosed(c, "retry_scheduled", "lease_expired", "none") /\ AggregateKept(c)
  BY <1>2, <1>12 DEF RowClosed, AggregateKept
<1>13. CASE /\ RowClosed(c, "dead", "lease_expired", "none")
            /\ c \in Operations => UnderReview(c)
  BY <1>2, <1>13 DEF RowClosed, UnderReview
<1>14. CASE RowRedriven(c) /\ (c \in Operations => operation'[c].status = "queued")
  BY <1>14 DEF RowRedriven
<1> QED
  <2> HIDE DEF Agrees
  <2> QED
    BY <1>3, <1>4, <1>5, <1>6, <1>7, <1>8, <1>9, <1>10, <1>11, <1>12, <1>13, <1>14
       DEF CommandStep

-----------------------------------------------------------------------------
(* What the workers hold. *)

TaskInv(w, c) ==
  task[w][c].stage # "idle" =>
    /\ task[w][c].lease_id \in DOMAIN attempts[c]
    /\ attempts[c][task[w][c].lease_id].worker_id = w
    /\ task[w][c].stage \in {"accepted", "rejected"} => provider[c] = task[w][c].stage
    /\ task[w][c].stage = "failed" => task[w][c].kind \in TECHNICAL_FAILURE_KINDS

(* A step leaves a task alone, ends it, lets it progress under its lease, or *)
(* starts it with the lease of a new attempt of its worker.                  *)
TaskStep(w, c) ==
  \/ task'[w][c] = task[w][c]
  \/ task'[w][c].stage = "idle"
  \/ /\ task[w][c].stage # "idle"
     /\ task'[w][c].lease_id = task[w][c].lease_id
     /\ task'[w][c].stage \in {"accepted", "rejected"} => provider[c] = task'[w][c].stage
     /\ task'[w][c].stage = "failed" => task'[w][c].kind \in TECHNICAL_FAILURE_KINDS
  \/ /\ task'[w][c].stage = "claimed"
     /\ task'[w][c].lease_id = Len(attempts[c]) + 1
     /\ \E entry \in Attempt : entry.worker_id = w /\ attempts'[c] = Append(attempts[c], entry)

LEMMA LedgerGrows ==
  ASSUME TypeOK, NEW c \in Commands, CommandStep(c)
  PROVE  \A i \in DOMAIN attempts[c] :
           i \in DOMAIN attempts'[c] /\ attempts'[c][i].worker_id = attempts[c][i].worker_id
<1>1. attempts[c] \in Seq(Attempt)
  BY DEF TypeOK
<1>2. CASE attempts'[c] = attempts[c]
  BY <1>2
<1>3. CASE \E entry \in Attempt : attempts'[c] = Append(attempts[c], entry)
  BY <1>1, <1>3
<1>4. ASSUME NEW target, NEW outcome, NEW kind, RowClosed(c, target, outcome, kind)
      PROVE  \A i \in DOMAIN attempts[c] :
               i \in DOMAIN attempts'[c] /\ attempts'[c][i].worker_id = attempts[c][i].worker_id
  BY <1>1, <1>4, FinishAttemptShape DEF RowClosed
<1> QED
  BY <1>2, <1>3, <1>4, Zenon DEF CommandStep, RowKept, RowEnqueued, RowClaimed, RowRedriven

LEMMA DeliverTask ==
  ASSUME TypeOK, NEW w \in Workers, NEW c \in Commands, Deliver(w, c)
  PROVE  \A v \in Workers, d \in Commands : TaskStep(v, d)
<1>1. ASSUME EndTask(w, c) PROVE \A v \in Workers, d \in Commands : TaskStep(v, d)
  BY <1>1, EndTaskType DEF TaskStep, Idle
<1>2. ASSUME NEW stage \in {"sending", "accepted", "rejected", "failed"},
             NEW kind \in FailureKinds \cup {"none"}, SetTask(w, c, stage, kind),
             task[w][c].stage # "idle",
             stage \in {"accepted", "rejected"} => provider[c] = stage,
             stage = "failed" => kind \in TECHNICAL_FAILURE_KINDS
      PROVE  \A v \in Workers, d \in Commands : TaskStep(v, d)
  <2>1. /\ task'[w][c].stage = stage /\ task'[w][c].kind = kind
        /\ task'[w][c].lease_id = task[w][c].lease_id
        /\ \A v \in Workers, d \in Commands : v # w \/ d # c => task'[v][d] = task[v][d]
    BY <1>2, SetTaskType
  <2> QED
    BY <1>2, <2>1 DEF TaskStep
<1>3. /\ "validation_error" \in TECHNICAL_FAILURE_KINDS
      /\ TECHNICAL_FAILURE_KINDS \subseteq FailureKinds
  BY DEF TECHNICAL_FAILURE_KINDS, FailureKinds
<1>4. CASE send_command(w, c)
  BY <1>2, <1>4 DEF send_command
<1>5. CASE ConnectionUnusable(w, c) \/ FinalizerRaises(w, c)
  BY <1>2, <1>3, <1>5 DEF ConnectionUnusable, FinalizerRaises
<1>6. CASE ProviderAnswers(w, c)
  <2>1. provider[c] \in {"accepted", "rejected"}
    BY <1>6 DEF TypeOK, ProviderAnswers
  <2> QED
    BY <1>2, <1>6, <2>1 DEF ProviderAnswers
<1>7. CASE RequestFails(w, c)
  BY <1>2, <1>3, <1>7, KindsTechnical DEF RequestFails
<1> QED
  BY <1>1, <1>4, <1>5, <1>6, <1>7, Zenon DEF Deliver, RenewalRefused, LeaseConflict,
     HandlingRaises, accepted, rejected, schedule_outbox_retry, terminal_failure, CloseCommand

LEMMA TasksStep ==
  ASSUME TypeOK, [Next]_vars
  PROVE  \A v \in Workers, d \in Commands : TaskStep(v, d)
<1>1. ASSUME task' = task PROVE \A v \in Workers, d \in Commands : TaskStep(v, d)
  BY <1>1 DEF TaskStep
<1>2. ASSUME NEW w \in Workers, NEW batch \in SUBSET Commands, claim_due_outbox(w, batch),
             NEW v \in Workers, NEW d \in Commands
      PROVE  TaskStep(v, d)
  <2>1. v # w => task'[v][d] = task[v][d]
    BY <1>2, Zenon DEF claim_due_outbox, TypeOK
  <2>2. CASE v = w /\ d \notin batch
    BY <1>2, <2>2, Zenon DEF claim_due_outbox, TypeOK, TaskStep, Idle
  <2>3. CASE v = w /\ d \in batch
    <3> DEFINE entry == [delivery_cycle |-> outbox[d].delivery_cycle,
                         attempt_number |-> outbox[d].attempts_in_cycle + 1,
                         worker_id |-> w, outcome |-> "open", failure_kind |-> "none"]
    <3>1. entry \in Attempt /\ entry.worker_id = v
      BY <2>3 DEF Attempt, TypeOK, Row
    <3>2. attempts'[d] = Append(attempts[d], entry)
      BY <1>2, <2>3, Zenon DEF claim_due_outbox
    <3>3. task'[v][d] = [stage |-> "claimed", lease_id |-> Len(attempts[d]) + 1, kind |-> "none"]
      BY <1>2, <2>3, Zenon DEF claim_due_outbox, TypeOK
    <3> HIDE DEF entry
    <3> QED
      BY <3>1, <3>2, <3>3 DEF TaskStep
  <2> QED
    BY <2>1, <2>2, <2>3 DEF TaskStep
<1>3. ASSUME NEW w \in Workers, WorkerCrash(w)
      PROVE  \A v \in Workers, d \in Commands : TaskStep(v, d)
  BY <1>3 DEF WorkerCrash, TypeOK, TaskStep, Idle
<1>4. CASE UNCHANGED vars
  BY <1>1, <1>4 DEF vars
<1>5. CASE Next
  BY <1>1, <1>2, <1>3, <1>5, DeliverTask, Zenon DEF Next, Claim, Recover,
     recover_expired_outbox_leases, renew_outbox_lease, Enqueue, ProviderDecides,
     LeaseTick, BackoffElapses, move_to_manual_review, ApplyCallback, redrive_outbox,
     OpenReviewCase, change_status
<1> QED
  BY <1>4, <1>5

LEMMA TaskInvStep ==
  ASSUME TypeOK, [Next]_vars, NEW w \in Workers, NEW c \in Commands, CommandStep(c),
         TaskInv(w, c)
  PROVE  TaskInv(w, c)'
<1>1. provider[c] # "none" => provider'[c] = provider[c]
  BY DecisionKept
<1>2. TaskStep(w, c)
  BY TasksStep
<1>3. \A i \in DOMAIN attempts[c] :
        i \in DOMAIN attempts'[c] /\ attempts'[c][i].worker_id = attempts[c][i].worker_id
  BY LedgerGrows
<1>4. CASE task'[w][c] = task[w][c]
  BY <1>1, <1>3, <1>4 DEF TaskInv
<1>5. CASE task'[w][c].stage = "idle"
  BY <1>5 DEF TaskInv
<1>6. CASE /\ task[w][c].stage # "idle"
           /\ task'[w][c].lease_id = task[w][c].lease_id
           /\ task'[w][c].stage \in {"accepted", "rejected"} => provider[c] = task'[w][c].stage
           /\ task'[w][c].stage = "failed" => task'[w][c].kind \in TECHNICAL_FAILURE_KINDS
  BY <1>1, <1>3, <1>6 DEF TaskInv
<1>7. CASE /\ task'[w][c].stage = "claimed"
           /\ task'[w][c].lease_id = Len(attempts[c]) + 1
           /\ \E entry \in Attempt :
                entry.worker_id = w /\ attempts'[c] = Append(attempts[c], entry)
  <2>1. attempts[c] \in Seq(Attempt)
    BY DEF TypeOK
  <2>2. task'[w][c].lease_id \in DOMAIN attempts'[c]
        /\ attempts'[c][task'[w][c].lease_id].worker_id = w
    BY <1>7, <2>1
  <2> QED
    BY <1>7, <2>2 DEF TaskInv
<1> QED
  BY <1>2, <1>4, <1>5, <1>6, <1>7 DEF TaskStep

-----------------------------------------------------------------------------
(* Events, review cases and cycles. *)

(* EventsConsistent of one command. *)
EventsBehind(c) ==
  \A e \in events[c] :
    \/ e.cycle < outbox[c].delivery_cycle
    \/ /\ e.cycle = outbox[c].delivery_cycle
       /\ outbox[c].status \in {"published", "dead"}

ConcludedCycles(c) ==
  IF outbox[c].status \in {"published", "dead"}
  THEN outbox[c].delivery_cycle ELSE outbox[c].delivery_cycle - 1

(* OneEventPerCycle of one operation. *)
EventInv(c) ==
  /\ \A e, f \in events[c] : e.cycle = f.cycle => e = f
  /\ {e.cycle : e \in events[c]} = 1..ConcludedCycles(c)
  /\ \A e \in events[c] :
       /\ e.cycle < outbox[c].delivery_cycle => e.status = "manual_review"
       /\ ~(e.cycle < outbox[c].delivery_cycle) =>
            e.status = IF outbox[c].status = "published" THEN "submitted"
                       ELSE operation[c].status

(* How a command's events and cycle change. *)
EventStep(c) ==
  \/ /\ events'[c] = events[c] /\ outbox'[c].delivery_cycle = outbox[c].delivery_cycle
     /\ outbox[c].status \in {"published", "dead"} <=> outbox'[c].status \in {"published", "dead"}
     /\ outbox[c].status = "published" <=> outbox'[c].status = "published"
     /\ c \in Operations /\ outbox[c].status = "dead" => operation'[c].status = operation[c].status
  \/ \E status : 
       /\ EventAdded(c, status) /\ outbox'[c].delivery_cycle = outbox[c].delivery_cycle
       /\ outbox[c].status = "processing" /\ outbox'[c].status \in {"published", "dead"}
       /\ c \in Operations =>
            status = IF outbox'[c].status = "published" THEN "submitted" ELSE operation'[c].status
  \/ /\ c \notin Operations /\ events'[c] = events[c]
     /\ outbox'[c].delivery_cycle = outbox[c].delivery_cycle
     /\ outbox[c].status = "processing" /\ outbox'[c].status = "dead"
  \/ /\ events'[c] = events[c]
     /\ outbox'[c].delivery_cycle = outbox[c].delivery_cycle + 1
     /\ outbox[c].status = "dead" /\ outbox'[c].status = "retry_scheduled"
     /\ c \in Operations => operation[c].status = "manual_review"

LEMMA EventShape ==
  ASSUME TypeOK, NEW c \in Commands, CommandStep(c)
  PROVE  EventStep(c)
<1>1. CASE \/ RowKept(c) /\ AggregateKept(c)
           \/ /\ RowEnqueued(c) /\ events'[c] = events[c]
           \/ RowKept(c) /\ outbox[c].status \in {"absent", "published"} /\ events'[c] = events[c]
           \/ \E entry \in Attempt : RowClaimed(c, entry) /\ AggregateKept(c)
  BY <1>1 DEF EventStep, RowKept, AggregateKept, RowEnqueued, RowClaimed
<1>2. ASSUME NEW kind, NEW outcome, AggregateKept(c),
             RowClosed(c, "retry_scheduled", outcome, kind)
      PROVE  EventStep(c)
  BY <1>2 DEF EventStep, RowClosed, AggregateKept
<1>3. CASE /\ RowClosed(c, "published", "accepted", "none")
           /\ EventAdded(c, OperationStatus(c, "submitted", "accepted"))
  BY <1>3 DEF EventStep, RowClosed, OperationStatus
<1>4. CASE /\ RowClosed(c, "dead", "provider_rejected", "provider_rejection")
           /\ StatusSet(c, {"queued"}, "rejected") /\ EventAdded(c, "rejected")
  BY <1>4 DEF EventStep, RowClosed, StatusSet
<1>5. ASSUME NEW kind, RowClosed(c, "dead", "terminal_failure", kind),
             c \in Operations => UnderReview(c),
             EventAdded(c, OperationStatus(c, "manual_review", "rejected"))
      PROVE  EventStep(c)
  BY <1>5 DEF EventStep, RowClosed, UnderReview, OperationStatus
<1>6. CASE /\ RowClosed(c, "dead", "lease_expired", "none")
           /\ c \in Operations => UnderReview(c) /\ EventAdded(c, "manual_review")
           /\ c \notin Operations => events'[c] = events[c]
  BY <1>6 DEF EventStep, RowClosed, UnderReview
<1>7. CASE /\ RowRedriven(c) /\ events'[c] = events[c]
           /\ c \in Operations => operation[c].status = "manual_review"
  BY <1>7 DEF EventStep, RowRedriven
<1> QED
  BY <1>1, <1>2, <1>3, <1>4, <1>5, <1>6, <1>7 DEF CommandStep

LEMMA EventsBehindStep ==
  ASSUME TypeOK, NEW c \in Commands, EventStep(c), EventsBehind(c)
  PROVE  EventsBehind(c)'
<1>1. /\ outbox[c].delivery_cycle \in Nat
      /\ \A e \in events[c] : e.cycle \in Nat
  BY DEF TypeOK, Row, Event
<1>2. ASSUME NEW status, EventAdded(c, status),
             outbox'[c].delivery_cycle = outbox[c].delivery_cycle,
             outbox[c].status = "processing", outbox'[c].status \in {"published", "dead"}
      PROVE  EventsBehind(c)'
  <2>1. ASSUME NEW e \in events'[c]
        PROVE  e \in events[c] \/ e.cycle = outbox[c].delivery_cycle
    BY <1>2 DEF EventAdded
  <2> QED
    BY <1>1, <1>2, <2>1 DEF EventsBehind
<1>3. CASE /\ events'[c] = events[c]
           /\ outbox'[c].delivery_cycle = outbox[c].delivery_cycle
           /\ outbox[c].status \in {"published", "dead"} =>
                outbox'[c].status \in {"published", "dead"}
  BY <1>3 DEF EventsBehind
<1>4. CASE /\ events'[c] = events[c]
           /\ outbox'[c].delivery_cycle = outbox[c].delivery_cycle + 1
  BY <1>1, <1>4 DEF EventsBehind
<1> QED
  BY <1>2, <1>3, <1>4 DEF EventStep

LEMMA EventInvStep ==
  ASSUME TypeOK, NEW c \in Operations, EventStep(c), EventsBehind(c), EventInv(c),
         outbox[c].delivery_cycle >= 1
  PROVE  EventInv(c)'
<1> DEFINE d == outbox[c].delivery_cycle
<1>1. /\ d \in Nat /\ d >= 1
      /\ \A e \in events[c] : e.cycle \in Nat /\ e.cycle <= d
  <2>1. c \in Commands
    BY DEF Commands
  <2>2. outbox[c] \in Row /\ events[c] \subseteq Event
    BY <2>1 DEF TypeOK
  <2>3. d \in Nat /\ \A e \in events[c] : e.cycle \in Nat
    BY <2>2 DEF Row, Event
  <2> QED
    BY <2>3 DEF EventsBehind
<1>2. CASE /\ events'[c] = events[c] /\ outbox'[c].delivery_cycle = outbox[c].delivery_cycle
           /\ outbox[c].status \in {"published", "dead"} <=>
                outbox'[c].status \in {"published", "dead"}
           /\ outbox[c].status = "published" <=> outbox'[c].status = "published"
           /\ outbox[c].status = "dead" => operation'[c].status = operation[c].status
  <2>1. ConcludedCycles(c)' = ConcludedCycles(c)
    BY <1>2 DEF ConcludedCycles
  <2>2. ASSUME NEW e \in events[c]
        PROVE  /\ e.cycle < outbox'[c].delivery_cycle => e.status = "manual_review"
               /\ ~(e.cycle < outbox'[c].delivery_cycle) =>
                    e.status = IF outbox'[c].status = "published" THEN "submitted"
                               ELSE operation'[c].status
    BY <1>1, <1>2 DEF EventInv, EventsBehind
  <2> QED
    BY <1>2, <2>1, <2>2 DEF EventInv
<1>3. ASSUME NEW status, EventAdded(c, status),
             outbox'[c].delivery_cycle = d, outbox[c].status = "processing",
             outbox'[c].status \in {"published", "dead"},
             status = IF outbox'[c].status = "published" THEN "submitted"
                      ELSE operation'[c].status
      PROVE  EventInv(c)'
  <2> DEFINE new == [cycle |-> d, status |-> status]
  <2>1. events'[c] = events[c] \cup {new} /\ new.cycle = d /\ new.status = status
    BY <1>3 DEF EventAdded
  <2>2. \A e \in events[c] : e.cycle < d
    BY <1>1, <1>3 DEF EventsBehind
  <2>3. {e.cycle : e \in events[c]} = 1..(d - 1)
    BY <1>3 DEF EventInv, ConcludedCycles
  <2>4. ConcludedCycles(c)' = d
    BY <1>3 DEF ConcludedCycles
  <2>5. \A e \in events[c] : e.status = "manual_review"
    BY <1>1, <2>2 DEF EventInv
  <2> HIDE DEF new, d
  <2>6. {e.cycle : e \in events'[c]} = 1..d
    <3>1. {e.cycle : e \in events'[c]} = {e.cycle : e \in events[c]} \cup {d}
      BY <2>1
    <3>2. (1..(d - 1)) \cup {d} = 1..d
      BY <1>1
    <3> QED
      BY <2>3, <3>1, <3>2
  <2>7. \A e, f \in events'[c] : e.cycle = f.cycle => e = f
    <3>1. \A e, f \in events[c] : e.cycle = f.cycle => e = f
      BY DEF EventInv
    <3>2. \A e \in events[c] : e.cycle # new.cycle
      BY <1>1, <2>1, <2>2
    <3> QED
      BY <2>1, <3>1, <3>2
  <2>8. ASSUME NEW e \in events'[c]
        PROVE  /\ e.cycle < outbox'[c].delivery_cycle => e.status = "manual_review"
               /\ ~(e.cycle < outbox'[c].delivery_cycle) =>
                    e.status = IF outbox'[c].status = "published" THEN "submitted"
                               ELSE operation'[c].status
    <3>1. CASE e \in events[c]
      BY <1>3, <2>2, <2>5, <3>1
    <3>2. CASE e = new
      BY <1>1, <1>3, <2>1, <3>2
    <3> QED
      BY <2>1, <3>1, <3>2
  <2> QED
    BY <2>4, <2>6, <2>7, <2>8 DEF EventInv
<1>4. CASE /\ events'[c] = events[c] /\ outbox'[c].delivery_cycle = d + 1
           /\ outbox[c].status = "dead" /\ outbox'[c].status = "retry_scheduled"
           /\ operation[c].status = "manual_review"
  <2>1. ConcludedCycles(c)' = d /\ ConcludedCycles(c) = d
    BY <1>1, <1>4 DEF ConcludedCycles
  <2>2. \A e \in events[c] : e.status = "manual_review" /\ e.cycle < outbox'[c].delivery_cycle
    BY <1>1, <1>4 DEF EventInv
  <2> QED
    BY <1>4, <2>1, <2>2 DEF EventInv
<1> QED
  BY <1>2, <1>3, <1>4 DEF EventStep

(* TechnicalFailureHandedOff of one operation. *)
HandedOff(c) ==
  /\ operation[c].requires_manual_review <=> operation[c].status = "manual_review"
  /\ operation[c].status = "manual_review" =>
       /\ operation[c].support_case_id \in DOMAIN cases[ThreadOf[c]]
       /\ cases[ThreadOf[c]][operation[c].support_case_id].delivery_failed
  /\ operation[c].status # "manual_review" => operation[c].support_case_id = 0

LEMMA HandedOffStep ==
  ASSUME TypeOK, NEW c \in Operations, CommandStep(c), CasesGrow, HandedOff(c)
  PROVE  HandedOff(c)'
<1>1. ThreadOf[c] \in Threads
  BY ThreadOfType
<1>2. CASE operation'[c] = operation[c]
  BY <1>1, <1>2 DEF HandedOff, CasesGrow
<1>3. CASE UnderReview(c)
  BY <1>3 DEF HandedOff, UnderReview
<1>4. ASSUME NEW from, NEW to, StatusSet(c, from, to),
             "manual_review" \notin from, to # "manual_review"
      PROVE  HandedOff(c)'
  BY <1>4 DEF HandedOff, StatusSet
<1>5. CASE /\ operation'[c].status \in CallbackTargets(operation[c].status)
           /\ StatusSet(c, {operation[c].status}, operation'[c].status)
  <2>1. operation[c].status # "manual_review" /\ operation'[c].status # "manual_review"
    BY <1>5 DEF CallbackTargets
  <2> QED
    BY <1>4, <1>5, <2>1
<1>6. CASE /\ operation'[c].status = "queued"
           /\ ~operation'[c].requires_manual_review /\ operation'[c].support_case_id = 0
  BY <1>6 DEF HandedOff
<1> QED
  BY <1>2, <1>3, <1>4, <1>5, <1>6, Zenon DEF CommandStep, AggregateKept

(* Cycles are opened by redrives only. *)
LEMMA CycleShape ==
  ASSUME TypeOK, [Next]_vars, \A c \in Commands : CommandStep(c)
  PROVE  \/ /\ redrives' = redrives
            /\ \A c \in Commands : outbox'[c].delivery_cycle = outbox[c].delivery_cycle
         \/ \E c \in Commands, r \in Requests : redrive_outbox(c, r)
<1> SUFFICES ASSUME ~ \E c \in Commands, r \in Requests : redrive_outbox(c, r)
             PROVE  /\ redrives' = redrives
                    /\ \A c \in Commands : outbox'[c].delivery_cycle = outbox[c].delivery_cycle
  OBVIOUS
<1>1. \A c \in Commands : outbox'[c].delivery_cycle = outbox[c].delivery_cycle
  BY Zenon DEF CommandStep, RowKept, RowEnqueued, RowClaimed, RowClosed, RowRedriven
<1>2. redrives' = redrives
  <2>1. CASE UNCHANGED vars
    BY <2>1 DEF vars, database
  <2>2. ASSUME NEW w \in Workers, NEW d \in Commands,
               Deliver(w, d) \/ renew_outbox_lease(w, d)
        PROVE  redrives' = redrives
    BY <2>2, Zenon DEF Deliver, renew_outbox_lease, send_command, ConnectionUnusable,
         ProviderAnswers, RequestFails, RenewalRefused, accepted, rejected,
         FinalizerRaises, schedule_outbox_retry, terminal_failure, LeaseConflict,
         HandlingRaises, CloseCommand, database
  <2>3. ASSUME Claim \/ Recover PROVE redrives' = redrives
    BY <2>3, Zenon DEF Claim, Recover, claim_due_outbox, recover_expired_outbox_leases
  <2>4. CASE Next
    BY <2>2, <2>3, <2>4, Zenon DEF Next, WorkerCrash, Enqueue, LeaseTick, BackoffElapses,
         ProviderDecides, move_to_manual_review, ApplyCallback, OpenReviewCase,
         change_status, database
  <2> QED
    BY <2>1, <2>4
<1> QED
  BY <1>1, <1>2

LEMMA CyclesStep ==
  ASSUME TypeOK, [Next]_vars, \A c \in Commands : CommandStep(c), CyclesAudited,
         \A c \in Commands : outbox[c].delivery_cycle >= 1
  PROVE  CyclesAudited'
<1>1. \A a \in redrives : a.command_id \in Commands /\ a.new_cycle \in Nat
  BY DEF TypeOK, Redrive
<1>2. CASE /\ redrives' = redrives
           /\ \A c \in Commands : outbox'[c].delivery_cycle = outbox[c].delivery_cycle
  <2>1. \A c \in Commands : \A n \in 2 .. outbox'[c].delivery_cycle :
          \E a \in redrives' : a.command_id = c /\ a.new_cycle = n
    BY <1>2 DEF CyclesAudited
  <2>2. \A a \in redrives' : a.new_cycle \in 2 .. outbox'[a.command_id].delivery_cycle
    BY <1>1, <1>2 DEF CyclesAudited
  <2>3. /\ \A a, b \in redrives' : a.request_id = b.request_id => a = b
        /\ \A a, b \in redrives' :
             a.command_id = b.command_id /\ a.new_cycle = b.new_cycle => a = b
    BY <1>2, Zenon DEF CyclesAudited
  <2> QED
    BY <2>1, <2>2, <2>3, Zenon DEF CyclesAudited
<1>3. ASSUME NEW c \in Commands, NEW r \in Requests, redrive_outbox(c, r)
      PROVE  CyclesAudited'
  <2> DEFINE d == outbox[c].delivery_cycle
             new == [request_id |-> r, command_id |-> c, new_cycle |-> d + 1]
  <2>1. d \in Nat /\ d >= 1
    BY DEF TypeOK, Row
  <2>2. /\ outbox'[c].delivery_cycle = d + 1
        /\ \A e \in Commands : e # c => outbox'[e].delivery_cycle = outbox[e].delivery_cycle
    BY <1>3, RedriveShape
  <2>3. /\ redrives' = redrives \cup {new} /\ \A a \in redrives : a.request_id # r
        /\ new.request_id = r /\ new.command_id = c /\ new.new_cycle = d + 1
    BY <1>3 DEF redrive_outbox, RequestUnused
  <2>4. \A a \in redrives : a.command_id = c => a.new_cycle \in 2..d
    BY <1>1 DEF CyclesAudited
  <2>5. \A e \in Commands : outbox[e].delivery_cycle \in Nat
    BY DEF TypeOK, Row
  <2> HIDE DEF new, d
  <2>6. \A a, b \in redrives' : a.request_id = b.request_id => a = b
    BY <2>3 DEF CyclesAudited
  <2>7. \A a, b \in redrives' :
          a.command_id = b.command_id /\ a.new_cycle = b.new_cycle => a = b
    BY <2>1, <2>3, <2>4 DEF CyclesAudited
  <2>8. \A a \in redrives' : a.new_cycle \in 2..outbox'[a.command_id].delivery_cycle
    <3>1. new.new_cycle \in 2..outbox'[new.command_id].delivery_cycle
      BY <2>1, <2>2, <2>3
    <3>2. ASSUME NEW a \in redrives
          PROVE  a.new_cycle \in 2..outbox'[a.command_id].delivery_cycle
      <4>1. a.new_cycle \in 2..outbox[a.command_id].delivery_cycle
        BY DEF CyclesAudited
      <4>2. CASE a.command_id = c
        BY <2>1, <2>2, <2>4, <4>2
      <4>3. CASE a.command_id # c
        BY <1>1, <2>2, <4>1, <4>3
      <4> QED
        BY <4>2, <4>3
    <3> QED
      BY <2>3, <3>1, <3>2
  <2>9. ASSUME NEW e \in Commands, NEW n \in 2..outbox'[e].delivery_cycle
        PROVE  \E a \in redrives' : a.command_id = e /\ a.new_cycle = n
    <3>1. CASE e = c /\ n = d + 1
      BY <2>3, <3>1
    <3>2. CASE ~(e = c /\ n = d + 1)
      <4>1. n \in 2..outbox[e].delivery_cycle
        BY <2>1, <2>2, <2>5, <3>2 DEF d
      <4> QED
        BY <2>3, <4>1 DEF CyclesAudited
    <3> QED
      BY <3>1, <3>2
  <2> QED
    BY <2>6, <2>7, <2>8, <2>9 DEF CyclesAudited
<1> QED
  BY <1>2, <1>3, CycleShape

-----------------------------------------------------------------------------
(* The inductive invariant, command by command. *)

Inv ==
  /\ TypeOK /\ CyclesAudited
  /\ \A c \in Commands : RowInv(outbox[c], attempts[c]) /\ Agrees(c) /\ EventsBehind(c)
  /\ \A w \in Workers, c \in Commands : TaskInv(w, c)
  /\ \A c \in Operations : EventInv(c) /\ HandedOff(c)

LEMMA InvIsIndInv == Inv => IndInv
<1> SUFFICES ASSUME Inv PROVE IndInv
  OBVIOUS
<1>1. LeaseLedger /\ AttemptBudget /\ RowConsistent
  BY Zenon DEF Inv, RowInv, OpenIsLeased, Increasing, Bounded, Evidence, LeaseLedger,
         AttemptBudget, RowConsistent
<1>2. Operations \subseteq Commands
  BY DEF Commands
<1>3. OperationFollowsCommand /\ ProviderAgreement
  BY <1>2, Zenon DEF Inv, Agrees, OperationFollowsCommand, ProviderAgreement
<1>4. TasksConsistent
  BY Zenon DEF Inv, TaskInv, TasksConsistent
<1>5. EventsConsistent
  BY Zenon DEF Inv, EventsBehind, EventsConsistent
<1>6. TechnicalFailureHandedOff
  BY DEF Inv, HandedOff, TechnicalFailureHandedOff
<1>7. OneEventPerCycle
  <2>1. ASSUME NEW c \in Operations, NEW e \in events[c]
        PROVE  e.status = IF e.cycle < outbox[c].delivery_cycle THEN "manual_review"
                          ELSE IF outbox[c].status = "published" THEN "submitted"
                          ELSE operation[c].status
    BY DEF Inv, EventInv
  <2> QED
    BY <2>1 DEF Inv, EventInv, ConcludedCycles, OneEventPerCycle
<1> QED
  BY <1>1, <1>3, <1>4, <1>5, <1>6, <1>7 DEF Inv, IndInv

LEMMA InvInit == Init => Inv
<1> SUFFICES ASSUME Init PROVE Inv
  OBVIOUS
<1>1. TypeOK
  BY TypeInit
<1>2. CyclesAudited
  BY DEF Init, CyclesAudited
<1>3. ASSUME NEW c \in Commands
      PROVE  /\ outbox[c] = [status |-> "absent", delivery_cycle |-> 1,
                             attempts_in_cycle |-> 0, lease_id |-> 0, lease_ttl |-> 0,
                             due |-> FALSE, last_failure_kind |-> "none"]
             /\ attempts[c] = << >> /\ events[c] = {}
  BY DEF Init
<1>4. ASSUME NEW c \in Commands PROVE RowInv(outbox[c], attempts[c])
  <2>1. /\ outbox[c].status = "absent" /\ outbox[c].delivery_cycle = 1
        /\ outbox[c].attempts_in_cycle = 0 /\ outbox[c].lease_id = 0
        /\ outbox[c].last_failure_kind = "none"
        /\ DOMAIN attempts[c] = {} /\ Len(attempts[c]) = 0
    BY <1>3
  <2> QED
    BY <2>1, MaxAttemptsPositive DEF RowInv, OpenIsLeased, Increasing, Bounded, Evidence
<1>5. ASSUME NEW c \in Commands PROVE Agrees(c) /\ EventsBehind(c)
  BY <1>3 DEF Init, Agrees, EventsBehind
<1>6. ASSUME NEW w \in Workers, NEW c \in Commands PROVE TaskInv(w, c)
  BY DEF Init, TaskInv, Idle
<1>7. ASSUME NEW c \in Operations PROVE EventInv(c) /\ HandedOff(c)
  <2>1. operation[c] = [status |-> "pending_confirmation", requires_manual_review |-> FALSE,
                        support_case_id |-> 0]
    BY DEF Init
  <2>2. /\ outbox[c].status = "absent" /\ outbox[c].delivery_cycle = 1 /\ events[c] = {}
    BY <1>3 DEF Commands
  <2>3. ConcludedCycles(c) = 0 /\ {e.cycle : e \in events[c]} = {} /\ 1..0 = {}
    BY <2>2 DEF ConcludedCycles
  <2>4. EventInv(c)
    BY <2>2, <2>3 DEF EventInv
  <2> QED
    BY <2>1, <2>4 DEF HandedOff
<1> QED
  BY <1>1, <1>2, <1>4, <1>5, <1>6, <1>7 DEF Inv

LEMMA InvStep == Inv /\ [Next]_vars => Inv'
<1> SUFFICES ASSUME Inv, [Next]_vars PROVE Inv'
  OBVIOUS
<1>1. /\ TypeOK /\ TypeOK' /\ TasksConsistent
      /\ OperationFollowsCommand /\ TechnicalFailureHandedOff
  BY TypeStep, InvIsIndInv DEF Inv, IndInv
<1>2. (\A c \in Commands : CommandStep(c)) /\ CasesGrow
  BY <1>1, StepShape
<1>3. \A c \in Commands : outbox[c].delivery_cycle >= 1
  BY DEF Inv, RowInv, Bounded
<1>4. CyclesAudited'
  BY <1>1, <1>2, <1>3, CyclesStep DEF Inv
<1>5. ASSUME NEW c \in Commands
      PROVE  RowInv(outbox'[c], attempts'[c]) /\ Agrees(c)' /\ EventsBehind(c)'
  BY <1>1, <1>2, RowStep, AgreementStep, EventShape, EventsBehindStep, Zenon DEF Inv
<1>6. ASSUME NEW w \in Workers, NEW c \in Commands PROVE TaskInv(w, c)'
  BY <1>1, <1>2, TaskInvStep DEF Inv
<1>7. ASSUME NEW c \in Operations PROVE EventInv(c)' /\ HandedOff(c)'
  <2>1. c \in Commands
    BY DEF Commands
  <2> QED
    BY <1>1, <1>2, <1>3, <2>1, EventShape, EventInvStep, HandedOffStep, Zenon DEF Inv
<1> QED
  BY <1>1, <1>4, <1>5, <1>6, <1>7 DEF Inv

(* The inductive invariant: what the database, the workers and the Provider  *)
(* agree on after any number of claims, crashes, recoveries and redrives.    *)
THEOREM Invariance == Spec => []IndInv
<1>1. Spec => []Inv
  BY InvInit, InvStep, PTL DEF Spec
<1> QED
  BY <1>1, InvIsIndInv, PTL

(* One open attempt per processing row, the newest one, whoever claims,      *)
(* finalizes or recovers it (claim_due_outbox, _finalize, recovery).         *)
THEOREM LeaseSafety == Spec => []LeaseLedger
<1>1. IndInv => LeaseLedger
  BY DEF IndInv
<1> QED
  BY <1>1, Invariance, PTL

(* No cycle spends more than MAX_ATTEMPTS, and the keys of the attempt       *)
(* ledger never collide (claim_due_outbox, redrive_outbox).                  *)
THEOREM BudgetSafety == Spec => []AttemptBudget
<1>1. IndInv => AttemptBudget
  BY DEF IndInv
<1> QED
  BY <1>1, Invariance, PTL

(* The operation and its command never disagree (_finalize_operation,        *)
(* recover_expired_outbox_leases, redrive_outbox).                           *)
THEOREM AggregateSafety == Spec => []OperationFollowsCommand
<1>1. IndInv => OperationFollowsCommand
  BY DEF IndInv
<1> QED
  BY <1>1, Invariance, PTL

(* Published and rejected are what the Provider decided (accepted, rejected  *)
(* of the finalizer), whatever stale answer or redrive led there.            *)
THEOREM ProviderSafety == Spec => []ProviderAgreement
<1>1. IndInv => ProviderAgreement
  BY DEF IndInv
<1> QED
  BY <1>1, Invariance, PTL

(* Each cycle of an operation is concluded by one event, with the status the *)
(* operation got (the idempotency keys of _finalize_operation).              *)
THEOREM EventSafety == Spec => []OneEventPerCycle
<1>1. IndInv => OneEventPerCycle
  BY DEF IndInv
<1> QED
  BY <1>1, Invariance, PTL

(* No operation under review is without a review case of its thread marked   *)
(* provider_delivery_failed (_ensure_technical_review_case).                 *)
THEOREM HandoffSafety == Spec => []TechnicalFailureHandedOff
<1>1. IndInv => TechnicalFailureHandedOff
  BY DEF IndInv
<1> QED
  BY <1>1, Invariance, PTL

(* Every cycle after the first has its one audit row (redrive_outbox). *)
THEOREM AuditSafety == Spec => []CyclesAudited
<1>1. IndInv => CyclesAudited
  BY DEF IndInv
<1> QED
  BY <1>1, Invariance, PTL

(* No row can make a finalizer or a recovery batch raise, whatever happened  *)
(* to it before (_finalize_operation, recover_expired_outbox_leases).        *)
THEOREM NoPoison == Spec => []NeverPoisoned
<1>1. ASSUME IndInv PROVE NeverPoisoned
  <2> SUFFICES ASSUME NEW c \in Commands, outbox[c].status = "processing"
               PROVE  /\ Recoverable(c)
                      /\ \A status \in {"submitted", "accepted", "rejected", "manual_review"} :
                           CanFinalize(c, status)
    BY DEF NeverPoisoned
  <2>0. /\ TypeOK /\ LeaseLedger /\ RowConsistent /\ EventsConsistent
        /\ OperationFollowsCommand /\ TechnicalFailureHandedOff
    BY <1>1 DEF IndInv
  <2>1. /\ outbox[c] \in Row /\ Len(attempts[c]) \in Nat
        /\ DOMAIN attempts[c] = 1..Len(attempts[c]) /\ events[c] \subseteq Event
    BY <2>0 DEF TypeOK
  <2>2. outbox[c].attempts_in_cycle > 0 /\ outbox[c].delivery_cycle \in Nat
    BY <2>0, <2>1 DEF RowConsistent, Row
  <2>3. /\ outbox[c].lease_id \in DOMAIN attempts[c]
        /\ attempts[c][outbox[c].lease_id].outcome = "open"
    BY <2>0, <2>1, <2>2 DEF LeaseLedger
  <2>4. \A e \in events[c] : e.cycle \in Nat /\ e.cycle < outbox[c].delivery_cycle
    BY <2>0, <2>1 DEF EventsConsistent, Event
  <2>5. ASSUME NEW status PROVE CanFinalize(c, status)
    <3>1. c \in Operations => operation[c].status = "queued"
      BY <2>0 DEF OperationFollowsCommand
    <3>2. EventKeyFree(c, status)
      BY <2>2, <2>4 DEF EventKeyFree
    <3> QED
      BY <3>1, <3>2 DEF CanFinalize
  <2> QED
    BY <2>3, <2>5 DEF Recoverable
<1> QED
  BY <1>1, Invariance, PTL

(* A mark on an investigation stays, and an event that is not its acceptance *)
(* comes with the mark (_finalize_case of accepted, rejected and failed).    *)
LEMMA InvestigationStep ==
  ASSUME TypeOK, [Next]_vars, NEW c \in Investigations
  PROVE  /\ investigation[c].delivery_failed => investigation'[c].delivery_failed
         /\ \/ events'[c] = events[c]
            \/ outbox'[c].status = "published"
            \/ investigation'[c].delivery_failed
<1> DEFINE Goal ==
      /\ investigation[c].delivery_failed => investigation'[c].delivery_failed
      /\ \/ events'[c] = events[c]
         \/ outbox'[c].status = "published"
         \/ investigation'[c].delivery_failed
<1>1. ASSUME investigation' = investigation, events' = events PROVE Goal
  BY <1>1
<1>2. ASSUME NEW w \in Workers, NEW d \in Commands, Deliver(w, d) PROVE Goal
  <2>1. CASE TaskOnly(w, d)
    BY <1>1, <2>1, TaskOnlyType DEF database
  <2>2. CASE schedule_outbox_retry(w, d)
    BY <1>1, <2>2 DEF schedule_outbox_retry
  <2>3. CASE accepted(w, d)
    <3>1. investigation' = investigation
      BY <2>3 DEF accepted
    <3>2. CASE c = d
      <4>1. outbox' = [outbox EXCEPT ![d] = Transition(@, "published", FALSE, "none")]
        BY <2>3 DEF accepted, CloseCommand
      <4>2. outbox'[c].status = "published"
        BY <3>2, <4>1 DEF TypeOK, Row, Transition
      <4> QED
        BY <3>1, <4>2
    <3>3. CASE c # d
      <4>1. events'[c] = events[c]
        BY <2>3, <3>3 DEF accepted, RecordEvents, Commands
      <4> QED
        BY <3>1, <4>1
    <3> QED
      BY <3>2, <3>3
  <2>4. CASE rejected(w, d) \/ terminal_failure(w, d)
    <3>1. /\ MarkInvestigation(d)
          /\ \E status : RecordEvents({d}, status)
      BY <2>4 DEF rejected, terminal_failure
    <3>2. CASE c = d
      BY <3>1, <3>2 DEF MarkInvestigation
    <3>3. CASE c # d
      BY <3>1, <3>3 DEF MarkInvestigation, RecordEvents, Commands
    <3> QED
      BY <3>2, <3>3
  <2> QED
    BY <1>2, <2>1, <2>2, <2>3, <2>4, Zenon DEF Deliver, TaskOnly
<1>3. CASE Recover
  <2>1. PICK batch \in SUBSET Commands : recover_expired_outbox_leases(batch)
    BY <1>3 DEF Recover
  <2>2. investigation' = investigation
    BY <2>1 DEF recover_expired_outbox_leases
  <2>3. c \notin {d \in batch \cap Operations : Exhausted(d)} /\ c \in Commands
    BY CommandsDisjoint DEF Commands
  <2>4. events'[c] = events[c]
    BY <2>1, <2>3 DEF recover_expired_outbox_leases, RecordEvents
  <2> QED
    BY <2>2, <2>4
<1>4. CASE UNCHANGED vars
  BY <1>1, <1>4 DEF vars, database
<1>5. CASE Claim
  <2>1. PICK w \in Workers, batch \in SUBSET Commands : claim_due_outbox(w, batch)
    BY <1>5 DEF Claim
  <2>2. UNCHANGED <<operation, investigation, cases, events, redrives, sent, provider>>
    BY <2>1, Zenon DEF claim_due_outbox
  <2> QED
    BY <1>1, <2>2
<1>6. ASSUME NEW w \in Workers, NEW d \in Commands, renew_outbox_lease(w, d) PROVE Goal
  BY <1>1, <1>6 DEF renew_outbox_lease
<1>7. ASSUME NEW w \in Workers, WorkerCrash(w) PROVE Goal
  BY <1>1, <1>7 DEF WorkerCrash, database
<1>8. ASSUME NEW d \in Commands,
             Enqueue(d) \/ ProviderDecides(d) \/ LeaseTick(d) \/ BackoffElapses(d)
      PROVE  Goal
  BY <1>1, <1>8 DEF Enqueue, ProviderDecides, LeaseTick, BackoffElapses, database
<1>9. ASSUME NEW d \in Operations, move_to_manual_review(d) \/ ApplyCallback(d) PROVE Goal
  BY <1>1, <1>9 DEF move_to_manual_review, ApplyCallback
<1>10. ASSUME NEW d \in Commands, NEW r \in Requests, redrive_outbox(d, r) PROVE Goal
  BY <1>1, <1>10 DEF redrive_outbox
<1>11. ASSUME NEW t \in Threads,
              OpenReviewCase(t) \/ \E i \in DOMAIN cases[t] : change_status(t, i)
       PROVE  Goal
  BY <1>1, <1>11 DEF OpenReviewCase, change_status
<1>12. CASE Next
  BY <1>2, <1>3, <1>5, <1>6, <1>7, <1>8, <1>9, <1>10, <1>11, <1>12, Zenon DEF Next
<1> QED
  BY <1>4, <1>12

(* InvestigationHistory of one investigation. *)
Recorded(c) ==
  /\ \A e, f \in events[c] : e.cycle = f.cycle => e = f
  /\ outbox[c].status = "published" =>
       [cycle |-> outbox[c].delivery_cycle, status |-> "accepted"] \in events[c]
  /\ \A e \in events[c] : e.status = "accepted" =>
       outbox[c].status = "published" /\ e.cycle = outbox[c].delivery_cycle
  /\ \A e \in events[c] : e.status # "accepted" => investigation[c].delivery_failed

LEMMA RecordedStep ==
  ASSUME IndInv, [Next]_vars, NEW c \in Investigations, Recorded(c)
  PROVE  Recorded(c)'
<1>1. c \in Commands /\ c \notin Operations
  BY CommandsDisjoint DEF Commands
<1>2. CommandStep(c)
  BY <1>1, StepShape DEF IndInv
<1>3. /\ investigation[c].delivery_failed => investigation'[c].delivery_failed
      /\ \/ events'[c] = events[c]
         \/ outbox'[c].status = "published"
         \/ investigation'[c].delivery_failed
  BY InvestigationStep DEF IndInv
<1>4. CASE /\ events'[c] = events[c]
           /\ outbox[c].status = "published" <=> outbox'[c].status = "published"
           /\ outbox[c].status = "published" =>
                outbox'[c].delivery_cycle = outbox[c].delivery_cycle
  BY <1>3, <1>4 DEF Recorded
<1>5. ASSUME NEW status, EventAdded(c, status), outbox[c].status = "processing",
             outbox'[c].delivery_cycle = outbox[c].delivery_cycle,
             status = "accepted" <=> outbox'[c].status = "published"
      PROVE  Recorded(c)'
  <2> DEFINE new == [cycle |-> outbox[c].delivery_cycle, status |-> status]
  <2>1. /\ events'[c] = events[c] \cup {new}
        /\ new.cycle = outbox[c].delivery_cycle /\ new.status = status
        /\ status = "accepted" =>
             new = [cycle |-> outbox'[c].delivery_cycle, status |-> "accepted"]
    BY <1>5 DEF EventAdded
  <2>2. \A e \in events[c] : e.cycle # outbox[c].delivery_cycle
    <3>1. outbox[c].delivery_cycle \in Nat /\ \A e \in events[c] : e.cycle \in Nat
      BY <1>1 DEF IndInv, TypeOK, Row, Event
    <3>2. \A e \in events[c] : e.cycle < outbox[c].delivery_cycle
      BY <1>1, <1>5 DEF IndInv, EventsConsistent
    <3> QED
      BY <3>1, <3>2
  <2>3. new \notin events[c]
    BY <2>1, <2>2
  <2>4. \A e \in events[c] : e.status # "accepted" /\ investigation[c].delivery_failed
    BY <1>5 DEF Recorded
  <2> HIDE DEF new
  <2>5. \A e, f \in events'[c] : e.cycle = f.cycle => e = f
    BY <2>1, <2>2 DEF Recorded
  <2>6. outbox'[c].status # "published" => investigation'[c].delivery_failed
    BY <1>3, <2>1, <2>3
  <2>7. \A e \in events'[c] : e.status # "accepted" => investigation'[c].delivery_failed
    BY <1>3, <1>5, <2>1, <2>4, <2>6
  <2>8. \A e \in events'[c] : e.status = "accepted" =>
          outbox'[c].status = "published" /\ e.cycle = outbox'[c].delivery_cycle
    BY <1>5, <2>1, <2>4
  <2> QED
    BY <1>5, <2>1, <2>5, <2>7, <2>8 DEF Recorded
<1>6. \/ /\ events'[c] = events[c]
         /\ outbox[c].status = "published" <=> outbox'[c].status = "published"
         /\ outbox[c].status = "published" =>
              outbox'[c].delivery_cycle = outbox[c].delivery_cycle
      \/ \E status :
           /\ EventAdded(c, status) /\ outbox[c].status = "processing"
           /\ outbox'[c].delivery_cycle = outbox[c].delivery_cycle
           /\ status = "accepted" <=> outbox'[c].status = "published"
  <2> DEFINE Same == /\ events'[c] = events[c]
                     /\ outbox[c].status = "published" <=> outbox'[c].status = "published"
                     /\ outbox[c].status = "published" =>
                          outbox'[c].delivery_cycle = outbox[c].delivery_cycle
             Added(status) == /\ EventAdded(c, status) /\ outbox[c].status = "processing"
                              /\ outbox'[c].delivery_cycle = outbox[c].delivery_cycle
                              /\ status = "accepted" <=> outbox'[c].status = "published"
  <2>1. ASSUME EventAdded(c, "accepted"), RowClosed(c, "published", "accepted", "none")
        PROVE  Added("accepted")
    BY <2>1 DEF RowClosed
  <2>2. ASSUME NEW outcome, NEW kind,
               EventAdded(c, "rejected"), RowClosed(c, "dead", outcome, kind)
        PROVE  Added("rejected")
    BY <2>2 DEF RowClosed
  <2>3. ASSUME RowKept(c), events'[c] = events[c] PROVE Same
    BY <2>3 DEF RowKept
  <2>4. ASSUME RowEnqueued(c), events'[c] = events[c] PROVE Same
    BY <2>4 DEF RowEnqueued
  <2>5. ASSUME NEW entry, RowClaimed(c, entry), events'[c] = events[c] PROVE Same
    BY <2>5 DEF RowClaimed
  <2>6. ASSUME NEW target, NEW outcome, NEW kind, RowClosed(c, target, outcome, kind),
               target # "published", events'[c] = events[c]
        PROVE  Same
    BY <2>6 DEF RowClosed
  <2>7. ASSUME RowRedriven(c), events'[c] = events[c] PROVE Same
    BY <2>7 DEF RowRedriven
  <2>8. Same \/ Added("accepted") \/ Added("rejected")
    <3> HIDE DEF Same, Added
    <3> QED
      BY <1>1, <1>2, <2>1, <2>2, <2>3, <2>4, <2>5, <2>6, <2>7, Zenon
         DEF CommandStep, AggregateKept, OperationStatus
  <2> QED
    BY <2>8
<1> QED
  BY <1>4, <1>5, <1>6

(* An investigation's history: its acceptance is the event of the cycle that *)
(* published it, and every other event left provider_delivery_failed on the  *)
(* case (_finalize_case).                                                    *)
THEOREM InvestigationSafety == Spec => []InvestigationHistory
<1> DEFINE AllRecorded == \A c \in Investigations : Recorded(c)
<1>1. Init => AllRecorded
  BY DEF Init, Recorded, Commands
<1>2. IndInv /\ [Next]_vars /\ AllRecorded => AllRecorded'
  BY RecordedStep
<1>3. IndInv /\ AllRecorded => InvestigationHistory
  <2> SUFFICES ASSUME IndInv, AllRecorded, NEW c \in Investigations, NEW e \in events[c]
               PROVE  IF e.status = "accepted"
                      THEN outbox[c].status = "published" /\ e.cycle = outbox[c].delivery_cycle
                      ELSE investigation[c].delivery_failed
    BY DEF InvestigationHistory, Recorded
  <2>1. Recorded(c) /\ investigation[c].delivery_failed \in BOOLEAN
    BY DEF IndInv, TypeOK
  <2> QED
    BY <2>1 DEF Recorded
<1> HIDE DEF AllRecorded
<1> QED
  BY <1>1, <1>2, <1>3, Invariance, PTL DEF Spec

(* A command dead for a technical reason passes every check of               *)
(* redrive_outbox: decide_outbox_redrive_eligibility, _recover_operation.    *)
THEOREM Redrivable == Spec => []DeadIsRedrivable
<1>1. ASSUME IndInv PROVE DeadIsRedrivable
  <2> SUFFICES ASSUME NEW c \in Commands, outbox[c].status = "dead",
                      outbox[c].last_failure_kind # "provider_rejection"
               PROVE  /\ decide_outbox_redrive_eligibility(c)
                      /\ c \in Operations => OperationRedrivable(c)
    BY DEF DeadIsRedrivable
  <2> DEFINE n == Len(attempts[c])
             last == attempts[c][n]
  <2>0. /\ TypeOK /\ LeaseLedger /\ RowConsistent /\ EventsConsistent
        /\ OperationFollowsCommand /\ TechnicalFailureHandedOff
    BY <1>1 DEF IndInv
  <2>1. /\ outbox[c] \in Row /\ n \in Nat /\ DOMAIN attempts[c] = 1..n
    BY <2>0 DEF TypeOK
  <2>2. /\ outbox[c].attempts_in_cycle \in Nat /\ outbox[c].delivery_cycle \in Nat
        /\ outbox[c].lease_id = 0 /\ outbox[c].attempts_in_cycle >= 1
    BY <2>0, <2>1 DEF RowConsistent, Row
  <2>3. /\ n \in DOMAIN attempts[c]
        /\ last.delivery_cycle = outbox[c].delivery_cycle
        /\ last.attempt_number = outbox[c].attempts_in_cycle
    BY <2>0, <2>1, <2>2 DEF LeaseLedger
  <2>4. \/ /\ last.outcome = "terminal_failure"
           /\ last.failure_kind \in TECHNICAL_FAILURE_KINDS
        \/ /\ last.outcome = "lease_expired" /\ last.failure_kind = "none"
           /\ outbox[c].attempts_in_cycle = MAX_ATTEMPTS
    BY <2>0 DEF RowConsistent
  <2>5. \A j \in DOMAIN attempts[c] :
          attempts[c][j].delivery_cycle = outbox[c].delivery_cycle =>
            attempts[c][j].attempt_number <= outbox[c].attempts_in_cycle
    BY <2>0, <2>2 DEF RowConsistent
  <2> HIDE DEF last, n
  <2>6. n \in TerminalAttempts(c)
    BY <2>3, <2>4, <2>5 DEF TerminalAttempts, last
  <2>7. decide_outbox_redrive_eligibility(c)
    BY <2>2, <2>3, <2>4, <2>6 DEF decide_outbox_redrive_eligibility, last
  <2>8. c \in Operations => OperationRedrivable(c)
    BY <2>0 DEF OperationFollowsCommand, TechnicalFailureHandedOff, OperationRedrivable
  <2> QED
    BY <2>7, <2>8
<1> QED
  BY <1>1, Invariance, PTL

(* Once published, or dead by the Provider's rejection, a command is never   *)
(* touched again, and its operation only follows the Provider's callbacks.   *)
THEOREM Finality == Spec => DecisionIsFinal
<1> DEFINE Final(c) ==
      \/ outbox[c].status = "published"
      \/ outbox[c].status = "dead" /\ outbox[c].last_failure_kind = "provider_rejection"
      => /\ outbox'[c] = outbox[c] /\ attempts'[c] = attempts[c]
         /\ c \in Operations =>
              \/ operation'[c] = operation[c]
              \/ /\ operation[c].status \in {"submitted", "processing"}
                 /\ operation'[c].status \in {"processing", "completed", "rejected"}
<1>1. ASSUME IndInv, [Next]_vars, NEW c \in Commands PROVE Final(c)
  <2>1. CommandStep(c)
    BY <1>1, StepShape DEF IndInv
  <2> QED
    BY <2>1, Zenon DEF CommandStep, RowKept, RowEnqueued, RowClaimed, RowClosed, RowRedriven,
                AggregateKept, CallbackTargets
<1>2. IndInv /\ [Next]_vars => [\A c \in Commands : Final(c)]_vars
  BY <1>1
<1> QED
  BY <1>2, Invariance, PTL DEF Spec, DecisionIsFinal

-----------------------------------------------------------------------------
(* The command lifecycle. *)

(* A step that moves the deliveries of S, and the statuses of S. *)
Moved(S, from, to) ==
  \A c \in Commands :
    /\ c \in S => DeliveryOf(outbox[c]) = from /\ DeliveryOf(outbox'[c]) = to
    /\ c \notin S => DeliveryOf(outbox'[c]) = DeliveryOf(outbox[c])

StatusTo(S, to) ==
  \A o \in Operations :
    operation'[o].status = IF o \in S THEN to ELSE operation[o].status

(* A step that moves no delivery and no status is hidden. *)
LEMMA HiddenStep ==
  ASSUME \A c \in Commands : DeliveryOf(outbox'[c]) = DeliveryOf(outbox[c]),
         \A o \in Operations : operation'[o].status = operation[o].status
  PROVE  UNCHANGED L!lifecycle
BY DEF L!lifecycle

LEMMA FailStep ==
  ASSUME NEW S \in SUBSET Commands, S # {},
         Moved(S, "undecided", "failed"), StatusTo(S, "manual_review")
  PROVE  L!LifecycleNext
<1>1. L!Fail(S)
  BY DEF L!Fail, L!WithStatus, L!Commands, Commands, Moved, StatusTo
<1> QED
  BY <1>1 DEF L!LifecycleNext, L!Commands, Commands

LEMMA CommandMoves ==
  ASSUME NEW c \in Commands
  PROVE  /\ Moved({c}, "undecided", "published") /\ StatusTo({c}, "submitted") =>
              L!LifecycleNext
         /\ Moved({c}, "undecided", "rejected") /\ StatusTo({c}, "rejected") =>
              L!LifecycleNext
         /\ Moved({c}, "failed", "undecided") /\ StatusTo({c}, "queued") =>
              L!LifecycleNext
<1>1. ASSUME Moved({c}, "undecided", "published"), StatusTo({c}, "submitted")
      PROVE  L!Accept(c)
  BY <1>1, Zenon DEF L!Accept, L!WithStatus, Moved, StatusTo
<1>2. ASSUME Moved({c}, "undecided", "rejected"), StatusTo({c}, "rejected")
      PROVE  L!Reject(c)
  BY <1>2, Zenon DEF L!Reject, L!WithStatus, Moved, StatusTo
<1>3. ASSUME Moved({c}, "failed", "undecided"), StatusTo({c}, "queued")
      PROVE  L!Redrive(c)
  BY <1>3, Zenon DEF L!Redrive, L!WithStatus, Moved, StatusTo
<1> QED
  BY <1>1, <1>2, <1>3 DEF L!LifecycleNext, L!Commands, Commands

LEMMA QueueStep ==
  ASSUME NEW c \in Commands, Moved({c}, "none", "undecided"), StatusTo({c}, "queued"),
         c \in Operations => operation[c].status = "pending_confirmation"
  PROVE  L!LifecycleNext
<1>1. L!Queue(c)
  BY Zenon DEF L!Queue, L!WithStatus, Moved, StatusTo
<1> QED
  BY <1>1 DEF L!LifecycleNext, L!Commands, Commands

LEMMA ReviewStep ==
  ASSUME NEW c \in Operations, Moved({}, "none", "none"),
         operation[c].status = "pending_confirmation", StatusTo({c}, "manual_review")
  PROVE  L!LifecycleNext
<1>1. L!Review(c)
  BY DEF L!Review, L!WithStatus, Moved, StatusTo
<1> QED
  BY <1>1 DEF L!LifecycleNext

LEMMA CallbackStep ==
  ASSUME NEW c \in Operations, Moved({}, "none", "none"), outbox[c].status = "published",
         StatusTo({c}, operation'[c].status),
         operation'[c].status \in CallbackTargets(operation[c].status)
  PROVE  L!LifecycleNext
<1>1. DeliveryOf(outbox[c]) = "published" /\ c \in Commands
  BY DEF DeliveryOf, Commands
<1>2. operation'[c].status \in L!Progress(operation[c].status)
  BY DEF CallbackTargets, L!Progress
<1>3. L!Callback(c)
  BY <1>1, <1>2 DEF L!Callback, L!WithStatus, Moved, StatusTo
<1> QED
  BY <1>3 DEF L!LifecycleNext

(* What a row's status and failure kind make of its delivery. *)
LEMMA DeliveryOfRow ==
  ASSUME NEW row
  PROVE  /\ row.status = "absent" => DeliveryOf(row) = "none"
         /\ row.status = "published" => DeliveryOf(row) = "published"
         /\ row.status \in {"pending", "processing", "retry_scheduled"} =>
              DeliveryOf(row) = "undecided"
         /\ row.status = "dead" /\ row.last_failure_kind = "provider_rejection" =>
              DeliveryOf(row) = "rejected"
         /\ row.status = "dead" /\ row.last_failure_kind # "provider_rejection" =>
              DeliveryOf(row) = "failed"
BY DEF DeliveryOf

LEMMA KeptDelivery ==
  ASSUME TypeOK, NEW c \in Commands, RowKept(c)
  PROVE  DeliveryOf(outbox'[c]) = DeliveryOf(outbox[c])
<1>1. outbox[c] \in Row
  BY DEF TypeOK
<1>2. outbox[c].status \in {"absent", "pending", "processing", "retry_scheduled",
                            "published", "dead"}
  BY <1>1 DEF Row
<1> QED
  BY <1>2, DeliveryOfRow DEF RowKept

-----------------------------------------------------------------------------
(* One lemma per group of actions. *)

LEMMA FinalizerMaps ==
  ASSUME IndInv, NEW w \in Workers, NEW c \in Commands,
         \/ accepted(w, c) \/ rejected(w, c)
         \/ schedule_outbox_retry(w, c) \/ terminal_failure(w, c)
  PROVE  [L!LifecycleNext]_(L!lifecycle)
<1>1. /\ TypeOK /\ TasksConsistent /\ TechnicalFailureHandedOff
      /\ OperationFollowsCommand /\ RowConsistent
  BY DEF IndInv
<1>2. \A o \in Operations : operation[o] \in Operation
  BY <1>1 DEF TypeOK
<1>3. ASSUME NEW target \in {"retry_scheduled", "published", "dead"}, NEW outcome,
             NEW kind \in FailureKinds \cup {"none"}, task[w][c].stage # "idle",
             HoldsLease(w, c), CloseCommand(w, c, target, outcome, kind)
      PROVE  /\ DeliveryOf(outbox[c]) = "undecided"
             /\ DeliveryOf(outbox'[c]) =
                  CASE target = "retry_scheduled" -> "undecided"
                    [] target = "published" -> "published"
                    [] target = "dead" -> IF kind = "provider_rejection" THEN "rejected" ELSE "failed"
             /\ \A d \in Commands : d # c => DeliveryOf(outbox'[d]) = DeliveryOf(outbox[d])
  <2>1. /\ RowClosed(c, target, outcome, kind)
        /\ \A d \in Commands : d # c => outbox'[d] = outbox[d]
    BY <1>1, <1>3, CloseShape, Zenon
  <2>2. outbox[c].last_failure_kind # "provider_rejection"
    BY <1>1, <2>1, Zenon DEF RowConsistent, RowClosed
  <2> QED
    BY <2>1, <2>2, DeliveryOfRow DEF RowClosed
<1>4. CASE accepted(w, c)
  <2>1. /\ task[w][c].stage # "idle" /\ HoldsLease(w, c)
        /\ CloseCommand(w, c, "published", "accepted", "none")
    BY <1>4 DEF accepted, Fenced
  <2>2. Moved({c}, "undecided", "published")
    BY <1>3, <2>1 DEF Moved
  <2>3. StatusTo({c}, "submitted")
    BY <1>2, <1>4 DEF accepted, StatusTo, Operation
  <2> QED
    BY <2>2, <2>3, CommandMoves
<1>5. CASE rejected(w, c)
  <2>1. /\ task[w][c].stage # "idle" /\ HoldsLease(w, c)
        /\ CloseCommand(w, c, "dead", "provider_rejected", "provider_rejection")
        /\ "provider_rejection" \in FailureKinds
    BY <1>5 DEF rejected, Fenced, FailureKinds
  <2>2. Moved({c}, "undecided", "rejected")
    BY <1>3, <2>1 DEF Moved
  <2>3. StatusTo({c}, "rejected")
    BY <1>2, <1>5 DEF rejected, StatusTo, Operation
  <2> QED
    BY <2>2, <2>3, CommandMoves
<1>6. ASSUME task[w][c].stage = "failed"
      PROVE  /\ task[w][c].kind \in TECHNICAL_FAILURE_KINDS
             /\ task[w][c].kind \in FailureKinds
             /\ task[w][c].kind # "provider_rejection" /\ task[w][c].stage # "idle"
  BY <1>1, <1>6 DEF TasksConsistent, TECHNICAL_FAILURE_KINDS, RETRYABLE_FAILURE_KINDS,
                    FailureKinds
<1>7. CASE schedule_outbox_retry(w, c)
  <2>1. /\ task[w][c].stage = "failed" /\ HoldsLease(w, c)
        /\ CloseCommand(w, c, "retry_scheduled", "retry_scheduled", task[w][c].kind)
        /\ operation' = operation
    BY <1>7, Zenon DEF schedule_outbox_retry, RetryFenced
  <2>2. \A d \in Commands : DeliveryOf(outbox'[d]) = DeliveryOf(outbox[d])
    BY <1>3, <1>6, <2>1
  <2> QED
    BY <2>1, <2>2, HiddenStep
<1>8. CASE terminal_failure(w, c)
  <2>1. /\ task[w][c].stage = "failed" /\ HoldsLease(w, c)
        /\ CloseCommand(w, c, "dead", "terminal_failure", task[w][c].kind)
        /\ MoveToManualReview({c} \cap Operations)
    BY <1>8, Zenon DEF terminal_failure, Fenced
  <2>2. Moved({c}, "undecided", "failed")
    BY <1>3, <1>6, <2>1 DEF Moved
  <2>3. StatusTo({c}, "manual_review")
    BY <2>1, Zenon DEF StatusTo, MoveToManualReview
  <2> QED
    BY <2>2, <2>3, FailStep
<1> QED
  BY <1>4, <1>5, <1>7, <1>8

LEMMA RecoveryMaps ==
  ASSUME IndInv, NEW batch \in SUBSET Commands, recover_expired_outbox_leases(batch)
  PROVE  [L!LifecycleNext]_(L!lifecycle)
<1> DEFINE S == {c \in batch : Exhausted(c)}
           failed == {c \in batch \cap Operations : Exhausted(c)}
<1>1. /\ MoveToManualReview(failed)
      /\ outbox' = [c \in Commands |->
           IF c \notin batch THEN outbox[c]
           ELSE IF Exhausted(c) THEN Transition(outbox[c], "dead", FALSE, "none")
           ELSE Transition(outbox[c], "retry_scheduled", TRUE, "none")]
      /\ \A c \in batch : outbox[c].status = "processing"
  BY Zenon DEF recover_expired_outbox_leases, Expired
<1>2. \A c \in batch : outbox[c] \in Row /\ outbox[c].last_failure_kind # "provider_rejection"
  BY <1>1, Zenon DEF IndInv, TypeOK, RowConsistent
<1>3. ASSUME NEW c \in batch
      PROVE  /\ Exhausted(c) => /\ outbox'[c].status = "dead"
                                /\ outbox'[c].last_failure_kind = outbox[c].last_failure_kind
             /\ ~Exhausted(c) => outbox'[c].status = "retry_scheduled"
  BY <1>1, <1>2, Zenon DEF Transition, Row
<1>4. Moved(S, "undecided", "failed")
  <2>1. ASSUME NEW c \in Commands, c \in S
        PROVE  DeliveryOf(outbox[c]) = "undecided" /\ DeliveryOf(outbox'[c]) = "failed"
    <3>1. /\ outbox[c].status = "processing" /\ outbox'[c].status = "dead"
          /\ outbox'[c].last_failure_kind # "provider_rejection"
      BY <1>1, <1>2, <1>3, <2>1, Zenon
    <3> QED
      BY <3>1, DeliveryOfRow, Zenon
  <2>2. ASSUME NEW c \in Commands, c \in batch, ~Exhausted(c)
        PROVE  DeliveryOf(outbox'[c]) = DeliveryOf(outbox[c])
    <3>1. outbox[c].status = "processing" /\ outbox'[c].status = "retry_scheduled"
      BY <1>1, <1>3, <2>2, Zenon
    <3> QED
      BY <3>1, DeliveryOfRow
  <2>3. ASSUME NEW c \in Commands, c \notin batch
        PROVE  outbox'[c] = outbox[c]
    BY <1>1, <2>3
  <2> QED
    BY <2>1, <2>2, <2>3, Zenon DEF Moved
<1>5. StatusTo(S, "manual_review")
  BY <1>1, Zenon DEF StatusTo, MoveToManualReview
<1> HIDE DEF S
<1>6. CASE S = {}
  BY <1>4, <1>5, <1>6, HiddenStep DEF Moved, StatusTo
<1>7. S \subseteq Commands
  BY DEF S
<1> QED
  BY <1>4, <1>5, <1>6, <1>7, FailStep

LEMMA RedriveMaps ==
  ASSUME IndInv, NEW c \in Commands, NEW r \in Requests, redrive_outbox(c, r)
  PROVE  L!LifecycleNext
<1>1. /\ outbox[c].status = "dead" /\ outbox[c].last_failure_kind # "provider_rejection"
      /\ \A d \in Commands : d # c => outbox'[d] = outbox[d]
  BY RedriveShape, Zenon DEF IndInv, redrive_outbox, decide_outbox_redrive_eligibility
<1>2. outbox'[c].status = "retry_scheduled"
  BY DEF redrive_outbox, IndInv, TypeOK, Row
<1>3. Moved({c}, "failed", "undecided")
  BY <1>1, <1>2, DeliveryOfRow DEF Moved
<1>4. StatusTo({c}, "queued")
  BY DEF redrive_outbox, StatusTo
<1> QED
  BY <1>3, <1>4, CommandMoves

LEMMA AdmissionMaps ==
  ASSUME IndInv, NEW c \in Commands,
         \/ Enqueue(c)
         \/ c \in Operations /\ (move_to_manual_review(c) \/ ApplyCallback(c))
  PROVE  L!LifecycleNext
<1>1. \A o \in Operations : operation[o] \in Operation
  BY DEF IndInv, TypeOK
<1>2. CASE Enqueue(c)
  <2>1. /\ outbox[c].status = "absent" /\ outbox'[c].status = "pending"
        /\ \A d \in Commands : d # c => outbox'[d] = outbox[d]
    BY <1>2 DEF Enqueue, IndInv, TypeOK, Row
  <2>2. Moved({c}, "none", "undecided")
    BY <2>1, DeliveryOfRow, Zenon DEF Moved
  <2>3. StatusTo({c}, "queued")
    BY <1>1, <1>2 DEF Enqueue, StatusTo, Operation
  <2> QED
    BY <1>2, <2>2, <2>3, QueueStep DEF Enqueue
<1>3. CASE c \in Operations /\ move_to_manual_review(c)
  <2>1. outbox' = outbox /\ MoveToManualReview({c})
    BY <1>3 DEF move_to_manual_review
  <2>2. Moved({}, "none", "none")
    BY <2>1 DEF Moved
  <2>3. StatusTo({c}, "manual_review")
    BY <2>1 DEF MoveToManualReview, StatusTo
  <2> QED
    BY <1>3, <2>2, <2>3, ReviewStep, Zenon DEF move_to_manual_review
<1>4. CASE c \in Operations /\ ApplyCallback(c)
  <2>1. outbox' = outbox /\ outbox[c].status = "published"
    BY <1>4 DEF ApplyCallback
  <2>2. PICK status \in CallbackTargets(operation[c].status) :
          operation' = [operation EXCEPT ![c].status = status]
    BY <1>4, Zenon DEF ApplyCallback
  <2>3. Moved({}, "none", "none")
    BY <2>1 DEF Moved
  <2>4. operation'[c].status = status
    BY <1>1, <1>4, <2>2 DEF IndInv, TypeOK, Operation
  <2>5. StatusTo({c}, operation'[c].status)
    BY <1>1, <1>4, <2>2, <2>4 DEF StatusTo, IndInv, TypeOK
  <2> QED
    BY <1>4, <2>1, <2>2, <2>3, <2>4, <2>5, CallbackStep
<1> QED
  BY <1>2, <1>3, <1>4

LEMMA ClaimMaps ==
  ASSUME IndInv, NEW w \in Workers, NEW batch \in SUBSET Commands,
         claim_due_outbox(w, batch)
  PROVE  UNCHANGED L!lifecycle
<1>1. /\ operation' = operation
      /\ \A c \in batch : outbox[c].status \in {"pending", "retry_scheduled"}
      /\ \A c \in Commands : c \notin batch => outbox'[c] = outbox[c]
  BY Zenon DEF claim_due_outbox
<1>2. ASSUME NEW c \in batch PROVE outbox'[c].status = "processing"
  BY Zenon DEF claim_due_outbox, IndInv, TypeOK, Row
<1>3. ASSUME NEW c \in Commands PROVE DeliveryOf(outbox'[c]) = DeliveryOf(outbox[c])
  BY <1>1, <1>2, DeliveryOfRow
<1> QED
  BY <1>1, <1>3, HiddenStep

(* Every action of the Outbox is a step of the lifecycle, or hidden by it. *)
LEMMA StepMaps == IndInv /\ [Next]_vars => [L!LifecycleNext]_(L!lifecycle)
<1> SUFFICES ASSUME IndInv, [Next]_vars PROVE [L!LifecycleNext]_(L!lifecycle)
  OBVIOUS
<1>1. ASSUME UNCHANGED <<outbox, operation>> PROVE UNCHANGED L!lifecycle
  BY <1>1, HiddenStep
<1>2. ASSUME NEW w \in Workers, NEW c \in Commands, Deliver(w, c)
      PROVE  [L!LifecycleNext]_(L!lifecycle)
  <2>1. CASE TaskOnly(w, c)
    <3>1. UNCHANGED <<outbox, operation>>
      BY <2>1, TaskOnlyType DEF IndInv, database
    <3> QED
      BY <1>1, <3>1
  <2> QED
    BY <1>2, <2>1, FinalizerMaps DEF Deliver, TaskOnly
<1>3. ASSUME \/ \E w \in Workers, c \in Commands : renew_outbox_lease(w, c)
             \/ \E c \in Commands : LeaseTick(c) \/ BackoffElapses(c)
      PROVE  UNCHANGED L!lifecycle
  <2>1. (\A c \in Commands : RowKept(c)) /\ operation' = operation /\ TypeOK
    BY <1>3, ClockShape DEF IndInv
  <2> QED
    BY <2>1, KeptDelivery, HiddenStep
<1>4. CASE Claim
  BY <1>4, ClaimMaps DEF Claim
<1>5. CASE Recover
  BY <1>5, RecoveryMaps DEF Recover
<1>6. ASSUME NEW w \in Workers, WorkerCrash(w) PROVE UNCHANGED L!lifecycle
  BY <1>1, <1>6 DEF WorkerCrash, database
<1>7. ASSUME NEW c \in Commands, ProviderDecides(c) PROVE UNCHANGED L!lifecycle
  BY <1>1, <1>7 DEF ProviderDecides, database
<1>8. ASSUME NEW t \in Threads,
             OpenReviewCase(t) \/ \E i \in DOMAIN cases[t] : change_status(t, i)
      PROVE  UNCHANGED L!lifecycle
  BY <1>1, <1>8 DEF OpenReviewCase, change_status
<1>9. CASE UNCHANGED vars
  BY <1>1, <1>9 DEF vars, database
<1>10. ASSUME NEW c \in Operations, move_to_manual_review(c) \/ ApplyCallback(c)
       PROVE  L!LifecycleNext
  BY <1>10, AdmissionMaps DEF Commands
<1>11. CASE Next
  BY <1>2, <1>3, <1>4, <1>5, <1>6, <1>7, <1>8, <1>10, <1>11, AdmissionMaps, RedriveMaps
     DEF Next
<1> QED
  BY <1>9, <1>11

(* The Outbox implements the lifecycle: whatever workers crash, retry,       *)
(* recover or redrive, its rows and operations move as CommandLifecycle says *)
(* (_finalize, recover_expired_outbox_leases, redrive_outbox).               *)
THEOREM OutboxRefines == Spec => OutboxImplementsLifecycle
<1>1. Init => L!LifecycleInit
  <2> SUFFICES ASSUME Init PROVE L!LifecycleInit
    OBVIOUS
  <2>1. \A c \in Commands : DeliveryOf(outbox[c]) = "none"
    BY DeliveryOfRow DEF Init
  <2>2. \A o \in Operations : operation[o].status = "pending_confirmation"
    BY DEF Init
  <2> QED
    BY <2>1, <2>2 DEF L!LifecycleInit, L!Commands, Commands
<1> QED
  BY <1>1, StepMaps, Invariance, PTL DEF Spec, OutboxImplementsLifecycle, L!Lifecycle
=============================================================================

--------------------------- MODULE ProviderInbox ----------------------------
(* The webhook Inbox: Provider callbacks are received at least once, in any  *)
(* order, stored once, and applied by processing workers under a lease.      *)
(* What the Outbox and the customer do to the same commands meanwhile is any *)
(* step of CommandLifecycle.                                                 *)
(*                                                                           *)
(* A transaction is one step.  The finalizer locks the inbox row, then the   *)
(* outbox row, then the aggregate, so nothing interleaves with it.           *)
EXTENDS CommandLifecycle, Naturals, Sequences, FiniteSets

CONSTANTS
  Events,        \* (provider_connection_id, event_id) of the callbacks
  Bodies,        \* what a callback may say
  NoBody,        \* the content of a row that is not there
  References,    \* provider references
  Workers,       \* inbox worker processes (worker_id)
  Requests,      \* request_ids of manual redrives
  MAX_ATTEMPTS,  \* processing attempts per cycle (5 in the code)
  LeaseTicks,    \* length of a lease in ticks of the model's clock
  BatchSize      \* LIMIT of a claim or of a recovery

(* A trusted callback.  agrees: tenant, connection and aggregate are those   *)
(* of the command; order_agrees: so is the order_id, if it carries one.      *)
Body == [command_id : Commands, aggregate_type : {"order_operation", "support_case"},
         agrees : BOOLEAN, order_agrees : BOOLEAN,
         command_status : {"accepted", "processing", "completed", "rejected"},
         provider_reference : References \cup {"none"}]

ASSUME BodiesTyped == Bodies \subseteq Body /\ NoBody \notin Bodies
ASSUME AggregatesDisjoint == Operations \cap Investigations = {}
ASSUME NoneIsNoReference == "none" \notin References
ASSUME InboxBounds == MAX_ATTEMPTS \in Nat \ {0} /\ LeaseTicks \in Nat \ {0} /\ BatchSize \in Nat

VARIABLES
  inbox,      \* event -> row of inbox_messages
  attempts,   \* event -> sequence of rows of inbox_processing_attempts
  redrives,   \* rows of inbox_redrives
  task,       \* worker -> event -> lease_id of the task processing it, or 0
  reference,  \* operation -> provider_reference of its row
  history,    \* operation -> status_changed events of applied callbacks
  updates     \* callbacks recorded as provider_update on their case

rows == <<inbox, attempts>>
vars == <<lifecycle, rows, redrives, task, reference, history, updates>>

(* processing_attempts is the length of the ledger; lease_id, as well as the *)
(* attempt_number, is the position of the claim in it, 0 is NULL.            *)
Row == [status : {"absent", "received", "processing", "processed", "failed"},
        body : Bodies \cup {NoBody}, processing_cycle : Nat,
        attempts_in_cycle : Nat, lease_id : Nat, lease_ttl : Nat, due : BOOLEAN]

Attempt == [processing_cycle : Nat, worker_id : Workers,
            outcome : {"open", "processed", "terminal_failure", "retry_scheduled",
                       "lease_expired"}]

RedriveRow == [request_id : Requests, inbox_id : Events, new_cycle : Nat]

Change == [event : Events, previous : OperationRecordStatus,
           current : OperationRecordStatus]

Init ==
  /\ LifecycleInit
  /\ inbox = [e \in Events |->
       [status |-> "absent", body |-> NoBody, processing_cycle |-> 1,
        attempts_in_cycle |-> 0, lease_id |-> 0, lease_ttl |-> 0, due |-> FALSE]]
  /\ attempts = [e \in Events |-> << >>]
  /\ redrives = {}
  /\ task = [w \in Workers |-> [e \in Events |-> 0]]
  /\ reference = [o \in Operations |-> "none"]
  /\ history = [o \in Operations |-> << >>]
  /\ updates = {}

-----------------------------------------------------------------------------
(* The webhook endpoint. *)

(* receive_inbox_idempotently: the first delivery of an event stores it, an  *)
(* exact replay is acknowledged again, a differing one is answered 409.      *)
receive_inbox_idempotently(e, b) ==
  /\ inbox[e].status = "absent" \/ inbox[e].body = b
  /\ inbox' = [inbox EXCEPT ![e] =
       IF @.status = "absent"
       THEN [@ EXCEPT !.status = "received", !.body = b, !.due = TRUE] ELSE @]
  /\ UNCHANGED <<lifecycle, attempts, redrives, task, reference, history, updates>>

-----------------------------------------------------------------------------
(* Claims, leases and fences. *)

claim_due_inbox(w, batch) ==
  /\ \A e \in Events : task[w][e] = 0
  /\ batch # {} /\ Cardinality(batch) <= BatchSize
  /\ \A e \in batch : /\ inbox[e].status = "received" /\ inbox[e].due
                       /\ inbox[e].attempts_in_cycle < MAX_ATTEMPTS
  /\ inbox' = [e \in Events |->
       IF e \in batch
       THEN [inbox[e] EXCEPT !.status = "processing", !.due = FALSE,
                             !.lease_id = Len(attempts[e]) + 1, !.lease_ttl = LeaseTicks,
                             !.attempts_in_cycle = @ + 1]
       ELSE inbox[e]]
  /\ attempts' = [e \in Events |->
       IF e \in batch
       THEN Append(attempts[e], [processing_cycle |-> inbox[e].processing_cycle,
                                 worker_id |-> w, outcome |-> "open"])
       ELSE attempts[e]]
  /\ task' = [task EXCEPT ![w] =
       [e \in Events |-> IF e \in batch THEN Len(attempts[e]) + 1 ELSE 0]]
  /\ UNCHANGED <<lifecycle, redrives, reference, history, updates>>

HoldsLease(w, e) ==
  /\ inbox[e].status = "processing"
  /\ inbox[e].lease_id = task[w][e]
  /\ attempts[e][task[w][e]].worker_id = w

LeaseLive(e) == inbox[e].lease_ttl > 0

(* Mutant: the fence asks only that the row is processing. *)
FencedByStatus(w, e) == w \in Workers /\ inbox[e].status = "processing"

(* _lock_inbox: the claimed handle against the locked row and its attempt.   *)
Fenced(w, e) ==
  LET handle == attempts[e][task[w][e]]
  IN /\ HoldsLease(w, e) /\ LeaseLive(e)
     /\ handle.outcome = "open"
     /\ handle.processing_cycle = inbox[e].processing_cycle
     /\ task[w][e] = Len(attempts[e])

renew_inbox_lease(w, e) ==
  /\ task[w][e] # 0
  /\ HoldsLease(w, e) /\ LeaseLive(e)
  /\ inbox' = [inbox EXCEPT ![e].lease_ttl = LeaseTicks]
  /\ UNCHANGED <<lifecycle, attempts, redrives, task, reference, history, updates>>

EndTask(w, e) == task' = [task EXCEPT ![w][e] = 0]

FinishAttempt(ledger, i, outcome) == [ledger EXCEPT ![i] = [@ EXCEPT !.outcome = outcome]]

(* finish_inbox_attempt, then mark_inbox_processed, mark_inbox_failed or     *)
(* schedule_inbox_retry on the same cursor.                                  *)
Close(w, e, target, outcome) ==
  /\ inbox' = [inbox EXCEPT ![e] =
       [@ EXCEPT !.status = target, !.due = FALSE, !.lease_id = 0, !.lease_ttl = 0]]
  /\ attempts' = [attempts EXCEPT ![e] = FinishAttempt(@, task[w][e], outcome)]
  /\ EndTask(w, e)
  /\ UNCHANGED <<redrives>>

Processed(w, e) == Close(w, e, "processed", "processed")

Failed(w, e) == Close(w, e, "failed", "terminal_failure")

(* _retry_or_fail: the fifth attempt of a cycle is its last. *)
RetryOrFail(w, e) ==
  IF inbox[e].attempts_in_cycle >= MAX_ATTEMPTS THEN Failed(w, e)
  ELSE Close(w, e, "received", "retry_scheduled")

-----------------------------------------------------------------------------
(* inbox_policy.py *)

TargetOf ==
  [accepted |-> "submitted", processing |-> "processing",
   completed |-> "completed", rejected |-> "rejected"]

decide_inbox_outbox_readiness(c) ==
  CASE delivery[c] = "undecided" -> "retry"
    [] delivery[c] = "published" -> "ready"
    [] OTHER -> "dead"

provider_reference_is_compatible(current, incoming) ==
  current = "none" \/ incoming = "none" \/ current = incoming

(* Mutant: a late callback is applied whatever the operation has reached. *)
CallbackAlwaysApplies(o, b) ==
  IF status[o] = TargetOf[b.command_status] THEN "duplicate"
  ELSE IF status[o] \in {"pending_confirmation", "queued", "manual_review"} THEN "conflict"
  ELSE "apply"

(* Mutant: the incoming reference is not compared. *)
CallbackIgnoresReference(o, b) ==
  LET local == status[o] target == TargetOf[b.command_status]
  IN CASE local \notin {"submitted", "processing", "completed", "rejected"} -> "conflict"
       [] local = target -> "duplicate"
       [] target \in Progress(local) -> "apply"
       [] OTHER -> "stale"

(* The status matrix of decide_order_operation_callback. *)
decide_order_operation_callback(o, b) ==
  LET local == status[o]
      said == b.command_status
      target == TargetOf[said]
  IN IF \/ ~provider_reference_is_compatible(reference[o], b.provider_reference)
        \/ local \in {"absent", "pending_confirmation", "queued", "manual_review",
                     "cancelled_by_customer"}
     THEN "conflict"
     ELSE IF local = target THEN "duplicate"
     ELSE CASE local = "submitted" -> "apply"
            [] local = "processing" -> IF said = "accepted" THEN "stale" ELSE "apply"
            [] local = "completed" ->
                 IF said \in {"accepted", "processing"} THEN "stale" ELSE "conflict"
            [] local = "rejected" -> "conflict"

-----------------------------------------------------------------------------
(* The finalizers. *)

(* The outbox row is there and is the one the callback names. *)
Associated(b) ==
  /\ delivery[b.command_id] # "none"
  /\ b.aggregate_type = IF b.command_id \in Operations THEN "order_operation"
                        ELSE "support_case"
  /\ b.agrees

(* The idempotency key of the domain event: one per inbox row. *)
KeyFree(e) ==
  /\ e \notin updates
  /\ \A o \in Operations : \A i \in DOMAIN history[o] : history[o][i].event # e

Unapplied(w, e) ==
  /\ Failed(w, e)
  /\ UNCHANGED <<lifecycle, reference, history, updates>>

Waits(w, e, c) ==
  /\ decide_inbox_outbox_readiness(c) = "retry"
  /\ RetryOrFail(w, e)
  /\ UNCHANGED <<lifecycle, reference, history, updates>>

Apply(w, e, b) ==
  LET o == b.command_id target == TargetOf[b.command_status]
  IN /\ KeyFree(e)
     /\ status' = WithStatus({o}, target)
     /\ reference' = [reference EXCEPT ![o] =
          IF b.provider_reference = "none" THEN @ ELSE b.provider_reference]
     /\ history' = [history EXCEPT ![o] =
          Append(@, [event |-> e, previous |-> status[o], current |-> target])]
     /\ Processed(w, e)
     /\ UNCHANGED <<delivery, updates>>

(* A duplicate fills an unset provider_reference; a stale callback does not. *)
Settle(w, e, b, action) ==
  /\ reference' = [reference EXCEPT ![b.command_id] =
       IF action = "duplicate" /\ @ = "none" THEN b.provider_reference ELSE @]
  /\ Processed(w, e)
  /\ UNCHANGED <<lifecycle, history, updates>>

finalize_order_operation(w, e) ==
  LET b == inbox[e].body
      o == b.command_id
      readiness == decide_inbox_outbox_readiness(o)
      action == decide_order_operation_callback(o, b)
      refused == \/ ~b.order_agrees \/ action = "conflict"
                 \/ readiness = "dead" /\ action # "duplicate"
  IN /\ task[w][e] # 0 /\ b.aggregate_type = "order_operation" /\ Fenced(w, e)
     /\ \/ ~Associated(b) /\ Unapplied(w, e)
        \/ Associated(b) /\ Waits(w, e, o)
        \/ /\ Associated(b) /\ readiness # "retry"
           /\ \/ refused /\ Unapplied(w, e)
              \/ ~refused /\ action = "apply" /\ Apply(w, e, b)
              \/ ~refused /\ action # "apply" /\ Settle(w, e, b, action)

(* The case itself is not changed: one provider_update event is appended,    *)
(* for a published command and for a dead one.                               *)
finalize_support_case(w, e) ==
  LET b == inbox[e].body c == b.command_id
  IN /\ task[w][e] # 0 /\ b.aggregate_type = "support_case" /\ Fenced(w, e)
     /\ \/ ~Associated(b) /\ Unapplied(w, e)
        \/ Associated(b) /\ Waits(w, e, c)
        \/ /\ Associated(b) /\ decide_inbox_outbox_readiness(c) # "retry"
           /\ \/ ~b.order_agrees /\ Unapplied(w, e)
              \/ /\ b.order_agrees /\ KeyFree(e)
                 /\ updates' = updates \cup {e}
                 /\ Processed(w, e)
                 /\ UNCHANGED <<lifecycle, reference, history>>

(* Lease lost at the fence or at a renewal, or any other error: _process     *)
(* records nothing and leaves the lease to expire.                           *)
FinalizerRaises(w, e) ==
  /\ task[w][e] # 0
  /\ EndTask(w, e)
  /\ UNCHANGED <<lifecycle, rows, redrives, reference, history, updates>>

(* The repository's own terminal failure and retry, which no worker calls:   *)
(* like the Outbox's retry they do not ask that the lease is live.           *)
mark_inbox_failed(w, e) ==
  /\ task[w][e] # 0 /\ HoldsLease(w, e)
  /\ attempts[e][task[w][e]].outcome = "open"
  /\ Unapplied(w, e)

schedule_inbox_retry(w, e) ==
  /\ task[w][e] # 0 /\ HoldsLease(w, e)
  /\ attempts[e][task[w][e]].outcome = "open"
  /\ RetryOrFail(w, e)
  /\ UNCHANGED <<lifecycle, reference, history, updates>>

WorkerCrash(w) ==
  /\ \E e \in Events : task[w][e] # 0
  /\ task' = [task EXCEPT ![w] = [e \in Events |-> 0]]
  /\ UNCHANGED <<lifecycle, rows, redrives, reference, history, updates>>

-----------------------------------------------------------------------------
(* Time and recovery. *)

LeaseTick(e) ==
  /\ inbox[e].status = "processing" /\ LeaseLive(e)
  /\ inbox' = [inbox EXCEPT ![e].lease_ttl = @ - 1]
  /\ UNCHANGED <<lifecycle, attempts, redrives, task, reference, history, updates>>

RetryDelayElapses(e) ==
  /\ inbox[e].status = "received" /\ ~inbox[e].due
  /\ inbox' = [inbox EXCEPT ![e].due = TRUE]
  /\ UNCHANGED <<lifecycle, attempts, redrives, task, reference, history, updates>>

Expired(e) == inbox[e].status = "processing" /\ ~LeaseLive(e)

(* The open attempt of the lease; a row without one makes the whole batch    *)
(* raise LeaseConflictError and roll back.                                   *)
Recoverable(e) ==
  /\ inbox[e].lease_id \in DOMAIN attempts[e]
  /\ attempts[e][inbox[e].lease_id].outcome = "open"

(* Mutant: the recovery forgets to count the attempts. *)
RecoveredAlwaysReceived(row) ==
  [row EXCEPT !.status = "received", !.due = TRUE, !.lease_id = 0, !.lease_ttl = 0]

RecoveredRow(row) ==
  IF row.attempts_in_cycle >= MAX_ATTEMPTS
  THEN [row EXCEPT !.status = "failed", !.lease_id = 0, !.lease_ttl = 0]
  ELSE [row EXCEPT !.status = "received", !.due = TRUE, !.lease_id = 0, !.lease_ttl = 0]

recover_expired_inbox_leases(batch) ==
  /\ batch # {} /\ Cardinality(batch) <= BatchSize
  /\ \A e \in batch : Expired(e) /\ Recoverable(e)
  /\ attempts' = [e \in Events |->
       IF e \in batch THEN FinishAttempt(attempts[e], inbox[e].lease_id, "lease_expired")
       ELSE attempts[e]]
  /\ inbox' = [e \in Events |-> IF e \in batch THEN RecoveredRow(inbox[e]) ELSE inbox[e]]
  /\ UNCHANGED <<lifecycle, redrives, task, reference, history, updates>>

-----------------------------------------------------------------------------
(* Manual redrive. *)

(* Mutant: a processed message may be redriven too. *)
RedriveAnySettled(e) == inbox[e].status \in {"failed", "processed"}

decide_inbox_redrive_eligibility(e) == inbox[e].status = "failed" /\ inbox[e].lease_id = 0

(* A request_id already in inbox_redrives is answered from its row. *)
RequestUnused(r) == \A a \in redrives : a.request_id # r

redrive_inbox(e, r) ==
  /\ RequestUnused(r)
  /\ decide_inbox_redrive_eligibility(e)
  /\ inbox' = [inbox EXCEPT ![e] =
       [@ EXCEPT !.status = "received", !.due = TRUE, !.attempts_in_cycle = 0,
                 !.processing_cycle = inbox[e].processing_cycle + 1]]
  /\ redrives' = redrives \cup
       {[request_id |-> r, inbox_id |-> e, new_cycle |-> inbox[e].processing_cycle + 1]}
  /\ UNCHANGED <<lifecycle, attempts, task, reference, history, updates>>

-----------------------------------------------------------------------------
(* Everyone else who changes the commands and their operations. *)

(* _finalize_operation stores the reference of the Provider's answer. *)
OutboxDecides(c) ==
  /\ Accept(c) \/ Reject(c)
  /\ \E r \in References \cup {"none"} :
       reference' = [o \in Operations |-> IF o = c THEN r ELSE reference[o]]

OutsideStep ==
  /\ \/ /\ \/ \E o \in Operations : Record(o) \/ Decline(o) \/ Review(o)
           \/ \E c \in Commands : Queue(c) \/ Fail({c}) \/ Redrive(c)
        /\ UNCHANGED reference
     \/ \E c \in Commands : OutboxDecides(c)
  /\ UNCHANGED <<rows, redrives, task, history, updates>>

-----------------------------------------------------------------------------
Process(w, e) ==
  finalize_order_operation(w, e) \/ finalize_support_case(w, e) \/ FinalizerRaises(w, e)

Claim == \E w \in Workers, batch \in SUBSET Events : claim_due_inbox(w, batch)

Recover == \E batch \in SUBSET Events : recover_expired_inbox_leases(batch)

Next ==
  \/ OutsideStep
  \/ \E e \in Events, b \in Bodies : receive_inbox_idempotently(e, b)
  \/ Claim
  \/ Recover
  \/ \E w \in Workers, e \in Events :
       Process(w, e) \/ renew_inbox_lease(w, e) \/ mark_inbox_failed(w, e) \/ schedule_inbox_retry(w, e)
  \/ \E w \in Workers : WorkerCrash(w)
  \/ \E e \in Events : LeaseTick(e) \/ RetryDelayElapses(e)
  \/ \E e \in Events, r \in Requests : redrive_inbox(e, r)

Spec == Init /\ [][Next]_vars

(* The worker loop polls, recovers every 30 s, and a finalizer returns or    *)
(* raises; clocks advance.  Nothing is assumed of the Provider, the Outbox   *)
(* or the staff.                                                             *)
Fairness ==
  /\ WF_vars(Claim) /\ WF_vars(Recover)
  /\ \A w \in Workers, e \in Events : WF_vars(Process(w, e))
  /\ \A e \in Events : WF_vars(LeaseTick(e)) /\ WF_vars(RetryDelayElapses(e))

FairSpec == Spec /\ Fairness

-----------------------------------------------------------------------------
(* Properties. *)

(* Rows of the Inbox, of its ledger and of its audit are well formed. *)
InboxTypeOK ==
  /\ LifecycleType
  /\ inbox \in [Events -> Row]
  /\ attempts \in [Events -> Seq(Attempt)]
  /\ redrives \subseteq RedriveRow
  /\ task \in [Workers -> [Events -> Nat]]
  /\ reference \in [Operations -> References \cup {"none"}]
  /\ history \in [Operations -> Seq(Change)]
  /\ updates \subseteq Events

(* A row is processing exactly while the newest attempt of its ledger is     *)
(* open, and attempts_in_cycle counts the attempts of its cycle: neither a   *)
(* stale worker, nor a recovery, nor a redrive closes the wrong attempt or   *)
(* leaves two open (claim_due_inbox, _lock_inbox, recovery).                 *)
InboxLedger ==
  \A e \in Events :
    /\ \A i \in DOMAIN attempts[e] :
         attempts[e][i].outcome = "open" <=>
           inbox[e].status = "processing" /\ inbox[e].lease_id = i
    /\ inbox[e].status = "processing" => inbox[e].lease_id = Len(attempts[e])
    /\ Cardinality({i \in DOMAIN attempts[e] :
         attempts[e][i].processing_cycle = inbox[e].processing_cycle})
         = inbox[e].attempts_in_cycle

(* No message is stranded: a received one has attempts left, so that a claim *)
(* will take it, and one in processing can be recovered without raising.     *)
(* The fifth attempt ends the cycle in the finalizer, in the retry and in    *)
(* the recovery alike.                                                       *)
NeverStranded ==
  \A e \in Events :
    /\ inbox[e].attempts_in_cycle <= MAX_ATTEMPTS
    /\ inbox[e].status = "received" => inbox[e].attempts_in_cycle < MAX_ATTEMPTS
    /\ inbox[e].status = "processing" => Recoverable(e)

(* A callback takes effect at most once, and only with its own processing:   *)
(* an event in an operation's history or on a case belongs to a processed    *)
(* message, whatever was redelivered, retried, redriven or raced.            *)
EffectOnce ==
  /\ \A o \in Operations : \A i \in DOMAIN history[o] :
       LET e == history[o][i].event
       IN /\ inbox[e].status = "processed" /\ inbox[e].body.command_id = o
          /\ \A p \in Operations : \A j \in DOMAIN history[p] :
               history[p][j].event = e => p = o /\ j = i
  /\ \A e \in updates : inbox[e].status = "processed"

(* Callbacks may come in any order, but the history of an operation is one   *)
(* unbroken chain from submitted to the status the operation has.            *)
HistoryExplains ==
  \A o \in Operations :
    LET n == Len(history[o])
    IN /\ n > 0 => /\ history[o][1].previous = "submitted"
                   /\ history[o][n].current = status[o]
       /\ n = 0 /\ delivery[o] = "published" => status[o] = "submitted"
       /\ \A i \in 1..(n - 1) : history[o][i].current = history[o][i + 1].previous
       /\ \A i \in 1..n : history[o][i].current \in Progress(history[o][i].previous)

AtOrBeyond(s) == {s} \cup Progress(s)

(* Every processed callback is reflected: the operation has reached the      *)
(* status the Provider reported or a later one, so applied, duplicate and    *)
(* stale callbacks converge whatever order they were processed in.           *)
CallbackReflected ==
  \A e \in Events :
    inbox[e].status = "processed" /\ inbox[e].body.aggregate_type = "order_operation" =>
      LET b == inbox[e].body
      IN /\ delivery[b.command_id] \in {"published", "rejected"}
         /\ status[b.command_id] \in AtOrBeyond(TargetOf[b.command_status])

(* Every cycle after the first was opened by exactly one audited request.    *)
RedrivesAudited ==
  /\ \A a, b \in redrives : a.request_id = b.request_id => a = b
  /\ \A a, b \in redrives : a.inbox_id = b.inbox_id /\ a.new_cycle = b.new_cycle => a = b
  /\ \A e \in Events :
       {a.new_cycle : a \in {r \in redrives : r.inbox_id = e}} = 2..inbox[e].processing_cycle

(* A provider reference, once known, is never replaced: neither by a         *)
(* callback nor by the Outbox's own answer arriving later.                   *)
ReferenceKept ==
  [][\A o \in Operations : reference[o] # "none" => reference'[o] = reference[o]]_vars

(* A processed message is never touched again, and a failed one only by a    *)
(* redrive that opens a new cycle.                                           *)
SettledIsFinal ==
  [][\A e \in Events :
       /\ inbox[e].status = "processed" =>
            inbox'[e] = inbox[e] /\ attempts'[e] = attempts[e]
       /\ inbox[e].status = "failed" =>
            \/ inbox'[e] = inbox[e] /\ attempts'[e] = attempts[e]
            \/ /\ inbox'[e].processing_cycle = inbox[e].processing_cycle + 1
               /\ \E a \in redrives' \ redrives : a.inbox_id = e]_vars

(* Every accepted callback is processed or failed eventually, although       *)
(* workers crash, finalizers raise and the command may never be decided.     *)
CallbackSettles ==
  \A e \in Events :
    inbox[e].status \in {"received", "processing"} ~> inbox[e].status \in {"processed", "failed"}
=============================================================================

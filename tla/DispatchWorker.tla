--------------------------- MODULE DispatchWorker ---------------------------
(* One outbound worker process (agent.integrations.outbox_worker) and its     *)
(* connection gates (agent.integrations.rate_limit): the loop, the tasks of a *)
(* claimed batch, and the request each task runs beside the renewal of its    *)
(* lease.  What the database and the Provider answer is an input; what their  *)
(* transactions do is ProviderOutbox.                                          *)
(*                                                                            *)
(* Time is relative: a request waits so many ticks for its start, and the     *)
(* next free start of a connection lies so many ticks ahead.                  *)
EXTENDS Naturals, FiniteSets

CONSTANTS
  Commands, Connections,
  ConnectionOf,      \* command -> connection it is sent over
  BatchSize,
  max_concurrency,   \* connection -> permits of its semaphore
  interval,          \* connection -> ticks between two starts, 0 for no limit
  MaxAhead           \* bound: how far ahead a start may be reserved

ASSUME GateAssumption ==
  /\ IsFiniteSet(Commands) /\ ConnectionOf \in [Commands -> Connections]
  /\ max_concurrency \in [Connections -> Nat \ {0}]
  /\ interval \in [Connections -> Nat]
  /\ BatchSize \in Nat /\ MaxAhead \in Nat

VARIABLES
  loop,     \* where run_forever is
  task,     \* command -> where _process is, or the result it returned
  request,  \* command -> the task of _send_through_gate: [pc, wait]
  ahead,    \* connection -> _next_request_at, from now
  level     \* connection -> requests started, each draining in one interval

vars == <<loop, task, request, ahead, level>>

Results == {"published", "retried", "dead", "lease_conflicts", "failed"}
Ended == Results \cup {"raised", "cancelled", "unclaimed"}
Executing == {"resolve", "send", "finalize", "retry", "terminal"}

NoRequest == [pc |-> "none", wait |-> 0]

Init ==
  /\ loop = "recover"
  /\ task = [c \in Commands |-> "unclaimed"]
  /\ request = [c \in Commands |-> NoRequest]
  /\ ahead = [n \in Connections |-> 0]
  /\ level = [n \in Connections |-> 0]

-----------------------------------------------------------------------------
(* run_forever: an error of a repository call ends the loop. *)
recover_expired_outbox_leases ==
  /\ loop = "recover" /\ loop' \in {"claim", "raised"}
  /\ UNCHANGED <<task, request, ahead, level>>

claim_due_outbox(batch) ==
  /\ loop = "claim" /\ Cardinality(batch) <= BatchSize
  /\ loop' = IF batch = {} THEN "sleep" ELSE "batch"
  /\ task' = [c \in Commands |-> IF c \in batch THEN "resolve" ELSE "unclaimed"]
  /\ UNCHANGED <<request, ahead, level>>

ClaimRaises ==
  /\ loop = "claim" /\ loop' = "raised" /\ UNCHANGED <<task, request, ahead, level>>

(* Recovery is due every recovery_seconds only. *)
Sleep ==
  /\ loop = "sleep" /\ loop' \in {"recover", "claim"}
  /\ UNCHANGED <<task, request, ahead, level>>

(* gather returns when every task has; then an exception of one is raised. *)
gather_batch ==
  /\ loop = "batch" /\ \A c \in Commands : task[c] \in Ended
  /\ IF \E c \in Commands : task[c] = "raised" THEN loop' = "raised"
     ELSE loop' \in {"recover", "claim"}
  /\ UNCHANGED <<task, request, ahead, level>>

(* The process is told to stop: gather cancels the tasks and waits for them. *)
Cancel ==
  /\ loop \notin {"raised", "stopped", "cancelling"}
  /\ loop' = IF loop = "batch" THEN "cancelling" ELSE "stopped"
  /\ UNCHANGED <<task, request, ahead, level>>

Stop ==
  /\ loop = "cancelling" /\ \A c \in Commands : task[c] \in Ended
  /\ loop' = "stopped" /\ UNCHANGED <<task, request, ahead, level>>

-----------------------------------------------------------------------------
(* ConnectionExecutionGate *)
(* Mutant: a request that waits counts as one that holds a permit. *)
InGateOrWaiting(n) ==
  {c \in Commands : ConnectionOf[c] = n /\ request[c].pc \in {"semaphore", "slot", "sending"}}

InGate(n) == {c \in Commands : ConnectionOf[c] = n /\ request[c].pc \in {"slot", "sending"}}

(* Mutant: a start time is read and not reserved. *)
SlotUnreserved(n) == ahead[n]

wait_for_rate_slot(n) == ahead[n] + interval[n]

(* The semaphore, then a start time: no await lies between them. *)
acquire(c) ==
  LET n == ConnectionOf[c] IN
  /\ request[c].pc = "semaphore" /\ Cardinality(InGate(n)) < max_concurrency[n]
  /\ ahead[n] <= MaxAhead
  /\ request' = [request EXCEPT ![c] = [pc |-> "slot", wait |-> ahead[n]]]
  /\ ahead' = [ahead EXCEPT ![n] = wait_for_rate_slot(n)]
  /\ UNCHANGED <<loop, task, level>>

(* sleep returns at the start time or later. *)
send_command(c) ==
  /\ request[c] = [pc |-> "slot", wait |-> 0]
  /\ request' = [request EXCEPT ![c].pc = "sending"]
  /\ level' = [level EXCEPT ![ConnectionOf[c]] = @ + interval[ConnectionOf[c]]]
  /\ UNCHANGED <<loop, task, ahead>>

(* The transport answers, or raises by its timeout; the permit is returned. *)
TransportReturns(c) ==
  /\ request[c].pc = "sending"
  /\ \E pc \in {"answered", "error"} : request' = [request EXCEPT ![c].pc = pc]
  /\ UNCHANGED <<loop, task, ahead, level>>

Less(t) == IF t = 0 THEN 0 ELSE t - 1

Tick ==
  /\ request' = [c \in Commands |-> [request[c] EXCEPT !.wait = Less(@)]]
  /\ ahead' = [n \in Connections |-> Less(ahead[n])]
  /\ level' = [n \in Connections |-> Less(level[n])]
  /\ UNCHANGED <<loop, task>>

-----------------------------------------------------------------------------
(* _process.  Only what the transport raises may be retryable.                *)
Become(c, pc) ==
  loop = "batch" /\ task' = [task EXCEPT ![c] = pc] /\ UNCHANGED <<loop, ahead, level>>

resolve_by_connection_id(c) ==
  /\ task[c] = "resolve"
  /\ \/ Become(c, "send") /\ request' = [request EXCEPT ![c].pc = "semaphore"]
     \/ Become(c, "terminal") /\ UNCHANGED request

RequestReturns(c) ==
  /\ task[c] = "send" /\ request[c].pc \in {"answered", "error"}
  /\ request' = [request EXCEPT ![c] = NoRequest]
  /\ \E pc \in IF request[c].pc = "answered" THEN {"finalize"} ELSE {"retry", "terminal"} :
       Become(c, pc)

(* Mutant: the request is left running. *)
RequestForgotten(c) == UNCHANGED request

(* request_task.cancel(), then gather: wherever it was, it leaves the gate. *)
CancelRequest(c) == request' = [request EXCEPT ![c] = NoRequest]

(* The lease is lost, or renewing it raises; the request may have ended since. *)
renew_outbox_lease(c) ==
  /\ task[c] = "send" /\ CancelRequest(c)
  /\ \E pc \in {"lease_conflicts", "terminal"} : Become(c, pc)

Finalize(c) ==
  /\ task[c] = "finalize" /\ UNCHANGED request
  /\ \E pc \in {"published", "dead", "lease_conflicts", "terminal"} : Become(c, pc)

(* _handle_failure: an exhausted retry goes on to the terminal failure; any   *)
(* other error of schedule_outbox_retry is not caught.                        *)
schedule_outbox_retry(c) ==
  /\ task[c] = "retry" /\ UNCHANGED request
  /\ \E pc \in {"retried", "terminal", "lease_conflicts", "raised"} : Become(c, pc)

terminal_failure(c) ==
  /\ task[c] = "terminal" /\ UNCHANGED request
  /\ \E pc \in {"dead", "lease_conflicts", "failed"} : Become(c, pc)

(* CancelledError passes every handler of _process. *)
CancelTask(c) ==
  /\ loop = "cancelling" /\ task[c] \in Executing
  /\ task' = [task EXCEPT ![c] = "cancelled"] /\ CancelRequest(c)
  /\ UNCHANGED <<loop, ahead, level>>

-----------------------------------------------------------------------------
Request(c) == acquire(c) \/ send_command(c) \/ TransportReturns(c)

Process(c) ==
  \/ resolve_by_connection_id(c) \/ RequestReturns(c) \/ Finalize(c)
  \/ schedule_outbox_retry(c) \/ terminal_failure(c) \/ CancelTask(c)

Next ==
  \/ recover_expired_outbox_leases \/ ClaimRaises \/ Sleep \/ gather_batch \/ Cancel \/ Stop
  \/ \E batch \in SUBSET Commands : claim_due_outbox(batch)
  \/ \E c \in Commands : Request(c) \/ Process(c) \/ renew_outbox_lease(c)
  \/ Tick

Spec == Init /\ [][Next]_vars

(* The event loop runs what is ready, sleeps end, and the transport and the   *)
(* database answer or raise within their timeouts.  Nothing makes a lease be  *)
(* lost or the process be told to stop.                                        *)
Fairness ==
  /\ WF_vars(Tick) /\ WF_vars(gather_batch) /\ WF_vars(Stop)
  /\ \A c \in Commands : WF_vars(Request(c)) /\ WF_vars(Process(c))

FairSpec == Spec /\ Fairness

-----------------------------------------------------------------------------
(* A request never outlives the task it is for, nor a task its batch: when    *)
(* the worker claims again, stops or dies of an exception, no request is      *)
(* under way and every permit is back, however leases were lost, renewals     *)
(* raised or tasks were cancelled while waiting in the gate                   *)
(* (_send_with_lease_renewal, _gather_batch, acquire).                        *)
NothingOutlives ==
  /\ \A c \in Commands : request[c].pc # "none" => task[c] = "send"
  /\ loop \notin {"batch", "cancelling"} => \A c \in Commands : task[c] \in Ended

(* The rate a Provider sees: in any stretch of time the requests of a         *)
(* connection exceed one per interval by at most max_concurrency + 1, however *)
(* late sleeps return and whoever gives up a start time it has reserved       *)
(* (_wait_for_rate_slot under the semaphore).                                 *)
RateKept ==
  \A n \in Connections : level[n] <= interval[n] * (max_concurrency[n] + 1)

(* A claimed batch ends: no task waits for ever in the gate, although start   *)
(* times are given up and permits are held while sleeping.                    *)
BatchEnds == loop \in {"batch", "cancelling"} ~> loop \notin {"batch", "cancelling"}
=============================================================================

---------------------------- MODULE CaseService -----------------------------
(* Every writer of support_cases and support_case_events.  Calls of           *)
(* agent.cases.service over agent.cases.postgres_repository (handoffs of the  *)
(* graph, status changes and assignments of the staff) are sequences of       *)
(* transactions, between two of which any other call may commit; their writes *)
(* are guarded by the version they have read.  The provider fallback          *)
(* (agent.integrations.provider_failure), the finalizers of the Outbox and of *)
(* the Inbox and the redrive write in one transaction, with the row locked.   *)
EXTENDS HandoffPolicy

CONSTANTS
  None,
  Calls,       \* calls of the service; the client of a call may repeat it
  Workloads,   \* functions call -> what is asked, a record of one of the kinds below
  CaseIds, Agents, Threads, Messages, OrderIds, RequestIds,
  MAX_WRITE_ATTEMPTS

(* A handoff is record_handoff, or record_delivery_investigation if           *)
(* connected; a failure is move_to_manual_review, a dead command the Outbox's *)
(* technical failure of an operation; a status is changed by an agent or by   *)
(* None, a supervisor.  finalize, callback and redrive are what the Outbox,   *)
(* the Inbox and an administrator do to a case.  risk is the rank of          *)
(* risk_level, 0 when there is none.                                          *)
Handoffs ==
  [kind : {"handoff"}, thread : Threads, message : Messages, order : OrderIds \cup {None},
   case_type : Range(CASE_TYPES), priority : 0 .. 3, reasons : SUBSET HandoffReason,
   risk : Nat, connected : BOOLEAN]
Failures ==
  [kind : {"failure", "dead_command"}, thread : Threads, message : Messages, order : OrderIds]
StatusChanges ==
  [kind : {"status"}, id : RequestIds, target : CaseStatus, by : Agents \cup {None}]
Assignments == [kind : {"assign"}, id : RequestIds, agent : Agents]
Finalizations == [kind : {"finalize"}, outcome : {"accepted", "rejected", "failed"}]
Requests ==
  Handoffs \cup Failures \cup StatusChanges \cup Assignments \cup Finalizations
    \cup [kind : {"callback", "redrive", "none"}]

(* A row of support_cases. *)
SupportCase ==
  [thread : Threads, order : OrderIds \cup {None}, case_type : Range(CASE_TYPES),
   priority : 0 .. 3, risk : Nat, reasons : SUBSET HandoffReason, status : CaseStatus,
   agent : Agents \cup {None}, version : Nat]

(* The handoff policy never makes a review of an operation a p0 case. *)
ASSUME CaseAssumption ==
  /\ None \notin CaseIds \cup Agents \cup CaseStatus
  /\ None \notin SupportCase /\ None \notin Nat
  /\ Workloads \subseteq [Calls -> Requests]
  /\ \A w \in Workloads : \A c \in Calls :
       w[c].kind = "handoff" /\ w[c].case_type = "order_operation_review" =>
         w[c].priority # 0
  /\ MAX_WRITE_ATTEMPTS \in Nat \ {0}

VARIABLES
  request,    \* what each call asks, one of the Workloads
  cases,      \* case id -> row of support_cases, or None
  history,    \* case id -> its support_case_events, in commit order
  commands,   \* case id -> Outbox commands sent for it
  delivery,   \* case id -> "none", "pending" or how its command ended
  calls,      \* call -> [pc, attempt, case, row]: where it is, what it has read
  directory   \* agents active in the identity directory

vars == <<request, cases, history, commands, delivery, calls, directory>>
tables == <<cases, history, commands, delivery>>

Idle == [pc |-> "idle", attempt |-> 1, case |-> None, row |-> None]

Init ==
  /\ request \in Workloads
  /\ cases = [k \in CaseIds |-> None]
  /\ history = [k \in CaseIds |-> <<>>]
  /\ commands = [k \in CaseIds |-> 0]
  /\ delivery = [k \in CaseIds |-> "none"]
  /\ calls = [c \in Calls |-> Idle]
  /\ directory = Agents

Stored == {k \in CaseIds : cases[k] # None}
Events == UNION {Range(history[k]) : k \in CaseIds}
At(c, pc) == calls[c].pc = pc
Kind(c) == request[c].kind

Goto(c, pc) == calls' = [calls EXCEPT ![c].pc = pc]
Return(c, action) == Goto(c, action) /\ UNCHANGED <<tables, directory>>

(* The loop over max_write_attempts. *)
Retry(c, pc) ==
  /\ calls' = [calls EXCEPT
                 ![c] = IF calls[c].attempt < MAX_WRITE_ATTEMPTS
                        THEN [@ EXCEPT !.pc = pc, !.attempt = calls[c].attempt + 1]
                        ELSE [@ EXCEPT !.pc = "concurrent_update"]]
  /\ UNCHANGED <<tables, directory>>

-----------------------------------------------------------------------------
(* The tables *)

(* uq_support_cases_active_thread_type, uq_support_cases_active_delivery_order *)
ActiveConflict(a, b) ==
  /\ a.status \in UNRESOLVED_STATUSES /\ b.status \in UNRESOLVED_STATUSES
  /\ a.thread = b.thread /\ a.case_type = b.case_type
  /\ a.case_type = "delivery_investigation" => a.order = b.order

ViolatesActive(k, row) == \E j \in Stored \ {k} : ActiveConflict(row, cases[j])

(* uq_support_case_events_idempotency *)
KeyUsed(key) == \E e \in Events : e.key = key

(* Mutant: the key of a trigger names the case type. *)
KeyOfType(c) == <<"message", request[c].thread, request[c].message, request[c].case_type>>

message_idempotency_key(c) == <<"message", request[c].thread, request[c].message>>

(* Mutant: the write does not check the version. *)
Unversioned(c) == TRUE

VersionMatches(c) == cases[calls[c].case].version = calls[c].row.version

(* The row and an event, in one transaction. *)
Record(c, k, row, event, action) ==
  /\ cases' = [cases EXCEPT ![k] = row]
  /\ history' = [history EXCEPT ![k] = Append(@, event)]
  /\ calls' = [calls EXCEPT ![c] = [@ EXCEPT !.pc = action, !.case = k]]
  /\ UNCHANGED directory

(* With them, for some, a command. *)
Write(c, k, row, event, command, action) ==
  /\ Record(c, k, row, event, action)
  /\ commands' = IF command THEN [commands EXCEPT ![k] = @ + 1] ELSE commands
  /\ delivery' = IF command THEN [delivery EXCEPT ![k] = "pending"] ELSE delivery

-----------------------------------------------------------------------------
(* record_handoff and record_delivery_investigation *)
FindBySourceMessage(c) ==
  LET found == {k \in Stored : /\ cases[k].thread = request[c].thread
                               /\ \E e \in Range(history[k]) : e.message = request[c].message}
  IN /\ Kind(c) = "handoff" /\ calls[c].pc \in {"idle", "again"}
     /\ Return(c, IF found # {} THEN "duplicate_ignored" ELSE "lookup")

Matches(c, row) ==
  /\ row.thread = request[c].thread /\ row.case_type = request[c].case_type
  /\ row.case_type = "delivery_investigation" => row.order = request[c].order
  /\ row.status \in UNRESOLVED_STATUSES

FindUnresolvedCase(c) ==
  LET found == {k \in Stored : Matches(c, cases[k])} IN
  /\ At(c, "lookup")
  /\ \/ found = {} /\ calls' = [calls EXCEPT ![c] = [@ EXCEPT !.pc = "create", !.row = None]]
     \/ \E k \in found :
          calls' = [calls EXCEPT ![c] = [@ EXCEPT !.pc = "append", !.case = k,
                                                  !.row = cases[k]]]
  /\ UNCHANGED <<tables, directory>>

(* The event of a trigger: what the message adds to the case. *)
Trigger(c) ==
  [key |-> message_idempotency_key(c), message |-> request[c].message,
   reasons |-> request[c].reasons, priority |-> request[c].priority, risk |-> request[c].risk,
   status |-> None, agent |-> None, by |-> None, connected |-> request[c].connected]

create_case(c) ==
  LET row == [thread |-> request[c].thread, order |-> request[c].order,
              case_type |-> request[c].case_type, priority |-> request[c].priority,
              risk |-> request[c].risk, reasons |-> request[c].reasons,
              status |-> "open", agent |-> None, version |-> 1]
  IN /\ At(c, "create")
     /\ \E k \in CaseIds \ Stored :
          IF ViolatesActive(k, row) \/ KeyUsed(message_idempotency_key(c))
          THEN Retry(c, "again")
          ELSE Write(c, k, row, [Trigger(c) EXCEPT !.status = "open"], request[c].connected,
                     "created")

select_higher_risk_level(current, incoming) == Max({current, incoming})

(* Mutant: an investigation found without a command stays without one. *)
NeverSends(c) == FALSE

(* append_delivery_trigger_and_ensure_command *)
SendsCommand(c) == request[c].connected /\ commands[calls[c].case] = 0

append_trigger(c) ==
  LET existing == calls[c].row
      row == [existing EXCEPT
                !.order = IF @ # None THEN @ ELSE request[c].order,
                !.priority = select_higher_priority(@, request[c].priority),
                !.risk = select_higher_risk_level(@, request[c].risk),
                !.reasons = @ \cup request[c].reasons,
                !.version = @ + 1]
  IN /\ At(c, "append")
     /\ IF ~VersionMatches(c) \/ KeyUsed(message_idempotency_key(c))
        THEN Retry(c, "again")
        ELSE Write(c, calls[c].case, row, Trigger(c), SendsCommand(c), "event_appended")

-----------------------------------------------------------------------------
(* The review of an operation the Provider failed, in one transaction with    *)
(* the operation.  The case that is reused is locked; a transaction that      *)
(* loses the race to create one is undone, and made again.                    *)
FailureEvent(c) ==
  [key |-> <<"failure", c>>, message |-> request[c].message,
   reasons |-> {<<"provider_delivery_failed">>}, priority |-> 1, risk |-> 0,
   status |-> None, agent |-> None, by |-> None, connected |-> FALSE]

EnsureReview(c) ==
  LET open == {k \in Stored : /\ cases[k].thread = request[c].thread
                              /\ cases[k].case_type = "order_operation_review"
                              /\ cases[k].status \in UNRESOLVED_STATUSES}
      new == [thread |-> request[c].thread, order |-> request[c].order,
              case_type |-> "order_operation_review", priority |-> 1, risk |-> 0,
              reasons |-> {<<"provider_delivery_failed">>}, status |-> "open",
              agent |-> None, version |-> 1]
  IN \/ \E k \in open :
          Write(c, k, [cases[k] EXCEPT !.priority = 1,
                                       !.reasons = @ \cup {<<"provider_delivery_failed">>},
                                       !.version = @ + 1],
                FailureEvent(c), FALSE, "reused")
     \/ /\ open = {}
        /\ \E k \in CaseIds \ Stored :
             Write(c, k, new, [FailureEvent(c) EXCEPT !.status = "open"], FALSE, "created")

(* No command could be prepared for the operation. *)
move_to_manual_review(c) == Kind(c) = "failure" /\ At(c, "idle") /\ EnsureReview(c)

(* The command of the operation is dead, and not by a rejection. *)
ensure_technical_review_case(c) ==
  Kind(c) = "dead_command" /\ At(c, "idle") /\ EnsureReview(c)

-----------------------------------------------------------------------------
(* What becomes of the command of an investigation.  These events carry       *)
(* neither reasons nor a status; their key tells what they are.               *)
ProviderEvent(key) ==
  [key |-> key, message |-> None, reasons |-> {}, priority |-> None, risk |-> 0,
   status |-> None, agent |-> None, by |-> None, connected |-> FALSE]

Investigations(states) ==
  {k \in Stored : cases[k].case_type = "delivery_investigation" /\ delivery[k] \in states}

(* The Outbox: a dead command marks the case, unless it is marked already. *)
finalize_case(c) ==
  LET outcome == request[c].outcome
      mark == <<"provider_delivery_failed">>
      status == IF outcome = "accepted" THEN "accepted" ELSE "rejected"
  IN /\ Kind(c) = "finalize" /\ At(c, "idle")
     /\ \E k \in Investigations({"pending"}) :
          /\ Record(c, k,
                    IF status = "rejected" /\ mark \notin cases[k].reasons
                    THEN [cases[k] EXCEPT !.reasons = @ \cup {mark}, !.version = @ + 1]
                    ELSE cases[k],
                    ProviderEvent(<<status, c>>), "finalized")
          /\ delivery' = [delivery EXCEPT ![k] = outcome] /\ UNCHANGED commands

(* A worker died with its last attempt: nobody writes to the case. *)
recover_expired_outbox_leases(k) ==
  /\ delivery[k] = "pending" /\ delivery' = [delivery EXCEPT ![k] = "failed"]
  /\ UNCHANGED <<cases, history, commands, calls, directory>>

(* The Inbox: a callback about a command that has ended. *)
finalize_support_case(c) ==
  /\ Kind(c) = "callback" /\ At(c, "idle")
  /\ \E k \in Investigations({"accepted", "rejected", "failed"}) :
       Record(c, k, cases[k], ProviderEvent(<<"webhook", c>>), "finalized")
  /\ UNCHANGED <<commands, delivery>>

(* A redrive leaves an event on the investigation, or on the review of the    *)
(* operation, which has left that review and can be redriven no more.         *)
audit_support_case(c) ==
  /\ Kind(c) = "redrive" /\ At(c, "idle")
  /\ \E k \in Investigations({"failed"}) :
       /\ Record(c, k, cases[k], ProviderEvent(<<"redrive", c>>), "redriven")
       /\ delivery' = [delivery EXCEPT ![k] = "pending"] /\ UNCHANGED commands

recover_operation(c) ==
  /\ Kind(c) = "redrive" /\ At(c, "idle")
  /\ \E d \in Calls :
       LET k == calls[d].case IN
       /\ Kind(d) = "dead_command" /\ calls[d].pc \in {"reused", "created"}
       /\ k \in Stored /\ ~KeyUsed(<<"redrive", d>>)
       /\ Record(c, k, cases[k], ProviderEvent(<<"redrive", d>>), "redriven")
  /\ UNCHANGED <<commands, delivery>>

-----------------------------------------------------------------------------
(* Mutant: an agent sees every case. *)
AllVisible(c, k) == TRUE

(* The staff.  case_visibility: an agent sees the cases assigned to them, a   *)
(* supervisor all of them.                                                    *)
Visible(c, k) == request[c].by = None \/ cases[k].agent = request[c].by

idempotency_key(c, k) == <<Kind(c), k, request[c].id>>

Read(c, k, pc) ==
  /\ calls' = [calls EXCEPT ![c] = [@ EXCEPT !.pc = pc, !.case = k, !.row = cases[k]]]
  /\ UNCHANGED <<tables, directory>>

(* A repeated request is answered from its event. *)
change_status(c) ==
  /\ Kind(c) = "status" /\ At(c, "idle")
  /\ \E k \in Stored :
       CASE ~Visible(c, k) -> Return(c, "not_found")
         [] Visible(c, k) /\ KeyUsed(idempotency_key(c, k)) -> Return(c, "status_unchanged")
         [] OTHER -> /\ calls' = [calls EXCEPT ![c] = [@ EXCEPT !.pc = "read", !.case = k]]
                     /\ UNCHANGED <<tables, directory>>

ReadForStatus(c) ==
  LET k == calls[c].case
      target == request[c].target
  IN /\ Kind(c) = "status" /\ At(c, "read")
     /\ CASE ~Visible(c, k) -> Return(c, "not_found")
          [] Visible(c, k) /\ ~validate_case_status_transition(cases[k].status, target) ->
               Return(c, "invalid_transition")
          [] Visible(c, k) /\ cases[k].status = target -> Return(c, "status_unchanged")
          [] OTHER -> Read(c, k, "write")

StaffEvent(c) ==
  [key |-> idempotency_key(c, calls[c].case), message |-> None, reasons |-> {},
   priority |-> None, risk |-> 0,
   status |-> IF Kind(c) = "status" THEN request[c].target ELSE None,
   agent |-> IF Kind(c) = "assign" THEN request[c].agent ELSE None,
   by |-> IF Kind(c) = "status" THEN request[c].by ELSE None, connected |-> FALSE]

(* A case reopened beside another one: ActiveCaseConflictError is not handled. *)
WriteStatus(c) ==
  LET k == calls[c].case
      row == [calls[c].row EXCEPT !.status = request[c].target, !.version = @ + 1]
  IN /\ Kind(c) = "status" /\ At(c, "write")
     /\ CASE ~VersionMatches(c) \/ ~Visible(c, k) -> Retry(c, "read")
          [] VersionMatches(c) /\ Visible(c, k) /\ ViolatesActive(k, row) ->
               Return(c, "active_case_conflict")
          [] VersionMatches(c) /\ Visible(c, k) /\ ~ViolatesActive(k, row)
             /\ KeyUsed(idempotency_key(c, k)) -> Return(c, "status_unchanged")
          [] OTHER -> Write(c, k, row, StaffEvent(c), FALSE, "status_changed")

assign_case(c) ==
  /\ Kind(c) = "assign" /\ At(c, "idle")
  /\ \E k \in Stored :
       IF KeyUsed(idempotency_key(c, k)) THEN Return(c, "status_unchanged")
       ELSE /\ calls' = [calls EXCEPT ![c] = [@ EXCEPT !.pc = "check", !.case = k]]
            /\ UNCHANGED <<tables, directory>>

require_assignment_target(c) == request[c].agent \in directory

CheckTarget(c) ==
  /\ At(c, "check")
  /\ Return(c, IF require_assignment_target(c) THEN "read" ELSE "target_unavailable")

ReadForAssign(c) ==
  LET k == calls[c].case IN
  /\ Kind(c) = "assign" /\ At(c, "read")
  /\ IF cases[k].agent = request[c].agent THEN Return(c, "status_unchanged")
     ELSE Read(c, k, "write")

WriteAssign(c) ==
  LET k == calls[c].case
      row == [calls[c].row EXCEPT !.agent = request[c].agent, !.version = @ + 1]
  IN /\ Kind(c) = "assign" /\ At(c, "write")
     /\ CASE ~VersionMatches(c) -> Retry(c, "read")
          [] VersionMatches(c) /\ KeyUsed(idempotency_key(c, k)) ->
               Return(c, "status_unchanged")
          [] OTHER -> Write(c, k, row, StaffEvent(c), FALSE, "assigned")

(* An agent is deactivated in the directory. *)
AgentLeaves(a) ==
  a \in directory /\ directory' = directory \ {a} /\ UNCHANGED <<tables, calls>>

-----------------------------------------------------------------------------
Step(c) ==
  \/ FindBySourceMessage(c) \/ FindUnresolvedCase(c) \/ create_case(c) \/ append_trigger(c)
  \/ move_to_manual_review(c) \/ ensure_technical_review_case(c)
  \/ finalize_case(c) \/ finalize_support_case(c)
  \/ audit_support_case(c) \/ recover_operation(c)
  \/ change_status(c) \/ ReadForStatus(c) \/ WriteStatus(c)
  \/ assign_case(c) \/ CheckTarget(c) \/ ReadForAssign(c) \/ WriteAssign(c)

Next ==
  /\ \/ \E c \in Calls : Step(c)
     \/ \E a \in Agents : AgentLeaves(a)
     \/ \E k \in CaseIds : recover_expired_outbox_leases(k)
  /\ UNCHANGED request

Spec == Init /\ [][Next]_vars

-----------------------------------------------------------------------------
(* The status and the assignee that the first n events of a case leave. *)
StatusAfter(h, n, s) ==
  \E i \in 1 .. n : h[i].status = s /\ s # None /\ \A j \in i + 1 .. n : h[j].status = None

AgentAfter(h, n, a) ==
  \/ a = None /\ \A i \in 1 .. n : h[i].agent = None
  \/ \E i \in 1 .. n : h[i].agent = a /\ a # None /\ \A j \in i + 1 .. n : h[j].agent = None

(* What an event adds to the reasons of its case: those it carries, or the    *)
(* mark of a command that died, which its event does not carry.               *)
Added(e) == IF e.key[1] = "rejected" THEN {<<"provider_delivery_failed">>} ELSE e.reasons

(* The events that came with a new version of the row: those of the service,  *)
(* of the staff and of a review, and the death of a command on a case that    *)
(* was not marked.  An acceptance, a callback and a redrive leave the row.    *)
ChangedRow(h, i) ==
  \/ h[i].key[1] \in {"message", "failure", "status", "assign"}
  \/ /\ h[i].key[1] = "rejected"
     /\ \A j \in 1 .. i - 1 : <<"provider_delivery_failed">> \notin Added(h[j])

(* The row of a case is the sum of its events, whatever calls, finalizers and *)
(* redrives raced: its reasons are all they add, its priority and risk the    *)
(* highest of theirs, its status and assignee those of the last change, and   *)
(* its version the number of events that changed it.  A merge from a stale    *)
(* read would lose one (_append_trigger, change_status, assign_case,          *)
(* update_case_with_event, _finalize_case).                                   *)
RowIsItsHistory ==
  \A k \in Stored :
    LET h == history[k] IN
    /\ cases[k].version = Cardinality({i \in DOMAIN h : ChangedRow(h, i)})
    /\ cases[k].reasons = UNION {Added(e) : e \in Range(h)}
    /\ cases[k].priority = Min({e.priority : e \in {x \in Range(h) : x.priority # None}})
    /\ cases[k].risk = Max({e.risk : e \in Range(h)})
    /\ StatusAfter(h, Len(h), cases[k].status)
    /\ AgentAfter(h, Len(h), cases[k].agent)

OfMessage(c, k, i) ==
  /\ cases[k].thread = request[c].thread
  /\ i \in DOMAIN history[k] /\ history[k][i].message = request[c].message

(* A handoff that was answered is recorded, and recorded once: repeated runs  *)
(* of the same message leave one trigger on one case, beside what a provider  *)
(* fallback of that message may add, also when a repeated classification      *)
(* asked for another type of case (find_by_source_message, the idempotency    *)
(* key, the retry after DuplicateSourceMessageError).                         *)
HandoffRecordedOnce ==
  \A c \in Calls :
    Kind(c) = "handoff" =>
      /\ \A k, l \in Stored : \A i \in DOMAIN history[k], j \in DOMAIN history[l] :
           /\ OfMessage(c, k, i) /\ history[k][i].key[1] = "message"
           /\ OfMessage(c, l, j) /\ history[l][j].key[1] = "message"
           => k = l /\ i = j
      /\ calls[c].pc \in {"created", "event_appended", "duplicate_ignored"} =>
           \E k \in Stored : \E i \in DOMAIN history[k] : OfMessage(c, k, i)

(* A delivery investigation is sent to the Provider once: with the first      *)
(* trigger that had a connection, which may find the case already there, and  *)
(* never again (append_delivery_trigger_and_ensure_command).                  *)
InvestigationSentOnce ==
  \A k \in CaseIds :
    commands[k] = IF \E e \in Range(history[k]) : e.connected THEN 1 ELSE 0

(* An agent changes a case only while it is assigned to them, also when the   *)
(* case is reassigned while their change is under way (case_visibility in the *)
(* UPDATE, the version check).                                                *)
AgentsActOnTheirCases ==
  \A k \in CaseIds : \A i \in DOMAIN history[k] :
    history[k][i].by # None => AgentAfter(history[k], i - 1, history[k][i].by)
=============================================================================

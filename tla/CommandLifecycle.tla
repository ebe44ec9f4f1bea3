-------------------------- MODULE CommandLifecycle --------------------------
(* What a Provider command and the order operation it acts on go through, as *)
(* a customer and the staff see it.  The Outbox (ProviderOutbox), the Inbox  *)
(* (ProviderInbox) and the customer's side (OperationFlow) each implement    *)
(* this specification: every transaction of theirs is one of these steps, or *)
(* leaves delivery and status alone.                                         *)
CONSTANTS
  Operations,      \* commands whose aggregate is an order operation
  Investigations   \* commands whose aggregate is a delivery-investigation case

Commands == Operations \cup Investigations

VARIABLES
  delivery,  \* command -> what became of its delivery
  status     \* operation -> OperationRecordStatus of its row

lifecycle == <<delivery, status>>

(* The statuses of an Outbox row, without the ones a worker passes through;  *)
(* a dead row is rejected or failed by its last_failure_kind.                *)
Deliveries == {"none", "undecided", "published", "rejected", "failed"}

OperationRecordStatus ==
  {"pending_confirmation", "queued", "submitted", "processing", "completed",
   "rejected", "manual_review", "cancelled_by_customer"}

WithStatus(S, s) == [o \in Operations |-> IF o \in S THEN s ELSE status[o]]

LifecycleInit ==
  /\ delivery = [c \in Commands |-> "none"]
  /\ status \in [Operations -> {"absent", "pending_confirmation"}]

(* The customer's side: an operation is recorded, then confirmed or declined. *)
Record(o) ==
  /\ status[o] = "absent"
  /\ status' = WithStatus({o}, "pending_confirmation")
  /\ UNCHANGED delivery

Decline(o) ==
  /\ status[o] = "pending_confirmation"
  /\ status' = WithStatus({o}, "cancelled_by_customer")
  /\ UNCHANGED delivery

(* Confirmed for the staff to handle: no command is sent. *)
Review(o) ==
  /\ status[o] = "pending_confirmation"
  /\ status' = WithStatus({o}, "manual_review")
  /\ UNCHANGED delivery

Queue(c) ==
  /\ delivery[c] = "none"
  /\ c \in Operations => status[c] = "pending_confirmation"
  /\ delivery' = [delivery EXCEPT ![c] = "undecided"]
  /\ status' = WithStatus({c}, "queued")

(* The delivery is decided, together with the operation. *)
Accept(c) ==
  /\ delivery[c] = "undecided"
  /\ delivery' = [delivery EXCEPT ![c] = "published"]
  /\ status' = WithStatus({c}, "submitted")

Reject(c) ==
  /\ delivery[c] = "undecided"
  /\ delivery' = [delivery EXCEPT ![c] = "rejected"]
  /\ status' = WithStatus({c}, "rejected")

(* A recovery transaction fails several commands at once. *)
Fail(S) ==
  /\ S # {} /\ \A c \in S : delivery[c] = "undecided"
  /\ delivery' = [c \in Commands |-> IF c \in S THEN "failed" ELSE delivery[c]]
  /\ status' = WithStatus(S, "manual_review")

Redrive(c) ==
  /\ delivery[c] = "failed"
  /\ delivery' = [delivery EXCEPT ![c] = "undecided"]
  /\ status' = WithStatus({c}, "queued")

(* The Provider reports progress on a command it has accepted. *)
Progress(s) ==
  CASE s = "submitted" -> {"processing", "completed", "rejected"}
    [] s = "processing" -> {"completed", "rejected"}
    [] OTHER -> {}

Callback(o) ==
  /\ delivery[o] = "published"
  /\ \E s \in Progress(status[o]) : status' = WithStatus({o}, s)
  /\ UNCHANGED delivery

LifecycleNext ==
  \/ \E o \in Operations : Record(o) \/ Decline(o) \/ Review(o) \/ Callback(o)
  \/ \E c \in Commands : Queue(c) \/ Accept(c) \/ Reject(c) \/ Redrive(c)
  \/ \E S \in SUBSET Commands : Fail(S)

(* Every step of the Outbox, of the Inbox and of the customer's confirmation *)
(* is a step of this lifecycle: however transactions interleave, a delivery  *)
(* is decided once per cycle, only a failed one is redriven, and operation   *)
(* and delivery move together (_finalize, recovery, redrive_outbox,          *)
(* finalize_order_operation, queue_operation_with_events_and_command).       *)
Lifecycle == LifecycleInit /\ [][LifecycleNext]_lifecycle

-----------------------------------------------------------------------------
(* What the lifecycle promises whoever reads one of the two: an operation is *)
(* queued exactly while its delivery is undecided, and past queued only with *)
(* the delivery that took it there.                                          *)
Agreement ==
  \A o \in Operations :
    /\ delivery[o] = "undecided" <=> status[o] = "queued"
    /\ delivery[o] = "published" =>
         status[o] \in {"submitted", "processing", "completed", "rejected"}
    /\ delivery[o] = "rejected" => status[o] = "rejected"
    /\ delivery[o] = "failed" => status[o] = "manual_review"
    /\ delivery[o] = "none" =>
         status[o] \in {"absent", "pending_confirmation", "manual_review",
                        "cancelled_by_customer"}

(* Every command has a delivery and every operation a status. *)
LifecycleType ==
  /\ delivery \in [Commands -> Deliveries]
  /\ status \in [Operations -> OperationRecordStatus \cup {"absent"}]
=============================================================================

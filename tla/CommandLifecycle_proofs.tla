---------------------- MODULE CommandLifecycle_proofs -----------------------
(* What every implementation of the lifecycle inherits from it. *)
EXTENDS CommandLifecycle, TLAPS

LEMMA LifecycleStart == LifecycleInit => LifecycleType /\ Agreement
<1> SUFFICES ASSUME LifecycleInit PROVE LifecycleType /\ Agreement
  OBVIOUS
<1>1. LifecycleType
  BY DEF LifecycleInit, LifecycleType, Deliveries, OperationRecordStatus
<1>2. \A o \in Operations :
        delivery[o] = "none" /\ status[o] \in {"absent", "pending_confirmation"}
  BY DEF LifecycleInit, Commands
<1> QED
  BY <1>1, <1>2 DEF Agreement

(* The delivery and the status of one operation move together. *)
Agrees(o) ==
  /\ delivery[o] = "undecided" <=> status[o] = "queued"
  /\ delivery[o] = "published" =>
       status[o] \in {"submitted", "processing", "completed", "rejected"}
  /\ delivery[o] = "rejected" => status[o] = "rejected"
  /\ delivery[o] = "failed" => status[o] = "manual_review"
  /\ delivery[o] = "none" =>
       status[o] \in {"absent", "pending_confirmation", "manual_review",
                      "cancelled_by_customer"}

(* What a step of the lifecycle may do to one operation. *)
OperationStep(o) ==
  \/ delivery'[o] = delivery[o] /\ status'[o] = status[o]
  \/ delivery'[o] = delivery[o] /\ status[o] = "absent" /\ status'[o] = "pending_confirmation"
  \/ /\ delivery'[o] = delivery[o] /\ status[o] = "pending_confirmation"
     /\ status'[o] \in {"cancelled_by_customer", "manual_review"}
  \/ /\ delivery[o] = "none" /\ delivery'[o] = "undecided"
     /\ status[o] = "pending_confirmation" /\ status'[o] = "queued"
  \/ /\ delivery[o] = "undecided"
     /\ \/ delivery'[o] = "published" /\ status'[o] = "submitted"
        \/ delivery'[o] = "rejected" /\ status'[o] = "rejected"
        \/ delivery'[o] = "failed" /\ status'[o] = "manual_review"
  \/ delivery[o] = "failed" /\ delivery'[o] = "undecided" /\ status'[o] = "queued"
  \/ /\ delivery[o] = "published" /\ delivery'[o] = "published"
     /\ status'[o] \in Progress(status[o])

LEMMA LifecycleShape ==
  ASSUME LifecycleType, [LifecycleNext]_lifecycle, NEW o \in Operations
  PROVE  OperationStep(o)
<1>1. o \in Commands
  BY DEF Commands
<1>2. CASE UNCHANGED lifecycle
  BY <1>2 DEF lifecycle, OperationStep
<1>3. ASSUME NEW p \in Operations, Record(p) \/ Decline(p) \/ Review(p) PROVE OperationStep(o)
  BY <1>3 DEF Record, Decline, Review, WithStatus, OperationStep
<1>4. ASSUME NEW p \in Operations, Callback(p) PROVE OperationStep(o)
  BY <1>4 DEF Callback, WithStatus, OperationStep
<1>5. ASSUME NEW c \in Commands, Queue(c) PROVE OperationStep(o)
  BY <1>1, <1>5 DEF Queue, WithStatus, OperationStep, LifecycleType
<1>6. ASSUME NEW c \in Commands, Accept(c) \/ Reject(c) \/ Redrive(c) PROVE OperationStep(o)
  BY <1>1, <1>6 DEF Accept, Reject, Redrive, WithStatus, OperationStep, LifecycleType
<1>7. ASSUME NEW S \in SUBSET Commands, Fail(S) PROVE OperationStep(o)
  BY <1>1, <1>7 DEF Fail, WithStatus, OperationStep
<1> QED
  BY <1>2, <1>3, <1>4, <1>5, <1>6, <1>7 DEF LifecycleNext

LEMMA TypeOfStep ==
  ASSUME LifecycleType, [LifecycleNext]_lifecycle
  PROVE  LifecycleType'
<1> USE DEF Deliveries, OperationRecordStatus
<1>1. ASSUME NEW S, NEW s \in OperationRecordStatus
      PROVE  WithStatus(S, s) \in [Operations -> OperationRecordStatus \cup {"absent"}]
  BY DEF WithStatus, LifecycleType
<1>2. CASE UNCHANGED lifecycle
  BY <1>2 DEF lifecycle, LifecycleType
<1>3. ASSUME NEW p \in Operations, Record(p) \/ Decline(p) \/ Review(p) PROVE LifecycleType'
  BY <1>1, <1>3 DEF Record, Decline, Review, LifecycleType
<1>4. ASSUME NEW p \in Operations, Callback(p) PROVE LifecycleType'
  <2>1. Progress(status[p]) \subseteq OperationRecordStatus
    BY DEF Progress
  <2> QED
    BY <1>1, <1>4, <2>1 DEF Callback, LifecycleType
<1>5. ASSUME NEW c \in Commands, Queue(c) \/ Accept(c) \/ Reject(c) \/ Redrive(c)
      PROVE  LifecycleType'
  BY <1>1, <1>5 DEF Queue, Accept, Reject, Redrive, LifecycleType
<1>6. ASSUME NEW S \in SUBSET Commands, Fail(S) PROVE LifecycleType'
  BY <1>1, <1>6 DEF Fail, LifecycleType
<1> QED
  BY <1>2, <1>3, <1>4, <1>5, <1>6 DEF LifecycleNext

LEMMA AgreementKept ==
  ASSUME LifecycleType, Agreement, [LifecycleNext]_lifecycle
  PROVE  Agreement'
<1>1. ASSUME NEW o \in Operations PROVE Agrees(o)'
  <2>1. Agrees(o) /\ OperationStep(o)
    BY LifecycleShape DEF Agreement, Agrees
  <2>2. CASE delivery[o] = "published" /\ delivery'[o] = "published"
             /\ status'[o] \in Progress(status[o])
    BY <2>2 DEF Progress, Agrees
  <2> QED
    BY <2>1, <2>2 DEF OperationStep, Agrees
<1> QED
  BY <1>1 DEF Agreement, Agrees

(* Whoever implements the lifecycle keeps delivery and status in agreement:  *)
(* an operation is queued exactly while its delivery is undecided, and past  *)
(* queued only with the delivery that took it there (_finalize, recovery,    *)
(* redrive_outbox, finalize_order_operation).                                *)
THEOREM LifecycleAgrees == Lifecycle => []Agreement
<1> DEFINE Inv == LifecycleType /\ Agreement
<1>1. LifecycleInit => Inv
  BY LifecycleStart
<1>2. Inv /\ [LifecycleNext]_lifecycle => Inv'
  BY TypeOfStep, AgreementKept
<1>3. Inv => Agreement
  OBVIOUS
<1> HIDE DEF Inv
<1> QED
  BY <1>1, <1>2, <1>3, PTL DEF Lifecycle
=============================================================================

----------------------- MODULE DispatchWorker_proofs -----------------------
(* One outbound worker: requests and tasks do not outlive the batch, and the *)
(* rate a connection sees is bounded, for any commands, connections, permits *)
(* and intervals.                                                            *)
EXTENDS DispatchWorker, FiniteSetTheorems, TLAPS

RequestType == [pc : {"none", "semaphore", "slot", "sending", "answered", "error"}, wait : Nat]

WorkerType ==
  /\ task \in [Commands -> Ended \cup Executing]
  /\ request \in [Commands -> RequestType]
  /\ ahead \in [Connections -> Nat] /\ level \in [Connections -> Nat]

-----------------------------------------------------------------------------
(* The gate of a connection: who holds a permit, who of them waits for its   *)
(* start, and whose start has come within t ticks.                           *)
Holders(q, n) == {c \in Commands : ConnectionOf[c] = n /\ q[c].pc \in {"slot", "sending"}}
Slots(q, n) == {c \in Commands : ConnectionOf[c] = n /\ q[c].pc = "slot"}
Due(q, n, t) == {c \in Slots(q, n) : q[c].wait <= t}

(* What a connection is owed, l for the requests started and one interval    *)
(* for each start reserved, exceeds the next free start by at most the       *)
(* permits; what comes due within t ticks exceeds t by at most one more.     *)
Rate(q, a, l, n) ==
  /\ Cardinality(Holders(q, n)) <= max_concurrency[n]
  /\ l + interval[n] * Cardinality(Slots(q, n)) <= a + interval[n] * max_concurrency[n]
  /\ \A t \in Nat :
       l + interval[n] * Cardinality(Due(q, n, t)) <= t + interval[n] * (max_concurrency[n] + 1)

WorkerInv ==
  /\ WorkerType /\ NothingOutlives
  /\ \A n \in Connections : Rate(request, ahead[n], level[n], n)

-----------------------------------------------------------------------------
LEMMA Finite ==
  ASSUME NEW S \in SUBSET Commands, NEW T \in SUBSET S
  PROVE  /\ IsFiniteSet(S) /\ IsFiniteSet(T) /\ Cardinality(S) \in Nat /\ Cardinality(T) \in Nat
         /\ Cardinality(T) <= Cardinality(S)
BY GateAssumption, FS_Subset, FS_CardinalityType

LEMMA Products ==
  ASSUME NEW i \in Nat, NEW a \in Nat, NEW b \in Nat
  PROVE  /\ i * a \in Nat /\ i * (a + 1) = i * a + i
         /\ a <= b => i * a <= i * b
<1>1. i * a \in Nat /\ i * (a + 1) = i * a + i
  OBVIOUS
<1>2. ASSUME a <= b PROVE i * a <= i * b
  <2>1. b - a \in Nat /\ b = a + (b - a)
    BY <1>2
  <2>2. \A d \in Nat : i * (a + d) = i * a + i * d /\ i * d \in Nat
    OBVIOUS
  <2> QED
    BY <1>1, <2>1, <2>2
<1> QED
  BY <1>1, <1>2

(* The sets of a connection are finite, each within the one before. *)
LEMMA GateSets ==
  ASSUME NEW q, NEW n \in Connections, NEW t \in Nat
  PROVE  /\ Holders(q, n) \in SUBSET Commands
         /\ Slots(q, n) \in SUBSET Holders(q, n) /\ Due(q, n, t) \in SUBSET Slots(q, n)
         /\ Cardinality(Holders(q, n)) \in Nat /\ Cardinality(Slots(q, n)) \in Nat
         /\ Cardinality(Due(q, n, t)) \in Nat
         /\ Cardinality(Slots(q, n)) <= Cardinality(Holders(q, n))
         /\ Cardinality(Due(q, n, t)) <= Cardinality(Slots(q, n))
<1>1. /\ Holders(q, n) \in SUBSET Commands
      /\ Slots(q, n) \in SUBSET Holders(q, n) /\ Due(q, n, t) \in SUBSET Slots(q, n)
  BY DEF Holders, Slots, Due
<1>2. Slots(q, n) \in SUBSET Commands
  BY <1>1
<1> QED
  BY <1>1, <1>2, Finite

LEMMA GateConstants ==
  ASSUME NEW n \in Connections
  PROVE  interval[n] \in Nat /\ max_concurrency[n] \in Nat
BY GateAssumption

(* A request that leaves the gate, or that stays out of it. *)
LEMMA RateFewer ==
  ASSUME NEW n \in Connections, NEW q, NEW r, NEW a \in Nat, NEW l \in Nat, Rate(q, a, l, n),
         \A c \in Commands : r[c].pc \in {"slot", "sending"} => q[c].pc \in {"slot", "sending"},
         \A c \in Commands : r[c].pc = "slot" => r[c] = q[c]
  PROVE  Rate(r, a, l, n)
<1> DEFINE i == interval[n]
           m == max_concurrency[n]
<1>1. i \in Nat /\ m \in Nat /\ i * m \in Nat /\ i * (m + 1) \in Nat
  BY GateConstants, Products
<1>2. Holders(r, n) \in SUBSET Holders(q, n) /\ Slots(r, n) \in SUBSET Slots(q, n)
  BY DEF Holders, Slots
<1>3. Cardinality(Holders(r, n)) <= Cardinality(Holders(q, n))
  BY <1>2, GateSets, Finite
<1>4. Cardinality(Slots(r, n)) <= Cardinality(Slots(q, n)) /\ Slots(q, n) \in SUBSET Commands
  BY <1>2, Finite DEF Slots
<1>5. ASSUME NEW t \in Nat
      PROVE  l + i * Cardinality(Due(r, n, t)) <= t + i * (m + 1)
  <2>1. Due(r, n, t) \in SUBSET Due(q, n, t) /\ Due(q, n, t) \in SUBSET Commands
    BY <1>2 DEF Due, Slots
  <2>2. Cardinality(Due(r, n, t)) <= Cardinality(Due(q, n, t))
    BY <2>1, Finite
  <2>3. /\ i * Cardinality(Due(r, n, t)) <= i * Cardinality(Due(q, n, t))
        /\ i * Cardinality(Due(r, n, t)) \in Nat /\ i * Cardinality(Due(q, n, t)) \in Nat
    BY <1>1, <2>2, GateSets, Products, Zenon
  <2>4. l + i * Cardinality(Due(q, n, t)) <= t + i * (m + 1)
    BY DEF Rate
  <2> HIDE DEF i, m
  <2> QED
    BY <1>1, <2>3, <2>4
<1>6. l + i * Cardinality(Slots(r, n)) <= a + i * m
  <2>1. 0 \in Nat
    OBVIOUS
  <2>2. /\ i * Cardinality(Slots(r, n)) <= i * Cardinality(Slots(q, n))
        /\ i * Cardinality(Slots(r, n)) \in Nat /\ i * Cardinality(Slots(q, n)) \in Nat
    BY <1>1, <1>4, <2>1, GateSets, Products
  <2>3. l + i * Cardinality(Slots(q, n)) <= a + i * m
    BY DEF Rate
  <2> HIDE DEF i, m
  <2> QED
    BY <1>1, <2>2, <2>3
<1>7. Cardinality(Holders(r, n)) <= m
  <2>1. Cardinality(Holders(q, n)) <= m
    BY DEF Rate
  <2>2. Cardinality(Holders(q, n)) \in Nat /\ Cardinality(Holders(r, n)) \in Nat
    BY GateSets
  <2> QED
    BY <1>1, <1>3, <2>1, <2>2
<1> QED
  BY <1>5, <1>6, <1>7 DEF Rate

(* A request takes a permit and reserves the next start. *)
LEMMA RateAcquire ==
  ASSUME NEW c \in Commands, NEW q \in [Commands -> RequestType], NEW a \in Nat, NEW l \in Nat,
         NEW n, n = ConnectionOf[c], Rate(q, a, l, n), q[c].pc = "semaphore",
         Cardinality(Holders(q, n)) < max_concurrency[n],
         NEW r, r = [q EXCEPT ![c] = [pc |-> "slot", wait |-> a]]
  PROVE  Rate(r, a + interval[n], l, n)
<1> DEFINE i == interval[n]
           m == max_concurrency[n]
<1>0. n \in Connections
  BY GateAssumption, Zenon
<1>1. i \in Nat /\ m \in Nat /\ i * m \in Nat /\ i * (m + 1) = i * m + i
  BY <1>0, GateConstants, Products
<1>2. /\ \A d \in Commands : d # c => r[d] = q[d]
      /\ r[c].pc = "slot" /\ r[c].wait = a
  OBVIOUS
<1>3. /\ Holders(r, n) = Holders(q, n) \cup {c} /\ c \notin Holders(q, n)
      /\ Slots(r, n) = Slots(q, n) \cup {c} /\ c \notin Slots(q, n)
  BY <1>2 DEF Holders, Slots
<1>4. /\ IsFiniteSet(Holders(q, n)) /\ IsFiniteSet(Slots(q, n))
      /\ Slots(q, n) \in SUBSET Commands
  BY <1>0, Finite DEF Holders, Slots
<1>5. /\ Cardinality(Holders(r, n)) = Cardinality(Holders(q, n)) + 1
      /\ Cardinality(Slots(r, n)) = Cardinality(Slots(q, n)) + 1
  <2>1. \A S : IsFiniteSet(S) /\ c \notin S => Cardinality(S \cup {c}) = Cardinality(S) + 1
    BY FS_AddElement, Zenon
  <2> QED
    BY <1>3, <1>4, <2>1, Zenon
<1>6. /\ Cardinality(Holders(q, n)) \in Nat /\ Cardinality(Slots(q, n)) \in Nat
      /\ Cardinality(Slots(r, n)) \in Nat
  BY <1>0, GateSets, Zenon
<1> DEFINE held == i * Cardinality(Slots(q, n))
<1>7. held \in Nat /\ i * Cardinality(Slots(r, n)) = held + i /\ l + held <= a + i * m
  <2>1. l + held <= a + i * m
    BY DEF Rate
  <2>2. held \in Nat /\ i * (Cardinality(Slots(q, n)) + 1) = held + i
    BY <1>1, <1>6, Products, Zenon
  <2> QED
    BY <1>5, <2>1, <2>2, Zenon
<1>8. Cardinality(Holders(r, n)) <= m
  BY <1>1, <1>5, <1>6
<1>9. l + i * Cardinality(Slots(r, n)) <= (a + i) + i * m
  <2> HIDE DEF i, m, held
  <2> QED
    BY <1>1, <1>7
<1>10. ASSUME NEW t \in Nat
       PROVE  l + i * Cardinality(Due(r, n, t)) <= t + i * (m + 1)
  <2>1. CASE t < a
    <3>1. ~(r[c].wait <= t)
      BY <1>2, <2>1
    <3>2. Due(r, n, t) = Due(q, n, t)
      BY <1>2, <1>3, <3>1, Zenon DEF Due, Slots
    <3> QED
      BY <3>2 DEF Rate
  <2>2. CASE a <= t
    <3>1. Cardinality(Due(r, n, t)) <= Cardinality(Slots(r, n)) /\ Cardinality(Due(r, n, t)) \in Nat
      BY <1>0, GateSets
    <3>2. /\ i * Cardinality(Due(r, n, t)) <= i * Cardinality(Slots(r, n))
          /\ i * Cardinality(Due(r, n, t)) \in Nat
      BY <1>1, <1>6, <3>1, Products
    <3> HIDE DEF i, m, held
    <3> QED
      BY <1>1, <1>7, <2>2, <3>2
  <2> QED
    BY <2>1, <2>2
<1> QED
  BY <1>8, <1>9, <1>10, Zenon DEF Rate

(* A request starts: what was reserved for it is now under way. *)
LEMMA RateSend ==
  ASSUME NEW c \in Commands, NEW q \in [Commands -> RequestType], NEW a \in Nat, NEW l \in Nat,
         NEW n, n = ConnectionOf[c], Rate(q, a, l, n), q[c] = [pc |-> "slot", wait |-> 0],
         NEW r, r = [q EXCEPT ![c].pc = "sending"]
  PROVE  Rate(r, a, l + interval[n], n)
<1> DEFINE i == interval[n]
           m == max_concurrency[n]
<1>0. n \in Connections
  BY GateAssumption, Zenon
<1>1. i \in Nat /\ m \in Nat /\ i * m \in Nat /\ i * (m + 1) = i * m + i
  BY <1>0, GateConstants, Products
<1>2. /\ \A d \in Commands : d # c => r[d] = q[d]
      /\ r[c].pc = "sending" /\ q[c].pc = "slot" /\ q[c].wait = 0
  BY DEF RequestType
<1>3. /\ Holders(r, n) = Holders(q, n)
      /\ Slots(r, n) = Slots(q, n) \ {c} /\ c \in Slots(q, n)
  BY <1>2 DEF Holders, Slots
<1>4. ASSUME NEW S \in SUBSET Commands, c \in S
      PROVE  i * Cardinality(S) = i * Cardinality(S \ {c}) + i /\ i * Cardinality(S \ {c}) \in Nat
  <2>1. IsFiniteSet(S) /\ Cardinality(S) \in Nat /\ Cardinality(S \ {c}) \in Nat
    BY Finite
  <2>2. Cardinality(S \ {c}) = Cardinality(S) - 1
    BY <1>4, <2>1, FS_RemoveElement, Zenon
  <2>3. Cardinality(S) = Cardinality(S \ {c}) + 1
    BY <2>1, <2>2
  <2> QED
    BY <1>1, <2>1, <2>3, Products
<1>5. Slots(q, n) \in SUBSET Commands
  BY DEF Slots
<1>6. (l + i) + i * Cardinality(Slots(r, n)) <= a + i * m
  <2>1. /\ i * Cardinality(Slots(q, n)) = i * Cardinality(Slots(r, n)) + i
        /\ i * Cardinality(Slots(r, n)) \in Nat /\ l + i * Cardinality(Slots(q, n)) <= a + i * m
    BY <1>3, <1>4, <1>5, Zenon DEF Rate
  <2> HIDE DEF i, m
  <2> QED
    BY <1>1, <2>1
<1>7. ASSUME NEW t \in Nat
      PROVE  (l + i) + i * Cardinality(Due(r, n, t)) <= t + i * (m + 1)
  <2>0. q[c].wait <= t
    BY <1>2
  <2>1. Due(r, n, t) = Due(q, n, t) \ {c} /\ c \in Due(q, n, t) /\ Due(q, n, t) \in SUBSET Commands
    BY <1>2, <1>3, <1>5, <2>0, Zenon DEF Due, Slots
  <2>2. /\ i * Cardinality(Due(q, n, t)) = i * Cardinality(Due(r, n, t)) + i
        /\ i * Cardinality(Due(r, n, t)) \in Nat
        /\ l + i * Cardinality(Due(q, n, t)) <= t + i * (m + 1)
    BY <1>4, <2>1, Zenon DEF Rate
  <2> HIDE DEF i, m
  <2> QED
    BY <1>1, <2>2
<1> QED
  BY <1>3, <1>6, <1>7, Zenon DEF Rate

(* A tick: what is owed shrinks with the waits, and when nothing is under    *)
(* way, the permits alone bound what is reserved.                            *)
LEMMA RateTick ==
  ASSUME NEW n \in Connections, NEW q \in [Commands -> RequestType], NEW a \in Nat, NEW l \in Nat,
         Rate(q, a, l, n), NEW r, r = [c \in Commands |-> [q[c] EXCEPT !.wait = Less(@)]]
  PROVE  Rate(r, Less(a), Less(l), n)
<1> DEFINE i == interval[n]
           m == max_concurrency[n]
<1>1. i \in Nat /\ m \in Nat /\ i * m \in Nat /\ i * (m + 1) = i * m + i
  BY GateConstants, Products
<1>2. ASSUME NEW c \in Commands
      PROVE  r[c].pc = q[c].pc /\ r[c].wait = Less(q[c].wait) /\ q[c].wait \in Nat
  BY DEF RequestType
<1>3. Holders(r, n) = Holders(q, n) /\ Slots(r, n) = Slots(q, n)
  BY <1>2 DEF Holders, Slots
<1>4. ASSUME NEW t \in Nat PROVE Due(r, n, t) = Due(q, n, t + 1)
  <2>1. \A w \in Nat : Less(w) <= t <=> w <= t + 1
    BY DEF Less
  <2>2. \A c \in Slots(q, n) : r[c].wait <= t <=> q[c].wait <= t + 1
    BY <1>2, <2>1 DEF Slots
  <2> QED
    BY <1>3, <2>2, Zenon DEF Due
<1>5. ASSUME NEW k \in Nat, k <= Cardinality(Slots(q, n))
      PROVE  i * k <= i * m /\ i * k \in Nat
  <2>1. /\ Cardinality(Slots(q, n)) <= Cardinality(Holders(q, n)) /\ Cardinality(Holders(q, n)) <= m
        /\ Cardinality(Slots(q, n)) \in Nat /\ Cardinality(Holders(q, n)) \in Nat
    BY GateSets DEF Rate
  <2>2. k <= m
    BY <1>1, <1>5, <2>1
  <2> QED
    BY <1>1, <2>2, Products
<1>6. Less(l) + i * Cardinality(Slots(r, n)) <= Less(a) + i * m
  <2>1. /\ i * Cardinality(Slots(q, n)) <= i * m /\ i * Cardinality(Slots(q, n)) \in Nat
        /\ l + i * Cardinality(Slots(q, n)) <= a + i * m
    BY <1>5, GateSets DEF Rate
  <2> HIDE DEF i, m
  <2> QED
    BY <1>1, <1>3, <2>1 DEF Less
<1>7. ASSUME NEW t \in Nat
      PROVE  Less(l) + i * Cardinality(Due(r, n, t)) <= t + i * (m + 1)
  <2>1. t + 1 \in Nat
    OBVIOUS
  <2>2. Cardinality(Due(q, n, t + 1)) \in Nat
        /\ Cardinality(Due(q, n, t + 1)) <= Cardinality(Slots(q, n))
    BY <2>1, GateSets
  <2>3. /\ i * Cardinality(Due(q, n, t + 1)) <= i * m /\ i * Cardinality(Due(q, n, t + 1)) \in Nat
        /\ l + i * Cardinality(Due(q, n, t + 1)) <= (t + 1) + i * (m + 1)
    BY <1>5, <2>1, <2>2 DEF Rate
  <2> HIDE DEF i, m
  <2> QED
    BY <1>1, <1>4, <2>3 DEF Less
<1> QED
  BY <1>3, <1>6, <1>7 DEF Rate

-----------------------------------------------------------------------------
(* Requests and tasks. *)

LEMMA WorkerInvInit == Init => WorkerInv
<1> SUFFICES ASSUME Init PROVE WorkerInv
  OBVIOUS
<1>1. WorkerType /\ NothingOutlives
  BY DEF Init, WorkerType, NothingOutlives, RequestType, NoRequest, Ended
<1>2. ASSUME NEW n \in Connections PROVE Rate(request, ahead[n], level[n], n)
  <2>1. /\ Holders(request, n) = {} /\ Slots(request, n) = {}
        /\ \A t \in Nat : Due(request, n, t) = {}
    BY DEF Init, NoRequest, Holders, Slots, Due
  <2>2. Cardinality({}) = 0 /\ ahead[n] = 0 /\ level[n] = 0
    BY FS_EmptySet DEF Init
  <2>3. /\ interval[n] \in Nat /\ max_concurrency[n] \in Nat
        /\ interval[n] * max_concurrency[n] \in Nat
        /\ interval[n] * (max_concurrency[n] + 1) \in Nat /\ interval[n] * 0 = 0
    BY GateConstants, Products
  <2>4. /\ 0 + interval[n] * 0 <= 0 + interval[n] * max_concurrency[n]
        /\ \A t \in Nat : 0 + interval[n] * 0 <= t + interval[n] * (max_concurrency[n] + 1)
        /\ 0 <= max_concurrency[n]
    BY <2>3
  <2> QED
    BY <2>1, <2>2, <2>4, Zenon DEF Rate
<1> QED
  BY <1>1, <1>2 DEF WorkerInv

LEMMA WorkerTypeStep == WorkerInv /\ [Next]_vars => WorkerType'
<1> SUFFICES ASSUME WorkerInv, [Next]_vars PROVE WorkerType'
  OBVIOUS
<1>1. /\ task \in [Commands -> Ended \cup Executing] /\ request \in [Commands -> RequestType]
      /\ ahead \in [Connections -> Nat] /\ level \in [Connections -> Nat]
      /\ \A n \in Connections : interval[n] \in Nat
  BY GateConstants DEF WorkerInv, WorkerType
<1>2. NoRequest \in RequestType
  BY DEF NoRequest, RequestType
<1>3. ASSUME NEW c \in Commands, Request(c) PROVE WorkerType'
  <2>1. CASE acquire(c)
    <3> DEFINE n == ConnectionOf[c]
    <3>1. n \in Connections
      BY GateAssumption
    <3>2. [pc |-> "slot", wait |-> ahead[n]] \in RequestType
      BY <1>1, <3>1 DEF RequestType
    <3>3. /\ request' = [request EXCEPT ![c] = [pc |-> "slot", wait |-> ahead[n]]]
          /\ ahead' = [ahead EXCEPT ![n] = ahead[n] + interval[n]] /\ UNCHANGED <<task, level>>
      BY <2>1 DEF acquire, wait_for_rate_slot
    <3> HIDE DEF n
    <3> QED
      BY <1>1, <3>1, <3>2, <3>3 DEF WorkerType
  <2>2. CASE send_command(c) \/ TransportReturns(c)
    <3>1. ConnectionOf[c] \in Connections
      BY GateAssumption
    <3>2. request' \in [Commands -> RequestType]
      BY <1>1, <2>2 DEF send_command, TransportReturns, RequestType
    <3>3. level' \in [Connections -> Nat] /\ UNCHANGED <<task, ahead>>
      BY <1>1, <2>2, <3>1 DEF send_command, TransportReturns
    <3> QED
      BY <1>1, <3>2, <3>3 DEF WorkerType
  <2> QED
    BY <1>3, <2>1, <2>2 DEF Request
<1>4. ASSUME NEW c \in Commands, Process(c) \/ renew_outbox_lease(c) PROVE WorkerType'
  <2>1. PICK pc \in Ended \cup Executing : task' = [task EXCEPT ![c] = pc]
    BY <1>4 DEF Process, resolve_by_connection_id, RequestReturns, Finalize,
         schedule_outbox_retry, terminal_failure, CancelTask, renew_outbox_lease, Become, Ended,
         Executing, Results
  <2>2. /\ UNCHANGED <<ahead, level>>
        /\ \/ request' = request \/ request' = [request EXCEPT ![c] = NoRequest]
           \/ request' = [request EXCEPT ![c].pc = "semaphore"]
    BY <1>4 DEF Process, resolve_by_connection_id, RequestReturns, Finalize,
         schedule_outbox_retry, terminal_failure, CancelTask, renew_outbox_lease, Become,
         CancelRequest
  <2>3. request' \in [Commands -> RequestType]
    BY <1>1, <1>2, <2>2 DEF RequestType
  <2> QED
    BY <1>1, <2>1, <2>2, <2>3, Zenon DEF WorkerType
<1>5. CASE Tick
  <2>1. \A t \in Nat : Less(t) \in Nat
    BY DEF Less
  <2>2. request' \in [Commands -> RequestType]
    BY <1>1, <1>5, <2>1 DEF Tick, RequestType
  <2>3. ahead' \in [Connections -> Nat] /\ level' \in [Connections -> Nat] /\ task' = task
    BY <1>1, <1>5, <2>1 DEF Tick
  <2> QED
    BY <1>1, <2>2, <2>3 DEF WorkerType
<1>6. ASSUME NEW batch \in SUBSET Commands, claim_due_outbox(batch) PROVE WorkerType'
  BY <1>1, <1>6 DEF claim_due_outbox, WorkerType, Ended, Executing
<1>7. CASE UNCHANGED <<task, request, ahead, level>>
  BY <1>1, <1>7 DEF WorkerType
<1> QED
  BY <1>3, <1>4, <1>5, <1>6, <1>7 DEF Next, recover_expired_outbox_leases, ClaimRaises, Sleep,
     gather_batch, Cancel, Stop, vars

LEMMA OutlivesStep == WorkerInv /\ [Next]_vars => NothingOutlives'
<1> SUFFICES ASSUME WorkerInv, [Next]_vars PROVE NothingOutlives'
  OBVIOUS
<1>1. /\ task \in [Commands -> Ended \cup Executing] /\ request \in [Commands -> RequestType]
      /\ \A c \in Commands : request[c].pc # "none" => task[c] = "send"
      /\ loop \notin {"batch", "cancelling"} => \A c \in Commands : task[c] \in Ended
      /\ "send" \notin Ended
  BY DEF WorkerInv, WorkerType, NothingOutlives, Ended, Results
<1>2. ASSUME NEW c \in Commands, Request(c) PROVE NothingOutlives'
  <2>1. task[c] = "send" /\ UNCHANGED <<loop, task>>
    BY <1>1, <1>2 DEF Request, acquire, send_command, TransportReturns
  <2>2. \A d \in Commands : d # c => request'[d] = request[d]
    BY <1>1, <1>2 DEF Request, acquire, send_command, TransportReturns
  <2> QED
    BY <1>1, <2>1, <2>2 DEF NothingOutlives
<1>3. ASSUME NEW c \in Commands, Process(c) \/ renew_outbox_lease(c) PROVE NothingOutlives'
  <2>1. loop' = loop /\ loop \in {"batch", "cancelling"}
    BY <1>3 DEF Process, resolve_by_connection_id, RequestReturns, Finalize,
         schedule_outbox_retry, terminal_failure, CancelTask, renew_outbox_lease, Become
  <2>2. \A d \in Commands : d # c => task'[d] = task[d] /\ request'[d] = request[d]
    BY <1>1, <1>3 DEF Process, resolve_by_connection_id, RequestReturns, Finalize,
         schedule_outbox_retry, terminal_failure, CancelTask, renew_outbox_lease, Become,
         CancelRequest
  <2>3. CASE request' = [request EXCEPT ![c] = NoRequest]
    BY <1>1, <2>1, <2>2, <2>3 DEF NothingOutlives, NoRequest
  <2>4. CASE request' = request /\ task[c] # "send"
    BY <1>1, <2>1, <2>2, <2>4 DEF NothingOutlives
  <2>5. CASE task' = [task EXCEPT ![c] = "send"]
    BY <1>1, <2>1, <2>2, <2>5 DEF NothingOutlives
  <2> QED
    BY <1>3, <2>3, <2>4, <2>5 DEF Process, resolve_by_connection_id, RequestReturns, Finalize,
       schedule_outbox_retry, terminal_failure, CancelTask, renew_outbox_lease, Become,
       CancelRequest
<1>4. CASE Tick
  <2>1. \A c \in Commands : request'[c].pc = request[c].pc
    BY <1>1, <1>4 DEF Tick, RequestType
  <2>2. UNCHANGED <<loop, task>>
    BY <1>4 DEF Tick
  <2> QED
    BY <1>1, <2>1, <2>2 DEF NothingOutlives
<1>5. ASSUME NEW batch \in SUBSET Commands, claim_due_outbox(batch) PROVE NothingOutlives'
  <2>1. \A c \in Commands : request[c].pc = "none"
    BY <1>1, <1>5 DEF claim_due_outbox
  <2>2. /\ loop' = IF batch = {} THEN "sleep" ELSE "batch"
        /\ task' = [c \in Commands |-> IF c \in batch THEN "resolve" ELSE "unclaimed"]
        /\ request' = request
    BY <1>5 DEF claim_due_outbox
  <2> QED
    BY <2>1, <2>2 DEF NothingOutlives, Ended
<1>6. CASE /\ UNCHANGED <<task, request>>
           /\ \/ loop \notin {"batch", "cancelling"} \/ loop' \in {"batch", "cancelling"}
              \/ \A c \in Commands : task[c] \in Ended
  BY <1>1, <1>6 DEF NothingOutlives
<1> QED
  <2>1. CASE recover_expired_outbox_leases \/ ClaimRaises \/ Sleep \/ gather_batch \/ Cancel \/ Stop
    BY <1>6, <2>1 DEF recover_expired_outbox_leases, ClaimRaises, Sleep, gather_batch, Cancel, Stop
  <2>2. CASE UNCHANGED vars
    BY <1>1, <2>2 DEF vars, NothingOutlives
  <2> QED
    BY <1>2, <1>3, <1>4, <1>5, <2>1, <2>2 DEF Next

LEMMA RateStep ==
  ASSUME WorkerInv, [Next]_vars, NEW n \in Connections
  PROVE  Rate(request', ahead'[n], level'[n], n)
<1>1. /\ request \in [Commands -> RequestType] /\ ahead \in [Connections -> Nat]
      /\ level \in [Connections -> Nat] /\ ahead[n] \in Nat /\ level[n] \in Nat
      /\ Rate(request, ahead[n], level[n], n)
  BY DEF WorkerInv, WorkerType
<1>2. ASSUME ahead'[n] = ahead[n], level'[n] = level[n],
             \A c \in Commands : request'[c].pc \in {"slot", "sending"} =>
                                   request[c].pc \in {"slot", "sending"},
             \A c \in Commands : request'[c].pc = "slot" => request'[c] = request[c]
      PROVE  Rate(request', ahead'[n], level'[n], n)
  BY <1>1, <1>2, RateFewer, Zenon
<1>3. CASE UNCHANGED <<request, ahead, level>>
  BY <1>1, <1>3
<1>4. ASSUME NEW c \in Commands, acquire(c) PROVE Rate(request', ahead'[n], level'[n], n)
  <2> DEFINE k == ConnectionOf[c]
  <2>1. /\ request[c].pc = "semaphore" /\ Cardinality(Holders(request, k)) < max_concurrency[k]
        /\ request' = [request EXCEPT ![c] = [pc |-> "slot", wait |-> ahead[k]]]
        /\ ahead' = [ahead EXCEPT ![k] = ahead[k] + interval[k]] /\ level' = level
    BY <1>4 DEF acquire, wait_for_rate_slot, InGate, Holders
  <2>2. CASE n = k
    <3>1. ahead'[n] = ahead[n] + interval[n]
      BY <1>1, <2>1, <2>2
    <3>2. Rate(request', ahead[n] + interval[n], level[n], n)
      BY <1>1, <2>1, <2>2, RateAcquire, Zenon
    <3> QED
      BY <2>1, <3>1, <3>2
  <2>3. CASE n # k
    <3>1. /\ Holders(request', n) = Holders(request, n) /\ Slots(request', n) = Slots(request, n)
          /\ \A t \in Nat : Due(request', n, t) = Due(request, n, t)
          /\ ahead'[n] = ahead[n]
      BY <1>1, <2>1, <2>3 DEF Holders, Slots, Due
    <3> QED
      BY <1>1, <2>1, <3>1, Zenon DEF Rate
  <2> QED
    BY <2>2, <2>3
<1>5. ASSUME NEW c \in Commands, send_command(c) PROVE Rate(request', ahead'[n], level'[n], n)
  <2> DEFINE k == ConnectionOf[c]
  <2>1. /\ request[c] = [pc |-> "slot", wait |-> 0]
        /\ request' = [request EXCEPT ![c].pc = "sending"]
        /\ level' = [level EXCEPT ![k] = level[k] + interval[k]] /\ ahead' = ahead
    BY <1>5 DEF send_command
  <2>2. CASE n = k
    <3>1. level'[n] = level[n] + interval[n]
      BY <1>1, <2>1, <2>2
    <3>2. Rate(request', ahead[n], level[n] + interval[n], n)
      BY <1>1, <2>1, <2>2, RateSend, Zenon
    <3> QED
      BY <2>1, <3>1, <3>2
  <2>3. CASE n # k
    <3>1. /\ Holders(request', n) = Holders(request, n) /\ Slots(request', n) = Slots(request, n)
          /\ \A t \in Nat : Due(request', n, t) = Due(request, n, t)
          /\ level'[n] = level[n]
      BY <1>1, <2>1, <2>3 DEF Holders, Slots, Due
    <3> QED
      BY <1>1, <2>1, <3>1, Zenon DEF Rate
  <2> QED
    BY <2>2, <2>3
<1>6. CASE Tick
  <2>1. /\ request' = [c \in Commands |-> [request[c] EXCEPT !.wait = Less(@)]]
        /\ ahead'[n] = Less(ahead[n]) /\ level'[n] = Less(level[n])
    BY <1>6 DEF Tick
  <2> QED
    BY <1>1, <2>1, RateTick
<1>7. ASSUME NEW c \in Commands, TransportReturns(c) \/ Process(c) \/ renew_outbox_lease(c)
      PROVE  Rate(request', ahead'[n], level'[n], n)
  <2>1. /\ ahead' = ahead /\ level' = level
        /\ \/ request' = request \/ request' = [request EXCEPT ![c] = NoRequest]
           \/ \E pc \in {"semaphore", "answered", "error"} :
                request' = [request EXCEPT ![c].pc = pc]
    BY <1>7 DEF TransportReturns, Process, resolve_by_connection_id, RequestReturns, Finalize,
         schedule_outbox_retry, terminal_failure, CancelTask, renew_outbox_lease, Become,
         CancelRequest
  <2>2. ASSUME NEW d \in Commands
        PROVE  request'[d] = request[d] \/ request'[d].pc \notin {"slot", "sending"}
    BY <1>1, <2>1 DEF NoRequest, RequestType
  <2> QED
    BY <1>2, <2>1, <2>2
<1> QED
  BY <1>3, <1>4, <1>5, <1>6, <1>7 DEF Next, Request, recover_expired_outbox_leases, ClaimRaises,
     Sleep, gather_batch, Cancel, Stop, claim_due_outbox, vars

LEMMA WorkerInvariance == Spec => []WorkerInv
<1>1. WorkerInv /\ [Next]_vars => WorkerInv'
  BY WorkerTypeStep, OutlivesStep, RateStep DEF WorkerInv
<1> QED
  BY <1>1, WorkerInvInit, PTL DEF Spec

(* No request outlives its task and no task its batch, wherever a lost       *)
(* lease, a failing renewal or a cancellation strikes                        *)
(* (_send_with_lease_renewal, _gather_batch).                                *)
THEOREM BatchSafety == Spec => []NothingOutlives
<1>1. WorkerInv => NothingOutlives
  BY DEF WorkerInv
<1> QED
  BY <1>1, WorkerInvariance, PTL

(* The requests a connection starts exceed one per interval by at most       *)
(* max_concurrency + 1, for every interval, number of permits and load,      *)
(* however late sleeps return (_wait_for_rate_slot, acquire).                *)
THEOREM RateSafety == Spec => []RateKept
<1>1. ASSUME WorkerInv, NEW n \in Connections
      PROVE  level[n] <= interval[n] * (max_concurrency[n] + 1)
  <2> DEFINE owed == interval[n] * Cardinality(Due(request, n, 0))
             bound == interval[n] * (max_concurrency[n] + 1)
  <2>1. interval[n] \in Nat /\ max_concurrency[n] + 1 \in Nat /\ level[n] \in Nat
    BY <1>1, GateConstants DEF WorkerInv, WorkerType
  <2>2. Cardinality(Due(request, n, 0)) \in Nat
    BY GateSets, Zenon
  <2>3. owed \in Nat /\ bound \in Nat
    BY <2>1, <2>2, Products, Zenon
  <2>4. level[n] + owed <= 0 + bound
    BY <1>1 DEF WorkerInv, Rate
  <2> HIDE DEF owed, bound
  <2>5. level[n] <= bound
    BY <2>1, <2>3, <2>4
  <2> QED
    BY <2>5 DEF bound
<1>2. WorkerInv => RateKept
  BY <1>1 DEF RateKept
<1> QED
  BY <1>2, WorkerInvariance, PTL
=============================================================================

------------------------ MODULE ProviderInbox_proofs ------------------------
(* The webhook Inbox for any number of callbacks, workers and redrives: its  *)
(* ledger, the effect of callbacks, and that it implements the lifecycle.    *)
(*                                                                           *)
(* First what a step does to one row and its ledger (RowStep), then what it  *)
(* does to operations and cases (Effect); each invariant is proved from one  *)
(* of the two.                                                               *)
EXTENDS ProviderInbox, CommandLifecycle_proofs, FiniteSetTheorems

(* Ledgers: reading, replacing and appending an attempt. *)
LEMMA AttemptOf ==
  ASSUME NEW S, NEW seq \in Seq(S)
  PROVE  /\ Len(seq) \in Nat /\ DOMAIN seq = 1 .. Len(seq)
         /\ \A n \in 1 .. Len(seq) : seq[n] \in S
OBVIOUS

LEMMA AttemptReplaced ==
  ASSUME NEW S, NEW seq \in Seq(S), NEW n \in 1 .. Len(seq), NEW a \in S
  PROVE  /\ [seq EXCEPT ![n] = a] \in Seq(S) /\ Len([seq EXCEPT ![n] = a]) = Len(seq)
         /\ \A m \in 1 .. Len(seq) : [seq EXCEPT ![n] = a][m] = IF m = n THEN a ELSE seq[m]
OBVIOUS

LEMMA AttemptAdded ==
  ASSUME NEW S, NEW seq \in Seq(S), NEW a \in S
  PROVE  /\ Append(seq, a) \in Seq(S) /\ Len(Append(seq, a)) = Len(seq) + 1
         /\ \A m \in 1 .. Len(seq) : Append(seq, a)[m] = seq[m]
         /\ Append(seq, a)[Len(seq) + 1] = a
OBVIOUS

Outcomes == {"processed", "terminal_failure", "retry_scheduled", "lease_expired"}

-----------------------------------------------------------------------------
(* The inductive invariant of rows. *)

InCycle(e) ==
  {i \in DOMAIN attempts[e] :
     attempts[e][i].processing_cycle = inbox[e].processing_cycle}

(* A cycle's attempts are counted, none belongs to a later cycle, and a row  *)
(* that is there has a body.                                                 *)
RowInv(e) ==
  /\ \A i \in DOMAIN attempts[e] :
       attempts[e][i].outcome = "open" <=>
         inbox[e].status = "processing" /\ inbox[e].lease_id = i
  /\ inbox[e].status = "processing" =>
       inbox[e].lease_id = Len(attempts[e]) /\ Len(attempts[e]) \in DOMAIN attempts[e]
  /\ Cardinality(InCycle(e)) = inbox[e].attempts_in_cycle
  /\ \A i \in DOMAIN attempts[e] :
       attempts[e][i].processing_cycle <= inbox[e].processing_cycle
  /\ inbox[e].attempts_in_cycle <= MAX_ATTEMPTS
  /\ inbox[e].status \in {"absent", "received"} =>
       inbox[e].attempts_in_cycle < MAX_ATTEMPTS
  /\ inbox[e].status # "absent" => inbox[e].body \in Bodies

-----------------------------------------------------------------------------
(* What a step may do to a row. *)

Kept(e) == inbox'[e] = inbox[e] /\ attempts'[e] = attempts[e]

Stored(e, b) ==
  /\ inbox[e].status = "absent"
  /\ inbox'[e] = [inbox[e] EXCEPT !.status = "received", !.body = b, !.due = TRUE]
  /\ attempts'[e] = attempts[e]

Taken(e, w) ==
  /\ inbox[e].status = "received" /\ inbox[e].attempts_in_cycle < MAX_ATTEMPTS
  /\ inbox'[e] = [inbox[e] EXCEPT !.status = "processing", !.due = FALSE,
                    !.lease_id = Len(attempts[e]) + 1, !.lease_ttl = LeaseTicks,
                    !.attempts_in_cycle = @ + 1]
  /\ attempts'[e] = Append(attempts[e],
       [processing_cycle |-> inbox[e].processing_cycle, worker_id |-> w, outcome |-> "open"])

Timed(e, ttl, due) ==
  /\ inbox[e].status \in {"received", "processing"}
  /\ inbox'[e] = [inbox[e] EXCEPT !.lease_ttl = ttl, !.due = due]
  /\ attempts'[e] = attempts[e]

Closed(e, target, due, outcome) ==
  /\ inbox[e].status = "processing"
  /\ target = "received" => inbox[e].attempts_in_cycle < MAX_ATTEMPTS
  /\ inbox'[e] = [inbox[e] EXCEPT !.status = target, !.due = due,
                    !.lease_id = 0, !.lease_ttl = 0]
  /\ attempts'[e] = FinishAttempt(attempts[e], Len(attempts[e]), outcome)

Redriven(e, r) ==
  /\ inbox[e].status = "failed" /\ RequestUnused(r)
  /\ inbox'[e] = [inbox[e] EXCEPT !.status = "received", !.due = TRUE,
                    !.attempts_in_cycle = 0, !.processing_cycle = @ + 1]
  /\ attempts'[e] = attempts[e]
  /\ redrives' = redrives \cup
       {[request_id |-> r, inbox_id |-> e, new_cycle |-> inbox[e].processing_cycle + 1]}

RowStep(e) ==
  \/ Kept(e)
  \/ \E b \in Bodies : Stored(e, b)
  \/ \E w \in Workers : Taken(e, w)
  \/ \E ttl \in Nat, due \in BOOLEAN : Timed(e, ttl, due)
  \/ \E target \in {"received", "processed", "failed"}, due \in BOOLEAN, outcome \in Outcomes :
       Closed(e, target, due, outcome)
  \/ \E r \in Requests : Redriven(e, r)

RowTyped(e) == inbox[e] \in Row /\ attempts[e] \in Seq(Attempt)

-----------------------------------------------------------------------------
(* A ledger whose newest attempt is closed. *)
LEMMA FinishedLedger ==
  ASSUME NEW ledger \in Seq(Attempt), NEW i \in DOMAIN ledger, NEW outcome \in Outcomes,
         NEW new, new = FinishAttempt(ledger, i, outcome)
  PROVE  /\ new \in Seq(Attempt) /\ Len(new) = Len(ledger) /\ DOMAIN new = DOMAIN ledger
         /\ new[i].outcome = outcome
         /\ \A j \in DOMAIN ledger : new[j].processing_cycle = ledger[j].processing_cycle
         /\ \A j \in DOMAIN ledger : j # i => new[j] = ledger[j]
<1> DEFINE entry == [ledger[i] EXCEPT !.outcome = outcome]
<1>1. ledger[i] \in Attempt
  BY AttemptOf
<1>2. /\ entry \in Attempt /\ entry.outcome = outcome
      /\ entry.processing_cycle = ledger[i].processing_cycle
  BY <1>1 DEF Attempt, Outcomes
<1>3. new = [ledger EXCEPT ![i] = entry]
  BY DEF FinishAttempt
<1> HIDE DEF entry
<1>4. new \in Seq(Attempt) /\ Len(new) = Len(ledger) /\ DOMAIN new = DOMAIN ledger
  BY <1>2, <1>3, AttemptReplaced
<1> QED
  BY <1>2, <1>3, <1>4

LEMMA RowStepType ==
  ASSUME NEW e \in Events, RowTyped(e), RowInv(e), RowStep(e)
  PROVE  RowTyped(e)'
<1> USE DEF RowTyped
<1>1. CASE Kept(e)
  BY <1>1 DEF Kept
<1>2. ASSUME NEW b \in Bodies, Stored(e, b) PROVE RowTyped(e)'
  BY <1>2, Zenon DEF Stored, Row
<1>3. ASSUME NEW w \in Workers, Taken(e, w) PROVE RowTyped(e)'
  <2> DEFINE n == Len(attempts[e]) + 1
             a == inbox[e].attempts_in_cycle + 1
             entry == [processing_cycle |-> inbox[e].processing_cycle, worker_id |-> w,
                       outcome |-> "open"]
  <2>1. n \in Nat /\ a \in Nat /\ LeaseTicks \in Nat /\ inbox[e].processing_cycle \in Nat
    BY InboxBounds DEF Row
  <2>2. entry \in Attempt
    BY <2>1 DEF Attempt
  <2>3. /\ inbox'[e] = [inbox[e] EXCEPT !.status = "processing", !.due = FALSE,
                          !.lease_id = n, !.lease_ttl = LeaseTicks, !.attempts_in_cycle = a]
        /\ attempts'[e] = Append(attempts[e], entry)
    BY <1>3 DEF Taken
  <2> HIDE DEF n, a, entry
  <2>4. inbox'[e] \in Row
    BY <2>1, <2>3, Zenon DEF Row
  <2>5. attempts'[e] \in Seq(Attempt)
    BY <2>2, <2>3
  <2> QED
    BY <2>4, <2>5
<1>4. ASSUME NEW ttl \in Nat, NEW due \in BOOLEAN, Timed(e, ttl, due) PROVE RowTyped(e)'
  BY <1>4, Zenon DEF Timed, Row
<1>5. ASSUME NEW target \in {"received", "processed", "failed"}, NEW due \in BOOLEAN,
             NEW outcome \in Outcomes, Closed(e, target, due, outcome)
      PROVE  RowTyped(e)'
  <2>1. inbox'[e] \in Row
    <3> DEFINE null == 0
    <3>1. inbox'[e] = [inbox[e] EXCEPT !.status = target, !.due = due,
                         !.lease_id = null, !.lease_ttl = null]
      BY <1>5 DEF Closed
    <3>2. null \in Nat
      OBVIOUS
    <3> HIDE DEF null
    <3> QED
      BY <3>1, <3>2, Zenon DEF Row
  <2>2. attempts'[e] \in Seq(Attempt)
    BY <1>5, FinishedLedger DEF Closed, RowInv
  <2> QED
    BY <2>1, <2>2
<1>6. ASSUME NEW r \in Requests, Redriven(e, r) PROVE RowTyped(e)'
  <2> DEFINE n == inbox[e].processing_cycle + 1
             none == 0
  <2>1. n \in Nat /\ none \in Nat
    BY DEF Row
  <2>2. inbox'[e] = [inbox[e] EXCEPT !.status = "received", !.due = TRUE,
                       !.attempts_in_cycle = none, !.processing_cycle = n]
    BY <1>6 DEF Redriven
  <2> HIDE DEF n, none
  <2>3. inbox'[e] \in Row
    BY <2>1, <2>2, Zenon DEF Row
  <2> QED
    BY <1>6, <2>3 DEF Redriven
<1> QED
  BY <1>1, <1>2, <1>3, <1>4, <1>5, <1>6 DEF RowStep

LEMMA CycleFinite ==
  ASSUME NEW e \in Events, RowTyped(e)
  PROVE  IsFiniteSet(InCycle(e)) /\ InCycle(e) \subseteq 1 .. Len(attempts[e])
<1>1. DOMAIN attempts[e] = 1 .. Len(attempts[e]) /\ Len(attempts[e]) \in Nat
  BY AttemptOf DEF RowTyped
<1>2. InCycle(e) \subseteq 1 .. Len(attempts[e])
  BY <1>1 DEF InCycle
<1>3. IsFiniteSet(1 .. Len(attempts[e]))
  BY <1>1, FS_Interval
<1> QED
  BY <1>2, <1>3, FS_Subset

LEMMA TakenRow ==
  ASSUME NEW e \in Events, RowTyped(e), RowInv(e), NEW w \in Workers, Taken(e, w)
  PROVE  RowInv(e)'
<1> DEFINE n == Len(attempts[e])
           entry == [processing_cycle |-> inbox[e].processing_cycle, worker_id |-> w,
                     outcome |-> "open"]
           row == inbox[e]
<1>1. /\ attempts[e] \in Seq(Attempt) /\ n \in Nat /\ DOMAIN attempts[e] = 1 .. n
      /\ row.processing_cycle \in Nat /\ row.attempts_in_cycle \in Nat
      /\ row.status = "received" /\ row.attempts_in_cycle < MAX_ATTEMPTS
  BY AttemptOf DEF RowTyped, Row, Taken
<1>2. /\ inbox'[e].status = "processing" /\ inbox'[e].lease_id = n + 1
      /\ inbox'[e].processing_cycle = row.processing_cycle
      /\ inbox'[e].attempts_in_cycle = row.attempts_in_cycle + 1
      /\ inbox'[e].body = row.body
  BY DEF Taken, RowTyped, Row
<1>3. /\ entry \in Attempt /\ entry.outcome = "open"
      /\ entry.processing_cycle = row.processing_cycle
  BY <1>1 DEF Attempt
<1>4. attempts'[e] = Append(attempts[e], entry)
  BY DEF Taken
<1> HIDE DEF entry
<1>5. /\ attempts'[e] \in Seq(Attempt) /\ Len(attempts'[e]) = n + 1
      /\ \A i \in 1 .. n : attempts'[e][i] = attempts[e][i]
      /\ attempts'[e][n + 1] = entry
  BY <1>1, <1>3, <1>4, AttemptAdded
<1>6. DOMAIN attempts'[e] = 1 .. (n + 1)
  BY <1>5, AttemptOf
<1> HIDE DEF n
<1>7. \A i \in DOMAIN attempts'[e] :
        attempts'[e][i].outcome = "open" <=>
          inbox'[e].status = "processing" /\ inbox'[e].lease_id = i
  <2> SUFFICES ASSUME NEW i \in 1 .. (n + 1)
               PROVE  attempts'[e][i].outcome = "open" <=> i = n + 1
    BY <1>1, <1>2, <1>6
  <2>1. CASE i = n + 1
    BY <1>3, <1>5, <2>1
  <2>2. CASE i # n + 1
    <3>1. i \in 1 .. n
      BY <1>1, <2>2
    <3>2. attempts[e][i].outcome # "open"
      BY <1>1, <3>1 DEF RowInv
    <3> QED
      BY <1>5, <2>2, <3>1, <3>2
  <2> QED
    BY <2>1, <2>2
<1>8. \A i \in DOMAIN attempts'[e] :
        attempts'[e][i].processing_cycle <= inbox'[e].processing_cycle
  <2> SUFFICES ASSUME NEW i \in 1 .. (n + 1)
               PROVE  attempts'[e][i].processing_cycle <= row.processing_cycle
    BY <1>2, <1>6
  <2>1. CASE i = n + 1
    BY <1>1, <1>3, <1>5, <2>1
  <2>2. CASE i # n + 1
    <3>1. i \in 1 .. n
      BY <1>1, <2>2
    <3> QED
      BY <1>1, <1>5, <3>1, Zenon DEF RowInv
  <2> QED
    BY <2>1, <2>2
<1>9. Cardinality(InCycle(e)') = inbox'[e].attempts_in_cycle
  <2>1. InCycle(e)' = InCycle(e) \cup {n + 1}
    BY <1>1, <1>2, <1>3, <1>5, <1>6 DEF InCycle
  <2>2. n + 1 \notin InCycle(e)
    BY <1>1 DEF InCycle
  <2> QED
    <3>1. Cardinality(InCycle(e) \cup {n + 1}) = Cardinality(InCycle(e)) + 1
      BY <2>2, CycleFinite, FS_AddElement, Zenon
    <3>2. Cardinality(InCycle(e)) = row.attempts_in_cycle
      BY DEF RowInv
    <3> QED
      BY <1>2, <2>1, <3>1, <3>2
<1>10. inbox'[e].attempts_in_cycle <= MAX_ATTEMPTS
  BY <1>1, <1>2, InboxBounds
<1>11. inbox'[e].body \in Bodies
  BY <1>1, <1>2 DEF RowInv
<1>12. inbox'[e].lease_id = Len(attempts'[e]) /\ Len(attempts'[e]) \in DOMAIN attempts'[e]
  BY <1>1, <1>2, <1>5, <1>6
<1> QED
  BY <1>2, <1>7, <1>8, <1>9, <1>10, <1>11, <1>12 DEF RowInv

LEMMA ClosedRow ==
  ASSUME NEW e \in Events, RowTyped(e), RowInv(e),
         NEW target \in {"received", "processed", "failed"}, NEW due \in BOOLEAN,
         NEW outcome \in Outcomes, Closed(e, target, due, outcome)
  PROVE  RowInv(e)'
<1> DEFINE n == Len(attempts[e])
           row == inbox[e]
<1>1. /\ attempts[e] \in Seq(Attempt) /\ n \in DOMAIN attempts[e]
      /\ row.status = "processing" /\ row.lease_id = n
      /\ target = "received" => row.attempts_in_cycle < MAX_ATTEMPTS
  BY DEF RowTyped, Closed, RowInv
<1>2. /\ inbox'[e].status = target
      /\ inbox'[e].processing_cycle = row.processing_cycle
      /\ inbox'[e].attempts_in_cycle = row.attempts_in_cycle
      /\ inbox'[e].body = row.body
  BY DEF Closed, RowTyped, Row
<1>3. /\ DOMAIN attempts'[e] = DOMAIN attempts[e] /\ attempts'[e][n].outcome = outcome
      /\ \A j \in DOMAIN attempts[e] :
           attempts'[e][j].processing_cycle = attempts[e][j].processing_cycle
      /\ \A j \in DOMAIN attempts[e] : j # n => attempts'[e][j] = attempts[e][j]
  BY <1>1, FinishedLedger DEF Closed
<1> HIDE DEF n
<1>4. \A i \in DOMAIN attempts'[e] : attempts'[e][i].outcome # "open"
  BY <1>1, <1>3 DEF RowInv, Outcomes
<1>5. InCycle(e)' = InCycle(e)
  BY <1>2, <1>3 DEF InCycle
<1>6. \A i \in DOMAIN attempts'[e] :
        attempts'[e][i].processing_cycle <= inbox'[e].processing_cycle
  BY <1>2, <1>3 DEF RowInv
<1> QED
  BY <1>1, <1>2, <1>4, <1>5, <1>6 DEF RowInv

LEMMA RedrivenRow ==
  ASSUME NEW e \in Events, RowTyped(e), RowInv(e), NEW r \in Requests, Redriven(e, r)
  PROVE  RowInv(e)'
<1> DEFINE row == inbox[e]
<1>1. /\ row.status = "failed" /\ row.processing_cycle \in Nat
      /\ attempts[e] \in Seq(Attempt) /\ attempts'[e] = attempts[e]
  BY DEF Redriven, RowTyped, Row
<1>2. /\ inbox'[e].status = "received"
      /\ inbox'[e].processing_cycle = row.processing_cycle + 1
      /\ inbox'[e].attempts_in_cycle = 0 /\ inbox'[e].body = row.body
  BY DEF Redriven, RowTyped, Row
<1>3. \A i \in DOMAIN attempts[e] : attempts[e][i].processing_cycle \in Nat
  <2>1. \A i \in DOMAIN attempts[e] : attempts[e][i] \in Attempt
    BY <1>1, AttemptOf, AttemptOf
  <2> QED
    BY <2>1 DEF Attempt
<1>4. \A i \in DOMAIN attempts'[e] :
        attempts'[e][i].processing_cycle < inbox'[e].processing_cycle
  BY <1>1, <1>2, <1>3 DEF RowInv
<1>5. InCycle(e)' = {}
  BY <1>1, <1>2, <1>3, <1>4 DEF InCycle
<1>6. Cardinality(InCycle(e)') = inbox'[e].attempts_in_cycle
  BY <1>2, <1>5, FS_EmptySet
<1>7. \A i \in DOMAIN attempts'[e] : attempts'[e][i].outcome # "open"
  BY <1>1 DEF RowInv
<1>8. \A i \in DOMAIN attempts'[e] :
        attempts'[e][i].processing_cycle <= inbox'[e].processing_cycle
  BY <1>1, <1>2, <1>3, <1>4
<1>9. inbox'[e].body \in Bodies
  BY <1>1, <1>2 DEF RowInv
<1> QED
  BY <1>2, <1>6, <1>7, <1>8, <1>9, InboxBounds DEF RowInv

LEMMA RowInvStep ==
  ASSUME NEW e \in Events, RowTyped(e), RowInv(e), RowStep(e)
  PROVE  RowInv(e)'
<1>1. CASE Kept(e)
  BY <1>1 DEF Kept, RowInv, InCycle
<1>2. ASSUME NEW b \in Bodies, Stored(e, b) PROVE RowInv(e)'
  <2>1. /\ inbox'[e].status = "received" /\ inbox'[e].body = b
        /\ inbox'[e].processing_cycle = inbox[e].processing_cycle
        /\ inbox'[e].attempts_in_cycle = inbox[e].attempts_in_cycle
        /\ inbox[e].status = "absent" /\ attempts'[e] = attempts[e]
    BY <1>2 DEF Stored, RowTyped, Row
  <2>2. InCycle(e)' = InCycle(e)
    BY <2>1 DEF InCycle
  <2>3. inbox[e].attempts_in_cycle < MAX_ATTEMPTS
    BY <2>1 DEF RowInv
  <2> QED
    BY <2>1, <2>2, <2>3 DEF RowInv
<1>3. ASSUME NEW ttl \in Nat, NEW due \in BOOLEAN, Timed(e, ttl, due) PROVE RowInv(e)'
  <2>1. /\ inbox'[e].status = inbox[e].status /\ inbox'[e].body = inbox[e].body
        /\ inbox'[e].processing_cycle = inbox[e].processing_cycle
        /\ inbox'[e].attempts_in_cycle = inbox[e].attempts_in_cycle
        /\ inbox'[e].lease_id = inbox[e].lease_id /\ attempts'[e] = attempts[e]
    BY <1>3 DEF Timed, RowTyped, Row
  <2>2. InCycle(e)' = InCycle(e)
    BY <2>1 DEF InCycle
  <2> QED
    BY <2>1, <2>2 DEF RowInv
<1> QED
  BY <1>1, <1>2, <1>3, TakenRow, ClosedRow, RedrivenRow DEF RowStep

-----------------------------------------------------------------------------
(* The inductive invariant, and what a step may do. *)

(* Only a delivery the Provider has decided brings a reference, and only an  *)
(* accepted one a history.                                                   *)
DecidedFirst ==
  \A o \in Operations :
    /\ reference[o] # "none" => delivery[o] \in {"published", "rejected"}
    /\ Len(history[o]) > 0 => delivery[o] = "published"

(* A processed callback of an operation names one. *)
Addressed ==
  \A e \in Events :
    inbox[e].status = "processed" /\ inbox[e].body.aggregate_type = "order_operation" =>
      inbox[e].body.command_id \in Operations

Cycles == \A e \in Events : inbox[e].processing_cycle \in Nat \ {0}

InboxInv ==
  /\ InboxTypeOK /\ Agreement /\ \A e \in Events : RowInv(e)
  /\ EffectOnce /\ DecidedFirst /\ HistoryExplains /\ CallbackReflected /\ Addressed
  /\ Cycles /\ RedrivesAudited

(* The bookkeeping of a step. *)
RowsGood ==
  /\ inbox' = [e \in Events |-> inbox'[e]] /\ attempts' = [e \in Events |-> attempts'[e]]
  /\ \A e \in Events : RowStep(e)
  /\ task' \in [Workers -> [Events -> Nat]]
  /\ \/ /\ redrives' = redrives
        /\ \A e \in Events : inbox'[e].processing_cycle = inbox[e].processing_cycle
     \/ \E e \in Events, r \in Requests :
          Redriven(e, r) /\ \A f \in Events : f # e => Kept(f)

NoEffect ==
  /\ UNCHANGED <<lifecycle, reference, history, updates>>
  /\ \A e \in Events : inbox'[e].status = "processed" => inbox[e].status = "processed"

OnlyProcessed(e) ==
  /\ inbox[e].status = "processing" /\ inbox[e].body \in Bodies
  /\ inbox'[e].status = "processed" /\ inbox'[e].body = inbox[e].body
  /\ \A f \in Events : f # e => Kept(f)

(* The reference of an operation is set, or stays. *)
ReferenceSet(o, x) ==
  /\ reference[o] = "none" \/ x = reference[o]
  /\ reference' = [reference EXCEPT ![o] = x]

Applied(e, o, s) ==
  /\ OnlyProcessed(e) /\ KeyFree(e)
  /\ inbox[e].body.command_id = o /\ s = TargetOf[inbox[e].body.command_status]
  /\ delivery[o] = "published" /\ s \in Progress(status[o])
  /\ \E x \in References \cup {"none"} : ReferenceSet(o, x)
  /\ status' = WithStatus({o}, s)
  /\ history' = [history EXCEPT ![o] =
       Append(@, [event |-> e, previous |-> status[o], current |-> s])]
  /\ UNCHANGED <<delivery, updates>>

Settled(e, o) ==
  /\ OnlyProcessed(e) /\ inbox[e].body.command_id = o
  /\ delivery[o] \in {"published", "rejected"}
  /\ status[o] \in AtOrBeyond(TargetOf[inbox[e].body.command_status])
  /\ \E x \in References \cup {"none"} : ReferenceSet(o, x)
  /\ UNCHANGED <<lifecycle, history, updates>>

Updated(e) ==
  /\ OnlyProcessed(e) /\ inbox[e].body.aggregate_type = "support_case" /\ KeyFree(e)
  /\ updates' = updates \cup {e}
  /\ UNCHANGED <<lifecycle, reference, history>>

Outside == OutsideStep /\ UNCHANGED <<history, updates, inbox>>

Effect ==
  \/ NoEffect
  \/ Outside
  \/ \E e \in Events, o \in Operations, s \in OperationRecordStatus : Applied(e, o, s)
  \/ \E e \in Events, o \in Operations : Settled(e, o)
  \/ \E e \in Events : Updated(e)

StepGood == RowsGood /\ Effect

-----------------------------------------------------------------------------
(* Every action is such a step. *)

LEMMA InboxFacts ==
  ASSUME InboxInv
  PROVE  /\ inbox \in [Events -> Row] /\ attempts \in [Events -> Seq(Attempt)]
         /\ task \in [Workers -> [Events -> Nat]]
         /\ reference \in [Operations -> References \cup {"none"}]
         /\ history \in [Operations -> Seq(Change)]
         /\ \A e \in Events : inbox[e] \in Row /\ attempts[e] \in Seq(Attempt) /\ RowInv(e)
BY DEF InboxInv, InboxTypeOK

LEMMA ReceiveGood ==
  ASSUME InboxInv, NEW e \in Events, NEW b \in Bodies, receive_inbox_idempotently(e, b)
  PROVE  StepGood
<1> DEFINE new == [inbox[e] EXCEPT !.status = "received", !.body = b, !.due = TRUE]
<1>1. UNCHANGED <<lifecycle, attempts, redrives, task, reference, history, updates>>
  BY DEF receive_inbox_idempotently
<1>2. /\ new.status = "received"
      /\ new.processing_cycle = inbox[e].processing_cycle
  BY InboxFacts DEF Row
<1>3. inbox' = [inbox EXCEPT ![e] = IF inbox[e].status = "absent" THEN new ELSE inbox[e]]
  BY DEF receive_inbox_idempotently
<1>4. CASE inbox[e].status # "absent"
  <2>1. inbox' = inbox
    BY <1>3, <1>4, InboxFacts
  <2> QED
    BY <1>1, <2>1, InboxFacts DEF StepGood, RowsGood, RowStep, Kept, Effect, NoEffect
<1>5. CASE inbox[e].status = "absent"
  <2>1. /\ inbox'[e] = new /\ \A f \in Events : f # e => inbox'[f] = inbox[f]
        /\ inbox' = [f \in Events |-> inbox'[f]]
    BY <1>3, <1>5, InboxFacts, Zenon
  <2>2. Stored(e, b) /\ \A f \in Events : f # e => Kept(f)
    BY <1>1, <1>5, <2>1 DEF Stored, Kept
  <2> HIDE DEF new
  <2>3. RowsGood
    BY <1>1, <1>2, <2>1, <2>2, InboxFacts, Zenon DEF RowsGood, RowStep
  <2>4. NoEffect
    BY <1>1, <1>2, <2>1 DEF NoEffect
  <2> QED
    BY <2>3, <2>4 DEF StepGood, Effect
<1> QED
  BY <1>4, <1>5

LEMMA ClaimGood ==
  ASSUME InboxInv, NEW w \in Workers, NEW batch \in SUBSET Events, claim_due_inbox(w, batch)
  PROVE  StepGood
<1>1. UNCHANGED <<lifecycle, redrives, reference, history, updates>>
  BY Zenon DEF claim_due_inbox
<1>2. ASSUME NEW e \in Events
      PROVE  /\ IF e \in batch THEN Taken(e, w) ELSE Kept(e)
             /\ inbox'[e].processing_cycle = inbox[e].processing_cycle
             /\ inbox'[e].status = "processed" => inbox[e].status = "processed"
  <2>1. CASE e \in batch
    <3>1. Taken(e, w)
      BY <2>1, Zenon DEF claim_due_inbox, Taken
    <3>2. /\ inbox'[e].processing_cycle = inbox[e].processing_cycle
          /\ inbox'[e].status = "processing"
      BY <3>1, InboxFacts DEF Taken, Row
    <3> QED
      BY <2>1, <3>1, <3>2
  <2>2. CASE e \notin batch
    BY <2>2, Zenon DEF claim_due_inbox, Kept
  <2> QED
    BY <2>1, <2>2
<1>3. /\ inbox' = [e \in Events |-> inbox'[e]] /\ attempts' = [e \in Events |-> attempts'[e]]
  BY Zenon DEF claim_due_inbox
<1>4. task' \in [Workers -> [Events -> Nat]]
  <2> DEFINE mine == [e \in Events |-> IF e \in batch THEN Len(attempts[e]) + 1 ELSE 0]
  <2>1. mine \in [Events -> Nat]
    BY InboxFacts
  <2>2. task' = [task EXCEPT ![w] = mine]
    BY Zenon DEF claim_due_inbox
  <2> HIDE DEF mine
  <2> QED
    BY <2>1, <2>2, InboxFacts
<1>5. RowsGood
  BY <1>1, <1>2, <1>3, <1>4 DEF RowsGood, RowStep
<1>6. NoEffect
  BY <1>1, <1>2 DEF NoEffect
<1> QED
  BY <1>5, <1>6 DEF StepGood, Effect

(* Clocks: renewals, ticks and elapsed retry delays. *)
LEMMA TimedGood ==
  ASSUME InboxInv, NEW e \in Events, NEW ttl \in Nat, NEW due \in BOOLEAN,
         inbox[e].status \in {"received", "processing"},
         inbox' = [inbox EXCEPT ![e] = [@ EXCEPT !.lease_ttl = ttl, !.due = due]],
         UNCHANGED <<lifecycle, attempts, redrives, task, reference, history, updates>>
  PROVE  StepGood
<1> DEFINE new == [inbox[e] EXCEPT !.lease_ttl = ttl, !.due = due]
<1>1. new.status = inbox[e].status /\ new.processing_cycle = inbox[e].processing_cycle
  BY InboxFacts DEF Row
<1>2. /\ inbox'[e] = new /\ \A f \in Events : f # e => inbox'[f] = inbox[f]
      /\ inbox' = [f \in Events |-> inbox'[f]]
  BY InboxFacts, Zenon
<1>3. Timed(e, ttl, due) /\ \A f \in Events : f # e => Kept(f)
  BY <1>2 DEF Timed, Kept
<1> HIDE DEF new
<1>4. RowsGood
  BY <1>1, <1>2, <1>3, InboxFacts DEF RowsGood, RowStep
<1>5. NoEffect
  BY <1>1, <1>2 DEF NoEffect
<1> QED
  BY <1>4, <1>5 DEF StepGood, Effect

LEMMA ClockGood ==
  ASSUME InboxInv, NEW e \in Events,
         \/ \E w \in Workers : renew_inbox_lease(w, e)
         \/ LeaseTick(e) \/ RetryDelayElapses(e)
  PROVE  StepGood
<1> DEFINE row == inbox[e]
<1>0. /\ row \in Row /\ row.lease_ttl \in Nat /\ row.due \in BOOLEAN
      /\ LeaseTicks \in Nat /\ inbox \in [Events -> Row]
      /\ UNCHANGED <<lifecycle, attempts, redrives, task, reference, history, updates>>
  BY InboxFacts, InboxBounds DEF Row, renew_inbox_lease, LeaseTick, RetryDelayElapses
<1>1. CASE \E w \in Workers : renew_inbox_lease(w, e)
  <2>1. row.status = "processing" /\ inbox' = [inbox EXCEPT ![e].lease_ttl = LeaseTicks]
    BY <1>1 DEF renew_inbox_lease, HoldsLease
  <2>2. inbox' = [inbox EXCEPT ![e] = [@ EXCEPT !.lease_ttl = LeaseTicks, !.due = row.due]]
    BY <1>0, <2>1, Zenon DEF Row
  <2> QED
    BY <1>0, <2>1, <2>2, TimedGood, Zenon
<1>2. CASE LeaseTick(e)
  <2> DEFINE ttl == row.lease_ttl - 1
  <2>1. row.status = "processing" /\ ttl \in Nat /\ inbox' = [inbox EXCEPT ![e].lease_ttl = ttl]
    BY <1>0, <1>2 DEF LeaseTick, LeaseLive
  <2> HIDE DEF ttl
  <2>2. inbox' = [inbox EXCEPT ![e] = [@ EXCEPT !.lease_ttl = ttl, !.due = row.due]]
    BY <1>0, <2>1, Zenon DEF Row
  <2> QED
    BY <1>0, <2>1, <2>2, TimedGood, Zenon
<1>3. CASE RetryDelayElapses(e)
  <2>1. row.status = "received" /\ inbox' = [inbox EXCEPT ![e].due = TRUE]
    BY <1>3 DEF RetryDelayElapses
  <2>2. inbox' = [inbox EXCEPT ![e] = [@ EXCEPT !.lease_ttl = row.lease_ttl, !.due = TRUE]]
    BY <1>0, <2>1, Zenon DEF Row
  <2> QED
    BY <1>0, <2>1, <2>2, TimedGood, Zenon
<1> QED
  BY <1>1, <1>2, <1>3

LEMMA TaskEnds ==
  ASSUME InboxInv, NEW w \in Workers, NEW e \in Events, EndTask(w, e)
  PROVE  \E idle \in [Events -> Nat] : task' = [task EXCEPT ![w] = idle]
<1> DEFINE idle == [task[w] EXCEPT ![e] = 0]
<1>1. idle \in [Events -> Nat]
  BY InboxFacts
<1>2. task' = [task EXCEPT ![w] = idle]
  BY DEF EndTask
<1> QED
  BY <1>1, <1>2, Zenon

(* A task ends without a word. *)
LEMMA AbandonGood ==
  ASSUME InboxInv, NEW w \in Workers,
         WorkerCrash(w) \/ \E e \in Events : FinalizerRaises(w, e)
  PROVE  StepGood
<1>1. UNCHANGED <<lifecycle, inbox, attempts, redrives, reference, history, updates>>
  BY DEF WorkerCrash, FinalizerRaises, rows
<1>2. task' \in [Workers -> [Events -> Nat]]
  <2>1. PICK idle \in [Events -> Nat] : task' = [task EXCEPT ![w] = idle]
    <3>1. CASE WorkerCrash(w)
      BY <3>1, Zenon DEF WorkerCrash
    <3>2. ASSUME NEW e \in Events, FinalizerRaises(w, e)
          PROVE  \E idle \in [Events -> Nat] : task' = [task EXCEPT ![w] = idle]
      BY <3>2, TaskEnds DEF FinalizerRaises
    <3> QED
      BY <3>1, <3>2
  <2> QED
    BY <2>1, InboxFacts
<1>3. RowsGood
  BY <1>1, <1>2, InboxFacts DEF RowsGood, RowStep, Kept
<1>4. NoEffect
  BY <1>1 DEF NoEffect
<1> QED
  BY <1>3, <1>4 DEF StepGood, Effect

LEMMA RecoverGood ==
  ASSUME InboxInv, NEW batch \in SUBSET Events, recover_expired_inbox_leases(batch)
  PROVE  StepGood
<1>1. UNCHANGED <<lifecycle, redrives, task, reference, history, updates>>
  BY DEF recover_expired_inbox_leases
<1>2. ASSUME NEW e \in Events
      PROVE  /\ RowStep(e)
             /\ inbox'[e].processing_cycle = inbox[e].processing_cycle
             /\ inbox'[e].status = "processed" => inbox[e].status = "processed"
  <2>1. CASE e \in batch
    <3>1. /\ inbox[e].status = "processing" /\ inbox[e].lease_id = Len(attempts[e])
          /\ attempts'[e] = FinishAttempt(attempts[e], Len(attempts[e]), "lease_expired")
          /\ inbox'[e] = RecoveredRow(inbox[e])
      BY <2>1, InboxFacts DEF recover_expired_inbox_leases, Expired, RowInv
    <3>2. inbox[e] \in Row /\ inbox[e].due \in BOOLEAN /\ "lease_expired" \in Outcomes
      BY InboxFacts DEF Row, Outcomes
    <3>3. CASE inbox[e].attempts_in_cycle >= MAX_ATTEMPTS
      <4>1. inbox'[e] = [inbox[e] EXCEPT !.status = "failed", !.due = inbox[e].due,
                                         !.lease_id = 0, !.lease_ttl = 0]
        BY <3>1, <3>2, <3>3, Zenon DEF RecoveredRow, Row
      <4>2. Closed(e, "failed", inbox[e].due, "lease_expired")
        BY <3>1, <4>1 DEF Closed
      <4>3. /\ inbox'[e].processing_cycle = inbox[e].processing_cycle
            /\ inbox'[e].status = "failed"
        BY <3>2, <4>1 DEF Row
      <4> QED
        BY <3>2, <4>2, <4>3 DEF RowStep
    <3>4. CASE ~(inbox[e].attempts_in_cycle >= MAX_ATTEMPTS)
      <4>1. inbox'[e] = [inbox[e] EXCEPT !.status = "received", !.due = TRUE,
                                         !.lease_id = 0, !.lease_ttl = 0]
        BY <3>1, <3>4 DEF RecoveredRow
      <4>2. inbox[e].attempts_in_cycle < MAX_ATTEMPTS
        BY <3>2, <3>4, InboxBounds DEF Row
      <4>3. Closed(e, "received", TRUE, "lease_expired")
        BY <3>1, <4>1, <4>2 DEF Closed
      <4>4. /\ inbox'[e].processing_cycle = inbox[e].processing_cycle
            /\ inbox'[e].status = "received"
        BY <3>2, <4>1 DEF Row
      <4> QED
        BY <3>2, <4>3, <4>4, Zenon DEF RowStep
    <3> QED
      BY <3>3, <3>4
  <2>2. CASE e \notin batch
    BY <2>2 DEF recover_expired_inbox_leases, RowStep, Kept
  <2> QED
    BY <2>1, <2>2
<1>3. /\ inbox' = [e \in Events |-> inbox'[e]] /\ attempts' = [e \in Events |-> attempts'[e]]
  BY DEF recover_expired_inbox_leases
<1>4. RowsGood
  BY <1>1, <1>2, <1>3, InboxFacts DEF RowsGood
<1>5. NoEffect
  BY <1>1, <1>2 DEF NoEffect
<1> QED
  BY <1>4, <1>5 DEF StepGood, Effect

LEMMA RedriveGood ==
  ASSUME InboxInv, NEW e \in Events, NEW r \in Requests, redrive_inbox(e, r)
  PROVE  StepGood
<1> DEFINE new == [inbox[e] EXCEPT !.status = "received", !.due = TRUE,
                     !.attempts_in_cycle = 0, !.processing_cycle = @ + 1]
<1>1. UNCHANGED <<lifecycle, attempts, task, reference, history, updates>>
  BY DEF redrive_inbox
<1>2. new.status = "received"
  BY InboxFacts DEF Row
<1>3. /\ inbox'[e] = new /\ \A f \in Events : f # e => inbox'[f] = inbox[f]
      /\ inbox' = [f \in Events |-> inbox'[f]]
  BY InboxFacts, Zenon DEF redrive_inbox
<1>4. Redriven(e, r)
  BY <1>1, <1>3 DEF redrive_inbox, Redriven, decide_inbox_redrive_eligibility
<1> HIDE DEF new
<1>5. \A f \in Events : f # e => Kept(f)
  BY <1>1, <1>3 DEF Kept
<1>6. RowsGood
  <2>1. \A f \in Events : RowStep(f)
    BY <1>4, <1>5 DEF RowStep
  <2> QED
    BY <1>1, <1>3, <1>4, <1>5, <2>1, InboxFacts DEF RowsGood
<1>7. NoEffect
  BY <1>1, <1>2, <1>3 DEF NoEffect
<1> QED
  BY <1>6, <1>7 DEF StepGood, Effect

LEMMA OutsideGood ==
  ASSUME InboxInv, OutsideStep
  PROVE  StepGood
<1>1. UNCHANGED <<inbox, attempts, redrives, task, history, updates>>
  BY DEF OutsideStep, rows
<1>2. RowsGood
  BY <1>1, InboxFacts DEF RowsGood, RowStep, Kept
<1>3. Outside
  BY <1>1 DEF Outside
<1> QED
  BY <1>2, <1>3 DEF StepGood, Effect

(* A worker that holds the lease closes the newest attempt. *)
LEMMA CloseRows ==
  ASSUME InboxInv, NEW w \in Workers, NEW e \in Events, HoldsLease(w, e),
         NEW target \in {"received", "processed", "failed"}, NEW outcome \in Outcomes,
         target = "received" => inbox[e].attempts_in_cycle < MAX_ATTEMPTS,
         Close(w, e, target, outcome)
  PROVE  /\ RowsGood
         /\ inbox[e].status = "processing" /\ inbox[e].body \in Bodies
         /\ inbox'[e].status = target /\ inbox'[e].body = inbox[e].body
         /\ \A f \in Events : f # e => Kept(f)
<1> DEFINE new == [inbox[e] EXCEPT !.status = target, !.due = FALSE, !.lease_id = 0,
                                   !.lease_ttl = 0]
           ledger == FinishAttempt(attempts[e], Len(attempts[e]), outcome)
<1>1. /\ inbox[e].status = "processing" /\ inbox[e].body \in Bodies
      /\ task[w][e] = Len(attempts[e])
  BY InboxFacts DEF HoldsLease, RowInv
<1>2. /\ inbox' = [inbox EXCEPT ![e] = new] /\ attempts' = [attempts EXCEPT ![e] = ledger]
      /\ redrives' = redrives /\ EndTask(w, e)
  BY <1>1 DEF Close
<1>3. /\ new.status = target /\ new.body = inbox[e].body
      /\ new.processing_cycle = inbox[e].processing_cycle
  BY InboxFacts DEF Row
<1>4. /\ inbox'[e] = new /\ attempts'[e] = ledger
      /\ inbox' = [f \in Events |-> inbox'[f]] /\ attempts' = [f \in Events |-> attempts'[f]]
      /\ \A f \in Events : f # e => Kept(f)
  BY <1>2, InboxFacts, Zenon DEF Kept
<1>5. Closed(e, target, FALSE, outcome)
  BY <1>1, <1>4 DEF Closed
<1> HIDE DEF new, ledger
<1>6. \A f \in Events : RowStep(f)
  BY <1>4, <1>5, Zenon DEF RowStep
<1>7. task' \in [Workers -> [Events -> Nat]]
  BY <1>2, TaskEnds, InboxFacts, Zenon
<1>8. \A f \in Events : inbox'[f].processing_cycle = inbox[f].processing_cycle
  BY <1>3, <1>4 DEF Kept
<1>9. RowsGood
  BY <1>2, <1>4, <1>6, <1>7, <1>8 DEF RowsGood
<1> QED
  BY <1>1, <1>3, <1>4, <1>9

LEMMA UnappliedGood ==
  ASSUME InboxInv, NEW w \in Workers, NEW e \in Events, HoldsLease(w, e),
         Failed(w, e) \/ RetryOrFail(w, e),
         UNCHANGED <<lifecycle, reference, history, updates>>
  PROVE  StepGood
<1>1. inbox[e].attempts_in_cycle \in Nat /\ MAX_ATTEMPTS \in Nat
  BY InboxFacts, InboxBounds DEF Row
<1>2. PICK target \in {"received", "failed"}, outcome \in Outcomes :
        /\ target = "received" => inbox[e].attempts_in_cycle < MAX_ATTEMPTS
        /\ Close(w, e, target, outcome)
  <2>1. CASE Failed(w, e)
    BY <2>1 DEF Failed, Outcomes
  <2>2. CASE RetryOrFail(w, e)
    <3>1. CASE inbox[e].attempts_in_cycle >= MAX_ATTEMPTS
      BY <2>2, <3>1 DEF RetryOrFail, Failed, Outcomes
    <3>2. CASE ~(inbox[e].attempts_in_cycle >= MAX_ATTEMPTS)
      BY <1>1, <2>2, <3>2 DEF RetryOrFail, Outcomes
    <3> QED
      BY <3>1, <3>2
  <2> QED
    BY <2>1, <2>2
<1>3. RowsGood /\ inbox'[e].status = target /\ \A f \in Events : f # e => Kept(f)
  BY <1>2, CloseRows
<1>4. NoEffect
  BY <1>3 DEF NoEffect, Kept
<1> QED
  BY <1>3, <1>4 DEF StepGood, Effect

LEMMA ProcessedRows ==
  ASSUME InboxInv, NEW w \in Workers, NEW e \in Events, HoldsLease(w, e), Processed(w, e)
  PROVE  RowsGood /\ OnlyProcessed(e)
BY CloseRows DEF Processed, OnlyProcessed, Outcomes

(* What the status matrix accepts. *)
LEMMA CallbackDecision ==
  ASSUME InboxInv, NEW o \in Operations, NEW b \in Bodies,
         NEW action, action = decide_order_operation_callback(o, b)
  PROVE  /\ action # "conflict" =>
              /\ status[o] \in {"submitted", "processing", "completed", "rejected"}
              /\ status[o] \in AtOrBeyond(TargetOf[b.command_status]) \/ action = "apply"
              /\ provider_reference_is_compatible(reference[o], b.provider_reference)
         /\ action = "apply" =>
              /\ TargetOf[b.command_status] \in Progress(status[o])
         /\ action = "duplicate" => status[o] = TargetOf[b.command_status]
         /\ TargetOf[b.command_status] \in {"submitted", "processing", "completed", "rejected"}
         /\ b.provider_reference \in References \cup {"none"}
         /\ action \in {"conflict", "apply", "duplicate", "stale"}
<1> DEFINE ok == provider_reference_is_compatible(reference[o], b.provider_reference)
           said == b.command_status
           local == status[o]
<1>1. /\ said \in {"accepted", "processing", "completed", "rejected"}
      /\ b.provider_reference \in References \cup {"none"}
  BY BodiesTyped DEF Body
<1>2. local \in OperationRecordStatus \cup {"absent"}
  BY DEF InboxInv, InboxTypeOK, LifecycleType
<1>3. action =
        IF ~ok \/ local \in {"absent", "pending_confirmation", "queued", "manual_review",
                             "cancelled_by_customer"} THEN "conflict" ELSE
        IF local = TargetOf[said] THEN "duplicate" ELSE
        IF local = "submitted" THEN "apply" ELSE
        IF local = "processing" THEN IF said = "accepted" THEN "stale" ELSE "apply" ELSE
        IF local = "completed" THEN IF said \in {"accepted", "processing"} THEN "stale"
                                    ELSE "conflict"
        ELSE "conflict"
  BY <1>2 DEF OperationRecordStatus, decide_order_operation_callback
<1>4. TargetOf[said] = CASE said = "accepted" -> "submitted"
                         [] said = "processing" -> "processing"
                         [] said = "completed" -> "completed"
                         [] OTHER -> "rejected"
  BY <1>1 DEF TargetOf
<1> DEFINE target == TargetOf[said]
<1>5. ok \in BOOLEAN
  BY DEF provider_reference_is_compatible
<1>6. target \in {"submitted", "processing", "completed", "rejected"}
  BY <1>1, <1>4
<1> HIDE DEF ok, local, target
<1>7. /\ action # "conflict" =>
           /\ local \in {"submitted", "processing", "completed", "rejected"} /\ ok
           /\ local = target \/ (local = "processing" /\ target = "submitted")
              \/ (local = "completed" /\ target \in {"submitted", "processing"})
              \/ action = "apply"
      /\ action = "apply" => target # local /\ (local = "submitted"
           \/ (local = "processing" /\ target # "submitted"))
      /\ action = "duplicate" => local = target
      /\ action \in {"conflict", "apply", "duplicate", "stale"}
  BY <1>1, <1>2, <1>3, <1>4, <1>5 DEF OperationRecordStatus, target
<1>8. /\ action # "conflict" => local \in AtOrBeyond(target) \/ action = "apply"
      /\ action = "apply" => target \in Progress(local)
  BY <1>6, <1>7 DEF Progress, AtOrBeyond
<1> QED
  BY <1>1, <1>6, <1>7, <1>8 DEF ok, local, target

LEMMA OrderOperationGood ==
  ASSUME InboxInv, NEW w \in Workers, NEW e \in Events, finalize_order_operation(w, e)
  PROVE  StepGood
<1> DEFINE b == inbox[e].body
           o == b.command_id
           action == decide_order_operation_callback(o, b)
           target == TargetOf[b.command_status]
           readiness == decide_inbox_outbox_readiness(o)
<1>1. /\ HoldsLease(w, e) /\ b.aggregate_type = "order_operation"
      /\ b \in Bodies /\ Bodies \subseteq Body
  BY InboxFacts, BodiesTyped, Zenon DEF finalize_order_operation, Fenced, HoldsLease, RowInv
<1>2. CASE Unapplied(w, e) \/ Waits(w, e, o)
  BY <1>1, <1>2, UnappliedGood DEF Unapplied, Waits
<1>3. CASE /\ Associated(b) /\ readiness # "retry" /\ action # "conflict"
           /\ readiness = "dead" => action = "duplicate"
           /\ \/ action = "apply" /\ Apply(w, e, b)
              \/ action # "apply" /\ Settle(w, e, b, action)
  <2>1. o \in Operations /\ o \in Commands /\ delivery[o] # "none"
    BY <1>1, <1>3 DEF Associated, Body, Commands
  <2>2. delivery[o] \in Deliveries
    BY <2>1 DEF InboxInv, InboxTypeOK, LifecycleType
  <2>3. /\ status[o] \in {"submitted", "processing", "completed", "rejected"}
        /\ status[o] \in AtOrBeyond(target) \/ action = "apply"
        /\ provider_reference_is_compatible(reference[o], b.provider_reference)
        /\ action = "apply" => target \in Progress(status[o])
        /\ target \in OperationRecordStatus
        /\ b.provider_reference \in References \cup {"none"}
        /\ reference[o] \in References \cup {"none"}
    <3>1. /\ status[o] \in {"submitted", "processing", "completed", "rejected"}
          /\ status[o] \in AtOrBeyond(target) \/ action = "apply"
          /\ provider_reference_is_compatible(reference[o], b.provider_reference)
          /\ action = "apply" => target \in Progress(status[o])
          /\ target \in {"submitted", "processing", "completed", "rejected"}
          /\ b.provider_reference \in References \cup {"none"}
      <4>1. action # "conflict"
        BY <1>3
      <4> HIDE DEF b, o, action
      <4> QED
        BY <1>1, <2>1, <4>1, CallbackDecision DEF action
    <3>2. reference[o] \in References \cup {"none"}
      <4> HIDE DEF o
      <4> QED
        BY <2>1, InboxFacts
    <3> HIDE DEF o, action, target
    <3> QED
      BY <3>1, <3>2 DEF OperationRecordStatus
  <2>4. delivery[o] # "failed" /\ delivery[o] # "undecided"
    BY <1>3, <2>1, <2>3, Zenon DEF InboxInv, Agreement
  <2>5. CASE action = "apply" /\ Apply(w, e, b)
    <3> DEFINE x == IF b.provider_reference = "none" THEN reference[o] ELSE b.provider_reference
    <3>1. readiness = "ready"
      BY <1>3, <2>5 DEF decide_inbox_outbox_readiness
    <3>2. delivery[o] = "published"
      BY <3>1 DEF decide_inbox_outbox_readiness
    <3>3. /\ KeyFree(e) /\ Processed(w, e) /\ status' = WithStatus({o}, target)
          /\ reference' = [reference EXCEPT ![o] = x]
          /\ history' = [history EXCEPT ![o] =
               Append(@, [event |-> e, previous |-> status[o], current |-> target])]
          /\ UNCHANGED <<delivery, updates>>
      BY <2>5, Zenon DEF Apply
    <3>4. x \in References \cup {"none"} /\ (reference[o] = "none" \/ x = reference[o])
      BY <2>3, Zenon DEF provider_reference_is_compatible
    <3> HIDE DEF x
    <3>5. RowsGood /\ OnlyProcessed(e)
      BY <1>1, <3>3, ProcessedRows, Zenon
    <3>6. ReferenceSet(o, x)
      <4>1. reference' = [reference EXCEPT ![o] = x]
        BY <3>3, Zenon
      <4> QED
        BY <3>4, <4>1 DEF ReferenceSet
    <3>7. Applied(e, o, target)
      <4>1. inbox[e].body.command_id = o /\ target = TargetOf[inbox[e].body.command_status]
        OBVIOUS
      <4>2. \E y \in References \cup {"none"} : ReferenceSet(o, y)
        BY <3>4, <3>6
      <4>3. target \in Progress(status[o])
        BY <2>3, <2>5, Zenon
      <4> HIDE DEF o, target
      <4> QED
        BY <3>2, <3>3, <3>5, <4>1, <4>2, <4>3, Zenon DEF Applied
    <3> QED
      BY <2>1, <2>3, <3>5, <3>7, Zenon DEF StepGood, Effect
  <2>6. CASE action # "apply" /\ Settle(w, e, b, action)
    <3> DEFINE x == IF action = "duplicate" /\ reference[o] = "none" THEN b.provider_reference
                    ELSE reference[o]
    <3>1. delivery[o] \in {"published", "rejected"}
      BY <2>1, <2>2, <2>4 DEF Deliveries
    <3>2. /\ Processed(w, e) /\ reference' = [reference EXCEPT ![o] = x]
          /\ UNCHANGED <<lifecycle, history, updates>>
      BY <2>6 DEF Settle
    <3>3. x \in References \cup {"none"} /\ (reference[o] = "none" \/ x = reference[o])
      BY <2>3, Zenon
    <3> HIDE DEF x
    <3>4. RowsGood /\ OnlyProcessed(e)
      BY <1>1, <3>2, ProcessedRows
    <3>5. Settled(e, o)
      <4>1. ReferenceSet(o, x)
        BY <3>2, <3>3 DEF ReferenceSet
      <4>2. inbox[e].body.command_id = o /\ target = TargetOf[inbox[e].body.command_status]
        OBVIOUS
      <4>3. \E y \in References \cup {"none"} : ReferenceSet(o, y)
        BY <3>3, <4>1
      <4>4. status[o] \in AtOrBeyond(target)
        BY <2>3, <2>6, Zenon
      <4> HIDE DEF o, target
      <4> QED
        BY <3>1, <3>2, <3>4, <4>2, <4>3, <4>4, Zenon DEF Settled
    <3> QED
      BY <2>1, <3>4, <3>5 DEF StepGood, Effect
  <2> QED
    BY <1>3, <2>5, <2>6
<1> QED
  BY <1>2, <1>3, Zenon DEF finalize_order_operation

LEMMA SupportCaseGood ==
  ASSUME InboxInv, NEW w \in Workers, NEW e \in Events, finalize_support_case(w, e)
  PROVE  StepGood
<1> DEFINE b == inbox[e].body
<1>1. HoldsLease(w, e) /\ b.aggregate_type = "support_case"
  BY DEF finalize_support_case, Fenced
<1>2. CASE Unapplied(w, e) \/ Waits(w, e, b.command_id)
  BY <1>1, <1>2, UnappliedGood DEF Unapplied, Waits
<1>3. CASE /\ KeyFree(e) /\ updates' = updates \cup {e} /\ Processed(w, e)
           /\ UNCHANGED <<lifecycle, reference, history>>
  <2>1. RowsGood /\ OnlyProcessed(e)
    BY <1>1, <1>3, ProcessedRows
  <2> QED
    BY <1>1, <1>3, <2>1, Zenon DEF Updated, StepGood, Effect
<1> QED
  BY <1>2, <1>3, Zenon DEF finalize_support_case

LEMMA RepositoryGood ==
  ASSUME InboxInv, NEW w \in Workers, NEW e \in Events,
         mark_inbox_failed(w, e) \/ schedule_inbox_retry(w, e)
  PROVE  StepGood
BY UnappliedGood DEF mark_inbox_failed, schedule_inbox_retry, Unapplied

LEMMA EveryStepGood == InboxInv /\ [Next]_vars => StepGood
<1> SUFFICES ASSUME InboxInv, [Next]_vars PROVE StepGood
  OBVIOUS
<1>1. CASE UNCHANGED vars
  <2>1. /\ UNCHANGED <<lifecycle, reference, history, updates>>
        /\ UNCHANGED <<inbox, attempts, redrives, task>>
    BY <1>1 DEF vars, rows
  <2>2. RowsGood
    BY <2>1, InboxFacts DEF RowsGood, RowStep, Kept
  <2> QED
    BY <2>1, <2>2 DEF StepGood, Effect, NoEffect
<1>2. ASSUME NEW w \in Workers, NEW e \in Events,
             Process(w, e) \/ renew_inbox_lease(w, e) \/ mark_inbox_failed(w, e)
               \/ schedule_inbox_retry(w, e)
      PROVE  StepGood
  BY <1>2, OrderOperationGood, SupportCaseGood, AbandonGood, ClockGood, RepositoryGood
  DEF Process
<1>3. CASE Claim \/ Recover
  BY <1>3, ClaimGood, RecoverGood DEF Claim, Recover
<1> QED
  BY <1>1, <1>2, <1>3, OutsideGood, ReceiveGood, AbandonGood, ClockGood, RedriveGood DEF Next

-----------------------------------------------------------------------------
(* Invariance. *)

LEMMA OutsideCases ==
  ASSUME Outside
  PROVE  \/ /\ \E o \in Operations : Record(o) \/ Decline(o) \/ Review(o)
            /\ reference' = reference
         \/ /\ \E c \in Commands : Queue(c) \/ Fail({c}) \/ Redrive(c)
            /\ reference' = reference
         \/ \E c \in Commands : OutboxDecides(c)
BY Zenon DEF Outside, OutsideStep

LEMMA StepLifecycle ==
  ASSUME InboxInv, StepGood
  PROVE  [LifecycleNext]_lifecycle
<1>1. CASE UNCHANGED lifecycle
  BY <1>1
<1>2. CASE Outside
  <2>1. ASSUME NEW c \in Commands, Fail({c}) PROVE LifecycleNext
    <3>1. {c} \in SUBSET Commands
      OBVIOUS
    <3> QED
      BY <2>1, <3>1 DEF LifecycleNext
  <2>2. ASSUME NEW c \in Commands, Accept(c) \/ Reject(c) \/ Queue(c) \/ Redrive(c)
        PROVE  LifecycleNext
    BY <2>2 DEF LifecycleNext
  <2>3. ASSUME NEW o \in Operations, Record(o) \/ Decline(o) \/ Review(o) PROVE LifecycleNext
    BY <2>3 DEF LifecycleNext
  <2> QED
    BY <1>2, <2>1, <2>2, <2>3, OutsideCases, Zenon DEF OutboxDecides
<1>3. ASSUME NEW e \in Events, NEW o \in Operations, NEW s \in OperationRecordStatus,
             Applied(e, o, s)
      PROVE  LifecycleNext
  <2>1. Callback(o)
    BY <1>3, Zenon DEF Applied, Callback
  <2> QED
    BY <2>1 DEF LifecycleNext
<1> QED
  BY <1>1, <1>2, <1>3 DEF StepGood, Effect, NoEffect, Settled, Updated

(* A processed message is not touched again. *)
LEMMA ProcessedKept ==
  ASSUME StepGood, NEW e \in Events, inbox[e].status = "processed"
  PROVE  inbox'[e] = inbox[e] /\ attempts'[e] = attempts[e]
<1>1. RowStep(e)
  BY DEF StepGood, RowsGood
<1>2. ~\E b \in Bodies : Stored(e, b)
  BY DEF Stored
<1>3. ~\E w \in Workers : Taken(e, w)
  BY DEF Taken
<1>4. ~\E ttl \in Nat, due \in BOOLEAN : Timed(e, ttl, due)
  BY DEF Timed
<1>5. ~\E target \in {"received", "processed", "failed"}, due \in BOOLEAN,
          outcome \in Outcomes : Closed(e, target, due, outcome)
  BY DEF Closed
<1>6. ~\E r \in Requests : Redriven(e, r)
  BY DEF Redriven
<1> QED
  BY <1>1, <1>2, <1>3, <1>4, <1>5, <1>6, Zenon DEF RowStep, Kept

(* Nobody outside touches an operation whose delivery is decided. *)
LEMMA OutsideKeeps ==
  ASSUME InboxInv, Outside, NEW o \in Operations
  PROVE  /\ delivery[o] \in {"published", "rejected"} =>
              delivery'[o] = delivery[o] /\ status'[o] = status[o] /\ reference'[o] = reference[o]
         /\ delivery'[o] = "published" /\ delivery[o] # "published" => status'[o] = "submitted"
         /\ reference'[o] # reference[o] =>
              delivery[o] = "undecided" /\ delivery'[o] \in {"published", "rejected"}
<1>0. /\ Agrees(o) /\ o \in Commands /\ delivery \in [Commands -> Deliveries]
      /\ reference \in [Operations -> References \cup {"none"}]
  BY InboxFacts DEF InboxInv, Agreement, Agrees, InboxTypeOK, LifecycleType, Commands
<1> DEFINE Goal ==
         /\ delivery[o] \in {"published", "rejected"} =>
              delivery'[o] = delivery[o] /\ status'[o] = status[o] /\ reference'[o] = reference[o]
         /\ delivery'[o] = "published" /\ delivery[o] # "published" => status'[o] = "submitted"
         /\ reference'[o] # reference[o] =>
              delivery[o] = "undecided" /\ delivery'[o] \in {"published", "rejected"}
<1>1. ASSUME NEW p \in Operations, Record(p) \/ Decline(p) \/ Review(p), UNCHANGED reference
      PROVE  Goal
  BY <1>0, <1>1 DEF Record, Decline, Review, WithStatus, Agrees
<1>2. ASSUME NEW c \in Commands, Queue(c) \/ Fail({c}) \/ Redrive(c), UNCHANGED reference
      PROVE  Goal
  BY <1>0, <1>2 DEF Queue, Fail, Redrive, WithStatus
<1>3. ASSUME NEW c \in Commands, OutboxDecides(c)
      PROVE  Goal
  <2>1. CASE c = o
    BY <1>0, <1>3, <2>1 DEF OutboxDecides, Accept, Reject, WithStatus
  <2>2. CASE c # o
    BY <1>0, <1>3, <2>2 DEF OutboxDecides, Accept, Reject, WithStatus
  <2> QED
    BY <2>1, <2>2
<1> HIDE DEF Goal
<1>4. Goal
  BY <1>1, <1>2, <1>3, OutsideCases, Zenon
<1> QED
  BY <1>4 DEF Goal

LEMMA HistoryAppended ==
  ASSUME InboxInv, NEW e \in Events, NEW o \in Operations, NEW s \in OperationRecordStatus,
         Applied(e, o, s)
  PROVE  LET n == Len(history[o]) IN
         /\ history' \in [Operations -> Seq(Change)]
         /\ Len(history'[o]) = n + 1 /\ n \in Nat
         /\ \A i \in 1 .. n : history'[o][i] = history[o][i]
         /\ history'[o][n + 1].event = e /\ history'[o][n + 1].previous = status[o]
         /\ history'[o][n + 1].current = s
         /\ \A p \in Operations : p # o => history'[p] = history[p]
<1> DEFINE entry == [event |-> e, previous |-> status[o], current |-> s]
           n == Len(history[o])
<1>1. history \in [Operations -> Seq(Change)] /\ history[o] \in Seq(Change) /\ n \in Nat
  BY InboxFacts, AttemptOf
<1>2. status[o] \in {"submitted", "processing"}
  BY DEF Applied, Progress
<1>3. /\ entry \in Change /\ entry.event = e /\ entry.previous = status[o]
      /\ entry.current = s
  BY <1>2 DEF Change, OperationRecordStatus
<1>4. history' = [history EXCEPT ![o] = Append(@, entry)]
  BY DEF Applied
<1> HIDE DEF entry
<1>5. /\ Append(history[o], entry) \in Seq(Change) /\ Len(Append(history[o], entry)) = n + 1
      /\ \A i \in 1 .. n : Append(history[o], entry)[i] = history[o][i]
      /\ Append(history[o], entry)[n + 1] = entry
  BY <1>1, <1>3, AttemptAdded
<1> DEFINE longer == Append(history[o], entry)
<1> HIDE DEF longer
<1>6. history' = [history EXCEPT ![o] = longer] /\ longer \in Seq(Change)
  BY <1>4, <1>5 DEF longer
<1>7. /\ history' \in [Operations -> Seq(Change)] /\ history'[o] = longer
      /\ \A p \in Operations : p # o => history'[p] = history[p]
  BY <1>1, <1>6
<1> QED
  BY <1>1, <1>3, <1>5, <1>7 DEF longer

LEMMA TypeStep ==
  ASSUME InboxInv, StepGood
  PROVE  InboxTypeOK'
<1>1. LifecycleType'
  BY StepLifecycle, TypeOfStep DEF InboxInv, InboxTypeOK
<1>2. \A e \in Events : inbox'[e] \in Row /\ attempts'[e] \in Seq(Attempt)
  BY InboxFacts, RowStepType DEF StepGood, RowsGood, RowTyped
<1>3. inbox' \in [Events -> Row] /\ attempts' \in [Events -> Seq(Attempt)]
      /\ task' \in [Workers -> [Events -> Nat]]
  BY <1>2 DEF StepGood, RowsGood
<1>4. redrives' \subseteq RedriveRow
  <2>1. redrives \subseteq RedriveRow
    BY DEF InboxInv, InboxTypeOK
  <2>2. ASSUME NEW e \in Events, NEW r \in Requests, Redriven(e, r)
        PROVE  redrives' \subseteq RedriveRow
    <3>1. inbox[e].processing_cycle + 1 \in Nat
      BY InboxFacts DEF Row
    <3> QED
      BY <2>1, <2>2, <3>1 DEF Redriven, RedriveRow
  <2> QED
    BY <2>1, <2>2 DEF StepGood, RowsGood
<1>5. reference' \in [Operations -> References \cup {"none"}]
  <2>1. reference \in [Operations -> References \cup {"none"}]
    BY InboxFacts
  <2>2. CASE Outside
    BY <2>1, <2>2, OutsideCases DEF OutboxDecides
  <2>3. ASSUME NEW o \in Operations, NEW x \in References \cup {"none"}, ReferenceSet(o, x)
        PROVE  reference' \in [Operations -> References \cup {"none"}]
    BY <2>1, <2>3 DEF ReferenceSet
  <2>4. CASE reference' = reference
    BY <2>1, <2>4
  <2>5. NoEffect \/ (\E e \in Events : Updated(e)) => reference' = reference
    BY DEF NoEffect, Updated
  <2>6. ASSUME NEW e \in Events, NEW o \in Operations,
               Settled(e, o) \/ \E s \in OperationRecordStatus : Applied(e, o, s)
        PROVE  \E x \in References \cup {"none"} : ReferenceSet(o, x)
    BY <2>6, Zenon DEF Applied, Settled
  <2> QED
    BY <2>2, <2>3, <2>4, <2>5, <2>6, Zenon DEF StepGood, Effect
<1>6. history' \in [Operations -> Seq(Change)]
  BY InboxFacts, HistoryAppended, Zenon
  DEF StepGood, Effect, NoEffect, Outside, Settled, Updated
<1>7. updates' \subseteq Events
  <2>1. updates \subseteq Events
    BY DEF InboxInv, InboxTypeOK
  <2>2. /\ NoEffect \/ Outside => updates' = updates
        /\ \A e \in Events, o \in Operations : Settled(e, o) => updates' = updates
        /\ \A e \in Events, o \in Operations, s \in OperationRecordStatus :
             Applied(e, o, s) => updates' = updates
    BY Zenon DEF NoEffect, Outside, Settled, Applied
  <2>3. ASSUME NEW e \in Events, Updated(e) PROVE updates' = updates \cup {e}
    BY <2>3 DEF Updated
  <2> QED
    BY <2>1, <2>2, <2>3 DEF StepGood, Effect
<1> QED
  BY <1>1, <1>3, <1>4, <1>5, <1>6, <1>7 DEF InboxTypeOK

LEMMA HistoryEvents ==
  ASSUME InboxInv, NEW o \in Operations
  PROVE  /\ Len(history[o]) \in Nat /\ DOMAIN history[o] = 1 .. Len(history[o])
         /\ \A i \in DOMAIN history[o] : history[o][i].event \in Events
<1>1. history[o] \in Seq(Change)
  BY InboxFacts
<1>2. \A i \in DOMAIN history[o] : history[o][i] \in Change
  BY <1>1, AttemptOf, AttemptOf
<1> QED
  BY <1>1, <1>2, AttemptOf DEF Change

(* The parts of EffectOnce. *)
Effective(o, i) ==
  LET e == history[o][i].event
  IN inbox[e].status = "processed" /\ inbox[e].body.command_id = o

Unique ==
  \A o, p \in Operations : \A i \in DOMAIN history[o], j \in DOMAIN history[p] :
    history[p][j].event = history[o][i].event => p = o /\ j = i

LEMMA EffectParts ==
  ASSUME EffectOnce
  PROVE  /\ \A o \in Operations : \A i \in DOMAIN history[o] : Effective(o, i)
         /\ Unique
         /\ \A e \in updates : inbox[e].status = "processed"
<1>1. \A o \in Operations : \A i \in DOMAIN history[o] : Effective(o, i)
  BY DEF EffectOnce, Effective
<1>2. Unique
  BY DEF EffectOnce, Unique
<1> QED
  BY <1>1, <1>2 DEF EffectOnce

LEMMA EffectOnceStep ==
  ASSUME InboxInv, StepGood
  PROVE  EffectOnce'
<1>1. /\ \A o \in Operations : \A i \in DOMAIN history[o] : Effective(o, i)
      /\ Unique /\ \A e \in updates : inbox[e].status = "processed"
      /\ updates \subseteq Events
  BY EffectParts DEF InboxInv, InboxTypeOK
<1>2. ASSUME NEW o \in Operations, NEW i \in DOMAIN history[o]
      PROVE  LET e == history[o][i].event
             IN inbox'[e].status = "processed" /\ inbox'[e].body.command_id = o
  <2> DEFINE e == history[o][i].event
  <2>1. e \in Events /\ Effective(o, i)
    BY <1>1, HistoryEvents
  <2>2. inbox[e].status = "processed" /\ inbox[e].body.command_id = o
    BY <2>1 DEF Effective
  <2> HIDE DEF e
  <2>3. inbox'[e] = inbox[e]
    BY <2>1, <2>2, ProcessedKept
  <2> QED
    BY <2>2, <2>3 DEF e
<1>3. \A e \in updates : inbox'[e].status = "processed"
  BY <1>1, ProcessedKept
<1>4. CASE history' = history /\ updates' = updates
  <2>1. Unique'
    BY <1>1, <1>4 DEF Unique
  <2>2. (\A o \in Operations : \A i \in DOMAIN history[o] : Effective(o, i))'
    BY <1>2, <1>4 DEF Effective
  <2> QED
    BY <1>3, <1>4, <2>1, <2>2 DEF EffectOnce, Effective, Unique
<1>5. ASSUME NEW e \in Events, Updated(e) PROVE EffectOnce'
  <2>1. history' = history /\ updates' = updates \cup {e} /\ inbox'[e].status = "processed"
    BY <1>5 DEF Updated, OnlyProcessed
  <2>2. Unique'
    BY <1>1, <2>1 DEF Unique
  <2>3. (\A o \in Operations : \A i \in DOMAIN history[o] : Effective(o, i))'
    BY <1>2, <2>1 DEF Effective
  <2>4. \A f \in updates' : inbox'[f].status = "processed"
    BY <1>3, <2>1
  <2> QED
    BY <2>2, <2>3, <2>4 DEF EffectOnce, Effective, Unique
<1>6. ASSUME NEW e \in Events, NEW o \in Operations, NEW s \in OperationRecordStatus,
             Applied(e, o, s)
      PROVE  EffectOnce'
  <2> DEFINE n == Len(history[o])
  <2>1. /\ KeyFree(e) /\ inbox'[e].status = "processed" /\ inbox'[e].body.command_id = o
        /\ updates' = updates
    BY <1>6, Zenon DEF Applied, OnlyProcessed
  <2>2. \A p \in Operations : \A i \in DOMAIN history[p] : history[p][i].event # e
    BY <2>1 DEF KeyFree
  <2>3. /\ n \in Nat /\ DOMAIN history[o] = 1 .. n
        /\ \A i \in 1 .. n : history'[o][i] = history[o][i]
        /\ history'[o][n + 1].event = e
        /\ \A p \in Operations : p # o => history'[p] = history[p]
        /\ Len(history'[o]) = n + 1 /\ history'[o] \in Seq(Change)
    <3>1. n \in Nat /\ DOMAIN history[o] = 1 .. n
      BY HistoryEvents
    <3>2. history' \in [Operations -> Seq(Change)]
      BY <1>6, HistoryAppended
    <3>3. /\ \A i \in 1 .. n : history'[o][i] = history[o][i]
          /\ history'[o][n + 1].event = e
          /\ \A p \in Operations : p # o => history'[p] = history[p]
          /\ Len(history'[o]) = n + 1
      BY <1>6, HistoryAppended
    <3> HIDE DEF n
    <3> QED
      BY <3>1, <3>2, <3>3
  <2>4. DOMAIN history'[o] = 1 .. (n + 1)
    BY <2>3, AttemptOf
  <2> HIDE DEF n
  <2>5. ASSUME NEW p \in Operations, NEW i \in DOMAIN history'[p]
        PROVE  \/ p = o /\ i = n + 1 /\ history'[p][i].event = e
               \/ /\ i \in DOMAIN history[p] /\ history'[p][i] = history[p][i]
                  /\ history'[p][i].event # e
    <3>1. CASE p # o
      BY <2>2, <2>3, <3>1
    <3>2. CASE p = o /\ i = n + 1
      BY <2>3, <3>2
    <3>3. CASE p = o /\ i # n + 1
      <4>1. i \in 1 .. n
        BY <2>3, <2>4, <2>5, <3>3
      <4> QED
        BY <2>2, <2>3, <3>3, <4>1
    <3> QED
      BY <3>1, <3>2, <3>3
  <2>6. ASSUME NEW p \in Operations, NEW i \in DOMAIN history'[p] PROVE Effective(p, i)'
    <3>1. CASE p = o /\ history'[p][i].event = e
      BY <2>1, <3>1 DEF Effective
    <3>2. CASE i \in DOMAIN history[p] /\ history'[p][i] = history[p][i]
      BY <1>2, <3>2 DEF Effective
    <3> QED
      BY <2>5, <3>1, <3>2
  <2>7. ASSUME NEW p \in Operations, NEW q \in Operations, NEW i \in DOMAIN history'[p],
               NEW j \in DOMAIN history'[q], history'[q][j].event = history'[p][i].event
        PROVE  q = p /\ j = i
    <3>1. CASE history'[p][i].event = e
      BY <2>5, <2>7, <3>1
    <3>2. CASE history'[p][i].event # e
      <4>1. /\ i \in DOMAIN history[p] /\ history'[p][i] = history[p][i]
            /\ j \in DOMAIN history[q] /\ history'[q][j] = history[q][j]
        BY <2>5, <2>7, <3>2
      <4> QED
        BY <1>1, <2>7, <4>1 DEF Unique
    <3> QED
      BY <3>1, <3>2
  <2>8. Unique'
    BY <2>7 DEF Unique
  <2>9. \A f \in updates' : inbox'[f].status = "processed"
    BY <1>3, <2>1
  <2> QED
    BY <2>6, <2>8, <2>9 DEF EffectOnce, Effective, Unique
<1>7. /\ NoEffect \/ Outside => history' = history /\ updates' = updates
      /\ \A e \in Events, o \in Operations : Settled(e, o) =>
           history' = history /\ updates' = updates
  BY Zenon DEF NoEffect, Outside, Settled
<1> QED
  BY <1>4, <1>5, <1>6, <1>7 DEF StepGood, Effect

(* What a step does to one operation, when it changes it at all. *)
LEMMA OperationKept ==
  ASSUME InboxInv, StepGood, NEW o \in Operations,
         ~\E e \in Events, s \in OperationRecordStatus : Applied(e, o, s)
  PROVE  /\ history'[o] = history[o]
         /\ delivery[o] \in {"published", "rejected"} =>
              delivery'[o] = delivery[o] /\ status'[o] = status[o]
         /\ delivery'[o] = "published" /\ delivery[o] # "published" => status'[o] = "submitted"
<1>1. CASE NoEffect \/ (\E e \in Events : Updated(e))
           \/ (\E e \in Events, p \in Operations : Settled(e, p))
  <2>1. UNCHANGED <<lifecycle, history>>
    BY <1>1, Zenon DEF NoEffect, Updated, Settled
  <2> QED
    BY <2>1 DEF lifecycle
<1>2. CASE Outside
  <2>1. history' = history
    BY <1>2 DEF Outside
  <2> QED
    BY <1>2, <2>1, OutsideKeeps, Zenon
<1>3. ASSUME NEW e \in Events, NEW p \in Operations, NEW s \in OperationRecordStatus,
             Applied(e, p, s), p # o
      PROVE  history'[o] = history[o] /\ delivery' = delivery /\ status'[o] = status[o]
  <2>1. history'[o] = history[o]
    BY <1>3, HistoryAppended
  <2> QED
    BY <1>3, <2>1, Zenon DEF Applied, WithStatus
<1> QED
  BY <1>1, <1>2, <1>3, Zenon DEF StepGood, Effect

LEMMA AppliedOperation ==
  ASSUME InboxInv, NEW e \in Events, NEW o \in Operations, NEW s \in OperationRecordStatus,
         Applied(e, o, s)
  PROVE  /\ delivery[o] = "published" /\ delivery'[o] = "published"
         /\ status'[o] = s /\ s \in Progress(status[o])
BY DEF Applied, WithStatus

LEMMA DecidedFirstStep ==
  ASSUME InboxInv, StepGood
  PROVE  DecidedFirst'
<1> SUFFICES ASSUME NEW o \in Operations
             PROVE  /\ reference'[o] # "none" => delivery'[o] \in {"published", "rejected"}
                    /\ Len(history'[o]) > 0 => delivery'[o] = "published"
  BY DEF DecidedFirst
<1>0. /\ reference[o] # "none" => delivery[o] \in {"published", "rejected"}
      /\ Len(history[o]) > 0 => delivery[o] = "published"
  BY DEF InboxInv, DecidedFirst
<1>1. ASSUME NEW e \in Events, NEW s \in OperationRecordStatus, Applied(e, o, s)
      PROVE  /\ reference'[o] # "none" => delivery'[o] \in {"published", "rejected"}
             /\ Len(history'[o]) > 0 => delivery'[o] = "published"
  BY <1>1, AppliedOperation
<1>2. CASE ~\E e \in Events, s \in OperationRecordStatus : Applied(e, o, s)
  <2>1. Len(history'[o]) > 0 => delivery'[o] = "published"
    BY <1>0, <1>2, OperationKept
  <2>2. reference'[o] # reference[o] => delivery'[o] \in {"published", "rejected"}
    <3>1. CASE Outside
      BY <3>1, OutsideKeeps
    <3>2. ASSUME NEW e \in Events, NEW p \in Operations, Settled(e, p)
          PROVE  reference'[o] # reference[o] => delivery'[o] \in {"published", "rejected"}
      BY <3>2, InboxFacts DEF Settled, ReferenceSet, lifecycle
    <3>3. ASSUME NEW e \in Events, NEW p \in Operations, NEW s \in OperationRecordStatus,
                 Applied(e, p, s), p # o
          PROVE  reference'[o] = reference[o]
      BY <3>3, InboxFacts, Zenon DEF Applied, ReferenceSet
    <3>4. NoEffect \/ (\E e \in Events : Updated(e)) => reference' = reference
      BY Zenon DEF NoEffect, Updated
    <3> QED
      BY <1>2, <3>1, <3>2, <3>3, <3>4 DEF StepGood, Effect
  <2> QED
    BY <1>0, <1>2, <2>1, <2>2, OperationKept, Zenon
<1> QED
  BY <1>1, <1>2

LEMMA ReflectedStep ==
  ASSUME InboxInv, StepGood
  PROVE  CallbackReflected' /\ Addressed'
<1> SUFFICES ASSUME NEW e \in Events, inbox'[e].status = "processed",
                    inbox'[e].body.aggregate_type = "order_operation"
             PROVE  LET b == inbox'[e].body
                    IN /\ b.command_id \in Operations
                       /\ delivery'[b.command_id] \in {"published", "rejected"}
                       /\ status'[b.command_id] \in AtOrBeyond(TargetOf[b.command_status])
  BY DEF CallbackReflected, Addressed
<1> DEFINE b == inbox[e].body
           c == b.command_id
           target == TargetOf[b.command_status]
<1>1. CASE inbox[e].status = "processed"
  <2>1. inbox'[e] = inbox[e]
    BY <1>1, ProcessedKept
  <2>2. delivery[c] \in {"published", "rejected"} /\ status[c] \in AtOrBeyond(target)
    BY <1>1, <2>1 DEF InboxInv, CallbackReflected
  <2>3. c \in Operations
    BY <1>1, <2>1 DEF InboxInv, Addressed
  <2>4. /\ delivery'[c] \in {"published", "rejected"}
        /\ status'[c] = status[c] \/ status'[c] \in Progress(status[c])
    <3> HIDE DEF c, target
    <3>1. CASE \E f \in Events, s \in OperationRecordStatus : Applied(f, c, s)
      BY <2>3, <3>1, AppliedOperation
    <3>2. CASE ~\E f \in Events, s \in OperationRecordStatus : Applied(f, c, s)
      BY <2>2, <2>3, <3>2, OperationKept
    <3> QED
      BY <3>1, <3>2
  <2>5. status'[c] \in AtOrBeyond(target)
    <3> HIDE DEF c, target
    <3> QED
      BY <2>2, <2>4 DEF AtOrBeyond, Progress
  <2> QED
    BY <2>1, <2>3, <2>4, <2>5
<1>2. CASE inbox[e].status # "processed"
  <2>1. ~NoEffect /\ ~Outside
    BY <1>2 DEF NoEffect, Outside
  <2>2. ASSUME NEW f \in Events, OnlyProcessed(f) PROVE f = e /\ inbox'[e].body = b
    BY <1>2, <2>2 DEF OnlyProcessed, Kept
  <2>3. ASSUME NEW f \in Events, Updated(f) PROVE FALSE
    BY <2>2, <2>3 DEF Updated
  <2>4. ASSUME NEW f \in Events, NEW o \in Operations, Settled(f, o)
        PROVE  /\ inbox'[e].body = b /\ c = o
               /\ delivery'[c] \in {"published", "rejected"} /\ status'[c] \in AtOrBeyond(target)
    BY <2>2, <2>4, Zenon DEF Settled, lifecycle
  <2>5. ASSUME NEW f \in Events, NEW o \in Operations, NEW s \in OperationRecordStatus,
               Applied(f, o, s)
        PROVE  /\ inbox'[e].body = b /\ c = o
               /\ delivery'[c] \in {"published", "rejected"} /\ status'[c] \in AtOrBeyond(target)
    <3>1. f = e /\ inbox'[e].body = b /\ c = o /\ s = target
      BY <2>2, <2>5, Zenon DEF Applied
    <3> QED
      <4>1. delivery'[o] = "published" /\ status'[o] = s
        BY <2>5, AppliedOperation
      <4>2. s \in AtOrBeyond(s)
        BY DEF AtOrBeyond
      <4> HIDE DEF b, c, target
      <4> QED
        BY <3>1, <4>1, <4>2
  <2> QED
    BY <2>1, <2>3, <2>4, <2>5, Zenon DEF StepGood, Effect
<1> QED
  BY <1>1, <1>2

(* The history of one operation is a chain up to its status. *)
Chain(o) ==
  LET n == Len(history[o])
  IN /\ n > 0 => /\ history[o][1].previous = "submitted"
                 /\ history[o][n].current = status[o]
     /\ n = 0 /\ delivery[o] = "published" => status[o] = "submitted"
     /\ \A i \in 1..(n - 1) : history[o][i].current = history[o][i + 1].previous
     /\ \A i \in 1..n : history[o][i].current \in Progress(history[o][i].previous)

LEMMA HistoryStep ==
  ASSUME InboxInv, StepGood
  PROVE  HistoryExplains'
<1> SUFFICES ASSUME NEW o \in Operations
             PROVE  Chain(o)'
  BY DEF HistoryExplains, Chain
<1>0. Chain(o)
  BY DEF InboxInv, HistoryExplains, Chain
<1>1. Len(history[o]) \in Nat
  BY InboxFacts, AttemptOf
<1>2. ASSUME NEW e \in Events, NEW s \in OperationRecordStatus, Applied(e, o, s)
      PROVE  Chain(o)'
  <2> DEFINE n == Len(history[o])
  <2>1. /\ Len(history'[o]) = n + 1 /\ n \in Nat
        /\ \A i \in 1 .. n : history'[o][i] = history[o][i]
        /\ history'[o][n + 1].previous = status[o] /\ history'[o][n + 1].current = s
    BY <1>2, HistoryAppended
  <2>2. delivery[o] = "published" /\ status'[o] = s /\ s \in Progress(status[o])
    BY <1>2, AppliedOperation
  <2>3. /\ n > 0 => history[o][1].previous = "submitted" /\ history[o][n].current = status[o]
        /\ n = 0 => status[o] = "submitted"
        /\ \A i \in 1..(n - 1) : history[o][i].current = history[o][i + 1].previous
        /\ \A i \in 1..n : history[o][i].current \in Progress(history[o][i].previous)
    BY <1>0, <2>2, Zenon DEF Chain
  <2> HIDE DEF n
  <2>4. history'[o][1].previous = "submitted"
    <3>1. n > 0 => history'[o][1] = history[o][1]
      BY <2>1
    <3>2. CASE n = 0
      BY <2>1, <2>3, <3>2
    <3> QED
      BY <2>1, <2>3, <3>1, <3>2
  <2>5. \A i \in 1 .. n : history'[o][i].current = history'[o][i + 1].previous
    <3>1. \A i \in 1 .. n - 1 : i \in 1 .. n /\ i + 1 \in 1 .. n
      BY <2>1
    <3>2. \A i \in 1 .. n - 1 : history'[o][i].current = history'[o][i + 1].previous
      BY <2>1, <2>3, <3>1, Zenon
    <3>3. n > 0 => n \in 1 .. n /\ history'[o][n].current = history'[o][n + 1].previous
      BY <2>1, <2>3
    <3>4. \A i \in 1 .. n : i \in 1 .. n - 1 \/ (i = n /\ n > 0)
      BY <2>1
    <3> QED
      BY <3>2, <3>3, <3>4, Zenon
  <2>6. \A i \in 1 .. n + 1 : history'[o][i].current \in Progress(history'[o][i].previous)
    <3>1. \A i \in 1 .. n : history'[o][i].current \in Progress(history'[o][i].previous)
      BY <2>1, <2>3
    <3>2. history'[o][n + 1].current \in Progress(history'[o][n + 1].previous)
      BY <2>1, <2>2
    <3>3. \A i \in 1 .. n + 1 : i \in 1 .. n \/ i = n + 1
      BY <2>1
    <3> QED
      BY <3>1, <3>2, <3>3, Zenon
  <2> QED
    BY <2>1, <2>2, <2>4, <2>5, <2>6 DEF Chain
<1>3. CASE ~\E e \in Events, s \in OperationRecordStatus : Applied(e, o, s)
  <2>1. /\ history'[o] = history[o]
        /\ delivery[o] = "published" => status'[o] = status[o]
        /\ delivery'[o] = "published" /\ delivery[o] # "published" => status'[o] = "submitted"
    BY <1>3, OperationKept
  <2>2. Len(history[o]) > 0 => delivery[o] = "published"
    BY DEF InboxInv, DecidedFirst
  <2> QED
    BY <1>0, <1>1, <2>1, <2>2, Zenon DEF Chain
<1> QED
  BY <1>2, <1>3

(* A redrive opens the next cycle and is the only one to. *)
LEMMA AuditStep ==
  ASSUME InboxInv, StepGood
  PROVE  Cycles' /\ RedrivesAudited'
<1>0. \A e \in Events : inbox[e].processing_cycle \in Nat \ {0}
  BY DEF InboxInv, Cycles
<1>1. CASE /\ redrives' = redrives
           /\ \A e \in Events : inbox'[e].processing_cycle = inbox[e].processing_cycle
  BY <1>0, <1>1 DEF InboxInv, Cycles, RedrivesAudited
<1>2. ASSUME NEW e \in Events, NEW r \in Requests, Redriven(e, r),
             \A f \in Events : f # e => Kept(f)
      PROVE  Cycles' /\ RedrivesAudited'
  <2> DEFINE c == inbox[e].processing_cycle
             row == [request_id |-> r, inbox_id |-> e, new_cycle |-> c + 1]
             Of(f, R) == {a.new_cycle : a \in {x \in R : x.inbox_id = f}}
  <2>1. c \in Nat \ {0}
    BY <1>0
  <2>2. redrives' = redrives \cup {row}
    BY <1>2 DEF Redriven
  <2>3. \A a \in redrives : a.request_id # r
    BY <1>2 DEF Redriven, RequestUnused
  <2>4. inbox'[e].processing_cycle = c + 1
    BY <1>2, InboxFacts DEF Redriven, Row
  <2>5. \A f \in Events : f # e => inbox'[f].processing_cycle = inbox[f].processing_cycle
    BY <1>2 DEF Kept
  <2>6. /\ \A a, b \in redrives : a.request_id = b.request_id => a = b
        /\ \A a, b \in redrives : a.inbox_id = b.inbox_id /\ a.new_cycle = b.new_cycle => a = b
        /\ \A f \in Events : Of(f, redrives) = 2 .. inbox[f].processing_cycle
    BY DEF InboxInv, RedrivesAudited
  <2>7. row.request_id = r /\ row.inbox_id = e /\ row.new_cycle = c + 1
    OBVIOUS
  <2>8. \A a \in redrives : a.inbox_id = e => a.new_cycle \in 2 .. c
    BY <2>6
  <2> HIDE DEF row
  <2>9. \A a \in redrives : a.inbox_id = e => a.new_cycle # c + 1
    BY <2>1, <2>8
  <2>10. Of(e, redrives') = Of(e, redrives) \cup {c + 1}
    BY <2>2, <2>7
  <2>11. \A f \in Events : f # e => Of(f, redrives') = Of(f, redrives)
    BY <2>2, <2>7
  <2>12. Of(e, redrives) = 2 .. c
    BY <2>6
  <2> HIDE DEF Of, c
  <2>13. Of(e, redrives') = 2 .. (c + 1)
    BY <2>1, <2>10, <2>12
  <2>14. \A f \in Events : Of(f, redrives') = 2 .. inbox'[f].processing_cycle
    BY <2>4, <2>5, <2>6, <2>11, <2>13
  <2>15. \A a, b \in redrives' : a.request_id = b.request_id => a = b
    BY <2>2, <2>3, <2>6, <2>7
  <2>16. \A a, b \in redrives' : a.inbox_id = b.inbox_id /\ a.new_cycle = b.new_cycle => a = b
    BY <2>2, <2>6, <2>7, <2>9
  <2>17. RedrivesAudited'
    BY <2>14, <2>15, <2>16 DEF RedrivesAudited, Of
  <2>18. Cycles'
    BY <1>0, <2>1, <2>4, <2>5 DEF Cycles
  <2> QED
    BY <2>17, <2>18
<1> QED
  BY <1>1, <1>2 DEF StepGood, RowsGood

-----------------------------------------------------------------------------
(* The invariant. *)

LEMMA InboxStart == Init => InboxInv
<1> SUFFICES ASSUME Init PROVE InboxInv
  OBVIOUS
<1>1. LifecycleType /\ Agreement
  BY LifecycleStart DEF Init
<1> DEFINE row == [status |-> "absent", body |-> NoBody, processing_cycle |-> 1,
                   attempts_in_cycle |-> 0, lease_id |-> 0, lease_ttl |-> 0, due |-> FALSE]
<1>2. /\ inbox = [e \in Events |-> row] /\ attempts = [e \in Events |-> << >>]
      /\ redrives = {} /\ task = [w \in Workers |-> [e \in Events |-> 0]]
      /\ reference = [o \in Operations |-> "none"] /\ history = [o \in Operations |-> << >>]
      /\ updates = {}
  BY DEF Init
<1>3. /\ row \in Row /\ row.status = "absent" /\ row.attempts_in_cycle = 0
      /\ row.processing_cycle = 1
  BY DEF Row
<1> HIDE DEF row
<1>4. << >> \in Seq(Attempt) /\ << >> \in Seq(Change) /\ Len(<< >>) = 0 /\ DOMAIN << >> = {}
  OBVIOUS
<1>5. InboxTypeOK
  BY <1>1, <1>2, <1>3, <1>4 DEF InboxTypeOK
<1>6. ASSUME NEW e \in Events PROVE RowInv(e)
  <2>1. InCycle(e) = {}
    BY <1>2, <1>4 DEF InCycle
  <2>2. Cardinality(InCycle(e)) = 0
    BY <2>1, FS_EmptySet
  <2> QED
    BY <1>2, <1>3, <1>4, <2>2, InboxBounds DEF RowInv
<1>7. EffectOnce
  BY <1>2, <1>4 DEF EffectOnce
<1>8. \A o \in Operations : reference[o] = "none" /\ Len(history[o]) = 0
  <2>1. reference = [o \in Operations |-> "none"] /\ history = [o \in Operations |-> << >>]
    BY <1>2
  <2>2. \A o \in Operations : reference[o] = "none" /\ history[o] = << >>
    BY <2>1, Zenon
  <2> QED
    BY <2>2, <1>4, Zenon
<1>9. \A o \in Operations : delivery[o] = "none"
  <2>1. LifecycleInit
    BY DEF Init
  <2> QED
    BY <2>1 DEF LifecycleInit, Commands
<1>10. DecidedFirst /\ HistoryExplains
  BY <1>8, <1>9 DEF DecidedFirst, HistoryExplains
<1>11. CallbackReflected /\ Addressed /\ Cycles
  BY <1>2, <1>3 DEF CallbackReflected, Addressed, Cycles
<1>12. RedrivesAudited
  BY <1>2, <1>3 DEF RedrivesAudited
<1> QED
  BY <1>1, <1>5, <1>6, <1>7, <1>10, <1>11, <1>12 DEF InboxInv

LEMMA InboxStep == InboxInv /\ [Next]_vars => InboxInv'
<1> SUFFICES ASSUME InboxInv, [Next]_vars PROVE InboxInv'
  OBVIOUS
<1>1. StepGood
  BY EveryStepGood
<1>2. InboxTypeOK'
  BY <1>1, TypeStep
<1>3. Agreement'
  BY <1>1, StepLifecycle, AgreementKept DEF InboxInv, InboxTypeOK
<1>4. \A e \in Events : RowInv(e)'
  BY <1>1, InboxFacts, RowInvStep DEF StepGood, RowsGood, RowTyped
<1>5. EffectOnce'
  BY <1>1, EffectOnceStep
<1>6. DecidedFirst'
  BY <1>1, DecidedFirstStep
<1>7. HistoryExplains'
  BY <1>1, HistoryStep
<1>8. CallbackReflected' /\ Addressed'
  BY <1>1, ReflectedStep
<1>9. Cycles' /\ RedrivesAudited'
  BY <1>1, AuditStep
<1> QED
  BY <1>2, <1>3, <1>4, <1>5, <1>6, <1>7, <1>8, <1>9 DEF InboxInv

LEMMA InboxInvariance == Spec => []InboxInv
BY InboxStart, InboxStep, PTL DEF Spec

(* Rows of the Inbox, of its ledger and of its audit are well formed. *)
THEOREM InboxTypes == Spec => []InboxTypeOK
<1>1. InboxInv => InboxTypeOK
  BY DEF InboxInv
<1> QED
  BY <1>1, InboxInvariance, PTL

(* The ledger follows the row for any number of workers and lease lengths:   *)
(* a row is processing exactly while its newest attempt is open, and the     *)
(* attempts of a cycle are counted (claim_due_inbox, _lock_inbox, recovery). *)
THEOREM LedgerSafety == Spec => []InboxLedger
<1>1. InboxInv => InboxLedger
  BY Zenon DEF InboxInv, RowInv, InCycle, InboxLedger
<1> QED
  BY <1>1, InboxInvariance, PTL

(* No callback is stranded for any MAX_ATTEMPTS: what is received can be     *)
(* claimed, and what is processing can be recovered.                         *)
THEOREM StrandedSafety == Spec => []NeverStranded
<1>1. InboxInv => NeverStranded
  <2> SUFFICES ASSUME InboxInv, NEW e \in Events
               PROVE  /\ inbox[e].attempts_in_cycle <= MAX_ATTEMPTS
                      /\ inbox[e].status = "received" =>
                           inbox[e].attempts_in_cycle < MAX_ATTEMPTS
                      /\ inbox[e].status = "processing" => Recoverable(e)
    BY DEF NeverStranded
  <2> QED
    BY InboxFacts DEF RowInv, Recoverable
<1> QED
  BY <1>1, InboxInvariance, PTL

(* A callback takes effect at most once and only with its own processing,    *)
(* for any deliveries, retries, redrives and workers (_finalize_order_       *)
(* operation, _finalize_support_case).                                       *)
THEOREM EffectSafety == Spec => []EffectOnce
<1>1. InboxInv => EffectOnce
  BY DEF InboxInv
<1> QED
  BY <1>1, InboxInvariance, PTL

(* The history of an operation is one unbroken chain from submitted to the   *)
(* status of its row, in whatever order callbacks were processed.            *)
THEOREM HistorySafety == Spec => []HistoryExplains
<1>1. InboxInv => HistoryExplains
  BY DEF InboxInv
<1> QED
  BY <1>1, InboxInvariance, PTL

(* Every processed callback is reflected in its operation, for any number of *)
(* callbacks in any order (decide_order_operation_callback).                 *)
THEOREM ReflectedSafety == Spec => []CallbackReflected
<1>1. InboxInv => CallbackReflected
  BY DEF InboxInv
<1> QED
  BY <1>1, InboxInvariance, PTL

(* Every cycle after the first was opened by exactly one audited request     *)
(* (redrive_inbox).                                                          *)
THEOREM RedriveSafety == Spec => []RedrivesAudited
<1>1. InboxInv => RedrivesAudited
  BY DEF InboxInv
<1> QED
  BY <1>1, InboxInvariance, PTL

(* A provider reference, once known, is never replaced, by callback or by    *)
(* the Outbox's own answer.                                                  *)
THEOREM ReferenceSafety == Spec => ReferenceKept
<1> DEFINE Keeps == \A o \in Operations : reference[o] # "none" => reference'[o] = reference[o]
<1>1. InboxInv /\ [Next]_vars => [Keeps]_vars
  <2> SUFFICES ASSUME InboxInv, [Next]_vars, NEW o \in Operations, reference[o] # "none"
               PROVE  reference'[o] = reference[o]
    OBVIOUS
  <2>1. StepGood
    BY EveryStepGood
  <2>2. CASE Outside
    BY <2>2, OutsideKeeps, Zenon DEF InboxInv, DecidedFirst
  <2>3. NoEffect \/ (\E e \in Events : Updated(e)) => reference' = reference
    BY Zenon DEF NoEffect, Updated
  <2>4. ASSUME NEW p \in Operations, NEW x \in References \cup {"none"}, ReferenceSet(p, x)
        PROVE  reference'[o] = reference[o]
    BY <2>4, InboxFacts DEF ReferenceSet
  <2>5. ASSUME NEW e \in Events, NEW p \in Operations,
               Settled(e, p) \/ \E s \in OperationRecordStatus : Applied(e, p, s)
        PROVE  \E x \in References \cup {"none"} : ReferenceSet(p, x)
    BY <2>5, Zenon DEF Applied, Settled
  <2> QED
    BY <2>1, <2>2, <2>3, <2>4, <2>5, Zenon DEF StepGood, Effect
<1> QED
  BY <1>1, InboxInvariance, PTL DEF Spec, ReferenceKept

(* A processed callback is never touched again, and a failed one only by an  *)
(* audited redrive (_lock_inbox, redrive_inbox).                             *)
THEOREM SettledSafety == Spec => SettledIsFinal
<1> DEFINE Final(e) ==
       /\ inbox[e].status = "processed" =>
            inbox'[e] = inbox[e] /\ attempts'[e] = attempts[e]
       /\ inbox[e].status = "failed" =>
            \/ inbox'[e] = inbox[e] /\ attempts'[e] = attempts[e]
            \/ /\ inbox'[e].processing_cycle = inbox[e].processing_cycle + 1
               /\ \E a \in redrives' \ redrives : a.inbox_id = e
<1>1. InboxInv /\ [Next]_vars => \A e \in Events : Final(e)
  <2> SUFFICES ASSUME InboxInv, [Next]_vars, NEW e \in Events PROVE Final(e)
    OBVIOUS
  <2>1. StepGood /\ RowStep(e)
    BY EveryStepGood DEF StepGood, RowsGood
  <2>2. inbox[e].status = "processed" => inbox'[e] = inbox[e] /\ attempts'[e] = attempts[e]
    BY <2>1, ProcessedKept
  <2>3. ASSUME NEW r \in Requests, Redriven(e, r)
        PROVE  /\ inbox'[e].processing_cycle = inbox[e].processing_cycle + 1
               /\ \E a \in redrives' \ redrives : a.inbox_id = e
    <3>1. inbox'[e].processing_cycle = inbox[e].processing_cycle + 1
      BY <2>3, InboxFacts DEF Redriven, Row
    <3> DEFINE a == [request_id |-> r, inbox_id |-> e,
                     new_cycle |-> inbox[e].processing_cycle + 1]
    <3>2. a \in redrives' /\ a \notin redrives /\ a.inbox_id = e
      BY <2>3 DEF Redriven, RequestUnused
    <3> QED
      BY <3>1, <3>2
  <2>4. ASSUME inbox[e].status = "failed"
        PROVE  Kept(e) \/ \E r \in Requests : Redriven(e, r)
    <3>1. ~\E b \in Bodies : Stored(e, b)
      BY <2>4 DEF Stored
    <3>2. ~\E w \in Workers : Taken(e, w)
      BY <2>4 DEF Taken
    <3>3. ~\E ttl \in Nat, due \in BOOLEAN : Timed(e, ttl, due)
      BY <2>4 DEF Timed
    <3>4. ~\E target \in {"received", "processed", "failed"}, due \in BOOLEAN,
              outcome \in Outcomes : Closed(e, target, due, outcome)
      BY <2>4 DEF Closed
    <3> QED
      BY <2>1, <3>1, <3>2, <3>3, <3>4, Zenon DEF RowStep
  <2> QED
    BY <2>2, <2>3, <2>4, Zenon DEF Kept
<1> HIDE DEF Final
<1>2. InboxInv /\ [Next]_vars => [\A e \in Events : Final(e)]_vars
  BY <1>1
<1>3. Spec => [][\A e \in Events : Final(e)]_vars
  BY <1>2, InboxInvariance, PTL DEF Spec
<1> QED
  BY <1>3 DEF SettledIsFinal, Final

(* The Inbox, with the Outbox and the customer around it, implements the     *)
(* lifecycle of commands: a callback only moves an accepted operation on.    *)
THEOREM InboxRefines == Spec => Lifecycle
<1>1. Init => LifecycleInit
  BY DEF Init
<1>2. InboxInv /\ [Next]_vars => [LifecycleNext]_lifecycle
  BY EveryStepGood, StepLifecycle
<1> QED
  BY <1>1, <1>2, InboxInvariance, PTL DEF Spec, Lifecycle
=============================================================================

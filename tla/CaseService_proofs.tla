------------------------- MODULE CaseService_proofs -------------------------
(* Writers that race over support cases: the row of a case is the sum of its *)
(* events, a handoff is recorded once, an investigation is sent once, and an *)
(* agent changes only cases assigned to them, for any number of calls of any *)
(* kind, of finalizations, callbacks and redrives, of cases and of agents.   *)
EXTENDS CaseService, FiniteSetTheorems, TLAPS

Keys ==
  UNION {{"message"} \X Threads \X Messages,
         {"failure", "accepted", "rejected", "webhook", "redrive"} \X Calls,
         {"status", "assign"} \X CaseIds \X RequestIds}

Event ==
  [key : Keys, message : Messages \cup {None}, reasons : SUBSET HandoffReason,
   priority : (0 .. 3) \cup {None}, risk : Nat, status : CaseStatus \cup {None},
   agent : Agents \cup {None}, by : Agents \cup {None}, connected : BOOLEAN]

Waiting == {"lookup", "create", "append", "check", "read", "write"}
Answers ==
  {"created", "event_appended", "duplicate_ignored", "reused", "not_found", "status_changed",
   "status_unchanged", "invalid_transition", "active_case_conflict", "assigned",
   "target_unavailable", "concurrent_update", "finalized", "redriven"}
Places == Waiting \cup Answers \cup {"idle", "again"}

Call ==
  [pc : Places, attempt : Nat, case : CaseIds \cup {None}, row : SupportCase \cup {None}]

CaseTypeOK ==
  /\ request \in [Calls -> Requests]
  /\ cases \in [CaseIds -> SupportCase \cup {None}]
  /\ history \in [CaseIds -> Seq(Event)]
  /\ commands \in [CaseIds -> Nat]
  /\ calls \in [Calls -> Call]

-----------------------------------------------------------------------------
(* The inductive invariant. *)

(* Least and greatest, without choosing. *)
Lowest(p, S) == p \in S /\ \A x \in S : p <= x
Highest(p, S) == p \in S /\ \A x \in S : x <= p

Priorities(h) == {h[i].priority : i \in {j \in DOMAIN h : h[j].priority # None}}
Risks(h) == {h[i].risk : i \in DOMAIN h}
Reasons(h) == UNION {Added(h[i]) : i \in DOMAIN h}
Changes(h) == {i \in DOMAIN h : ChangedRow(h, i)}

(* A row is what its events add up to. *)
Sums(row, h) ==
  /\ row.version = Cardinality(Changes(h))
  /\ row.reasons = Reasons(h)
  /\ Lowest(row.priority, Priorities(h)) /\ Highest(row.risk, Risks(h))
  /\ StatusAfter(h, Len(h), row.status) /\ AgentAfter(h, Len(h), row.agent)
  /\ row.case_type = "order_operation_review" => row.priority # 0

(* The triggers of a case carry the key of their message. *)
Keyed(row, h) ==
  \A i \in DOMAIN h :
    h[i].key[1] = "message" => h[i].key = <<"message", row.thread, h[i].message>>

Acted(h) == \A i \in DOMAIN h : h[i].by # None => AgentAfter(h, i - 1, h[i].by)

Sent(n, h) == n = IF \E i \in DOMAIN h : h[i].connected THEN 1 ELSE 0

CaseInv(k) ==
  /\ IF cases[k] = None THEN history[k] = <<>>
     ELSE Sums(cases[k], history[k]) /\ Keyed(cases[k], history[k])
  /\ Acted(history[k]) /\ Sent(commands[k], history[k])

KeysUnique ==
  \A k, l \in CaseIds : \A i \in DOMAIN history[k], j \in DOMAIN history[l] :
    history[k][i].key[1] = "message" /\ history[k][i].key = history[l][j].key => k = l /\ i = j

(* A version that is still the one a call has read vouches for the row. *)
Fresh(c) ==
  /\ calls[c].case \in Stored /\ calls[c].row \in SupportCase
  /\ calls[c].row.version <= cases[calls[c].case].version
  /\ calls[c].row.version = cases[calls[c].case].version =>
       calls[c].row = cases[calls[c].case]

Recorded(c) == \E k \in Stored : \E i \in DOMAIN history[k] : OfMessage(c, k, i)

CallInv(c) ==
  /\ calls[c].pc \in {"lookup", "create", "append"} => Kind(c) = "handoff"
  /\ calls[c].pc = "append" => /\ Fresh(c) /\ calls[c].row.thread = request[c].thread
                               /\ calls[c].row.case_type = request[c].case_type
  /\ calls[c].pc = "check" => Kind(c) = "assign"
  /\ calls[c].pc \in {"check", "read"} => calls[c].case \in Stored
  /\ calls[c].pc = "write" => Fresh(c)
  /\ Kind(c) = "handoff" /\ calls[c].pc \in {"created", "event_appended", "duplicate_ignored"} =>
       Recorded(c)

CasesInv ==
  /\ CaseTypeOK /\ KeysUnique
  /\ \A c \in Calls :
       Kind(c) = "handoff" /\ request[c].case_type = "order_operation_review" =>
         request[c].priority # 0
  /\ \A k \in CaseIds : CaseInv(k)
  /\ \A c \in Calls : CallInv(c)

-----------------------------------------------------------------------------
(* One event more. *)

LEMMA Appended ==
  ASSUME NEW h \in Seq(Event), NEW e \in Event, NEW g, g = Append(h, e)
  PROVE  /\ g \in Seq(Event) /\ Len(h) \in Nat /\ Len(g) = Len(h) + 1
         /\ DOMAIN h = 1 .. Len(h) /\ DOMAIN g = 1 .. Len(h) + 1
         /\ \A i \in 1 .. Len(h) : g[i] = h[i] /\ i # Len(h) + 1
         /\ g[Len(h) + 1] = e
         /\ \A i \in DOMAIN h : h[i] \in Event
         /\ \A i \in DOMAIN g : i \in DOMAIN h \/ i = Len(h) + 1
OBVIOUS

Mark == <<"provider_delivery_failed">>
Versioned == {"message", "failure", "status", "assign"}

(* Whether an event changes a row, what it adds, and the row of a first one. *)
Changing(row, e) == e.key[1] \in Versioned \/ (e.key[1] = "rejected" /\ Mark \notin row.reasons)

Adds(row, e, new) ==
  /\ IF Changing(row, e) THEN new.version = row.version + 1 ELSE new = row
  /\ new.thread = row.thread /\ new.case_type = row.case_type
  /\ new.reasons = row.reasons \cup Added(e)
  /\ Lowest(new.priority, {row.priority, e.priority} \ {None})
  /\ Highest(new.risk, {row.risk, e.risk})
  /\ new.status = IF e.status = None THEN row.status ELSE e.status
  /\ new.agent = IF e.agent = None THEN row.agent ELSE e.agent
  /\ new.case_type = "order_operation_review" => new.priority # 0

Opens(e, new) ==
  /\ e.key[1] \in Versioned /\ new.version = 1 /\ new.reasons = e.reasons
  /\ new.priority = e.priority
  /\ e.priority # None /\ new.risk = e.risk
  /\ new.status = e.status /\ e.status # None /\ new.agent = None /\ e.agent = None
  /\ new.case_type = "order_operation_review" => new.priority # 0

LEMMA StatusAppended ==
  ASSUME NEW h \in Seq(Event), NEW e \in Event, NEW g, g = Append(h, e), NEW s,
         StatusAfter(h, Len(h), s)
  PROVE  StatusAfter(g, Len(g), IF e.status = None THEN s ELSE e.status)
<1> DEFINE n == Len(h)
<1>1. /\ n \in Nat /\ Len(g) = n + 1 /\ g[n + 1] = e /\ \A i \in 1 .. n : g[i] = h[i]
  BY Appended
<1>2. CASE e.status # None
  <2>1. n + 1 \in 1 .. n + 1 /\ (n + 1) + 1 .. n + 1 = {}
    BY <1>1
  <2> QED
    BY <1>1, <1>2, <2>1 DEF StatusAfter
<1>3. CASE e.status = None
  <2>1. PICK i \in 1 .. n : h[i].status = s /\ s # None /\ \A j \in i + 1 .. n : h[j].status = None
    BY DEF StatusAfter
  <2>2. i \in 1 .. n + 1 /\ \A j \in i + 1 .. n + 1 : j = n + 1 \/ (j \in i + 1 .. n /\ j \in 1 .. n)
    BY <1>1
  <2>3. \A j \in i + 1 .. n + 1 : g[j].status = None
    BY <1>1, <1>3, <2>1, <2>2
  <2>4. g[i].status = s
    BY <1>1, <2>1
  <2> QED
    BY <1>1, <1>3, <2>1, <2>2, <2>3, <2>4 DEF StatusAfter
<1> QED
  BY <1>2, <1>3

LEMMA AgentAppended ==
  ASSUME NEW h \in Seq(Event), NEW e \in Event, NEW g, g = Append(h, e), NEW a,
         AgentAfter(h, Len(h), a)
  PROVE  AgentAfter(g, Len(g), IF e.agent = None THEN a ELSE e.agent)
<1> DEFINE n == Len(h)
<1>1. /\ n \in Nat /\ Len(g) = n + 1 /\ g[n + 1] = e /\ \A i \in 1 .. n : g[i] = h[i]
  BY Appended
<1>2. CASE e.agent # None
  <2>1. n + 1 \in 1 .. n + 1 /\ (n + 1) + 1 .. n + 1 = {}
    BY <1>1
  <2> QED
    BY <1>1, <1>2, <2>1 DEF AgentAfter
<1>3. CASE e.agent = None /\ a = None /\ \A i \in 1 .. n : h[i].agent = None
  <2>1. \A i \in 1 .. n + 1 : i = n + 1 \/ i \in 1 .. n
    BY <1>1
  <2>2. \A i \in 1 .. n + 1 : g[i].agent = None
    BY <1>1, <1>3, <2>1
  <2> QED
    BY <1>1, <1>3, <2>2 DEF AgentAfter
<1>4. ASSUME e.agent = None, NEW i \in 1 .. n, h[i].agent = a, a # None,
             \A j \in i + 1 .. n : h[j].agent = None
      PROVE  AgentAfter(g, n + 1, a)
  <2>1. i \in 1 .. n + 1 /\ \A j \in i + 1 .. n + 1 : j = n + 1 \/ (j \in i + 1 .. n /\ j \in 1 .. n)
    BY <1>1
  <2>2. \A j \in i + 1 .. n + 1 : g[j].agent = None
    BY <1>1, <1>4, <2>1
  <2>3. g[i].agent = a
    BY <1>1, <1>4
  <2> QED
    BY <1>4, <2>1, <2>2, <2>3 DEF AgentAfter
<1> QED
  BY <1>1, <1>2, <1>3, <1>4 DEF AgentAfter

(* A prefix of the history tells the same after more events. *)
LEMMA AgentPrefix ==
  ASSUME NEW h \in Seq(Event), NEW e \in Event, NEW g, g = Append(h, e),
         NEW n \in 0 .. Len(h), NEW a, AgentAfter(h, n, a)
  PROVE  AgentAfter(g, n, a)
<1>1. \A i \in 1 .. n : g[i] = h[i]
  BY Appended
<1>2. \A i \in 1 .. n : \A j \in i + 1 .. n : j \in 1 .. n
  OBVIOUS
<1>3. \A i \in 1 .. n : \A j \in i + 1 .. n : g[j] = h[j]
  BY <1>1, <1>2
<1> QED
  BY <1>1, <1>3 DEF AgentAfter

LEMMA ActedAppended ==
  ASSUME NEW h \in Seq(Event), NEW e \in Event, NEW g, g = Append(h, e), Acted(h),
         e.by # None => AgentAfter(h, Len(h), e.by)
  PROVE  Acted(g)
<1> SUFFICES ASSUME NEW i \in DOMAIN g, g[i].by # None PROVE AgentAfter(g, i - 1, g[i].by)
  BY DEF Acted
<1>1. CASE i \in DOMAIN h
  <2>1. g[i] = h[i] /\ i - 1 \in 0 .. Len(h)
    BY <1>1, Appended
  <2> QED
    BY <1>1, <2>1, AgentPrefix, Zenon DEF Acted
<1>2. CASE i = Len(h) + 1
  <2>1. g[i] = e /\ i - 1 = Len(h) /\ Len(h) \in 0 .. Len(h)
    BY <1>2, Appended
  <2>2. AgentAfter(h, Len(h), e.by)
    BY <2>1
  <2>3. AgentAfter(g, Len(h), e.by)
    BY <2>1, <2>2, AgentPrefix, Zenon
  <2> QED
    BY <2>1, <2>3
<1> QED
  BY <1>1, <1>2, Appended

(* Sets of what the events say, with one more. *)
LEMMA SetsAppended ==
  ASSUME NEW h \in Seq(Event), NEW e \in Event, NEW g, g = Append(h, e)
  PROVE  /\ Reasons(g) = Reasons(h) \cup Added(e)
         /\ Risks(g) = Risks(h) \cup {e.risk}
         /\ Priorities(g) = Priorities(h) \cup ({e.priority} \ {None})
         /\ (\E i \in DOMAIN g : g[i].connected) <=> (\E i \in DOMAIN h : h[i].connected) \/ e.connected
<1> DEFINE n == Len(h) + 1
<1>1. /\ \A i \in DOMAIN h : i \in DOMAIN g /\ g[i] = h[i]
      /\ n \in DOMAIN g /\ g[n] = e
      /\ \A i \in DOMAIN g : i \in DOMAIN h \/ i = n
  BY Appended
<1> HIDE DEF n
<1>2. Reasons(g) = Reasons(h) \cup Added(e)
  <2>1. ASSUME NEW x
        PROVE  (\E i \in DOMAIN g : x \in Added(g[i]))
                 <=> (\E i \in DOMAIN h : x \in Added(h[i])) \/ x \in Added(e)
    BY <1>1
  <2>2. ASSUME NEW x
        PROVE  /\ x \in Reasons(g) <=> \E i \in DOMAIN g : x \in Added(g[i])
               /\ x \in Reasons(h) <=> \E i \in DOMAIN h : x \in Added(h[i])
    BY DEF Reasons
  <2> QED
    BY <2>1, <2>2
<1>3. Risks(g) = Risks(h) \cup {e.risk}
  BY <1>1 DEF Risks
<1>4. Priorities(g) = Priorities(h) \cup ({e.priority} \ {None})
  BY <1>1 DEF Priorities
<1>5. (\E i \in DOMAIN g : g[i].connected) <=> (\E i \in DOMAIN h : h[i].connected) \/ e.connected
  BY <1>1
<1> QED
  BY <1>2, <1>3, <1>4, <1>5

(* The events that changed the row, with one more. *)
LEMMA ChangesAppended ==
  ASSUME NEW h \in Seq(Event), NEW e \in Event, NEW g, g = Append(h, e),
         NEW row, row.reasons = Reasons(h)
  PROVE  /\ Cardinality(Changes(h)) \in Nat
         /\ Cardinality(Changes(g)) = IF Changing(row, e) THEN Cardinality(Changes(h)) + 1
                                      ELSE Cardinality(Changes(h))
<1> DEFINE n == Len(h) + 1
           C == Changes(h)
<1>1. /\ n \in Nat /\ DOMAIN h = 1 .. n - 1 /\ DOMAIN g = 1 .. n /\ n \notin DOMAIN h
      /\ \A i \in DOMAIN h : g[i] = h[i]
      /\ g[n] = e
      /\ \A i \in DOMAIN g : i \in DOMAIN h \/ i = n
      /\ \A i \in DOMAIN h : i \in DOMAIN g
      /\ n \in DOMAIN g
  BY Appended
<1>2. \A i \in DOMAIN h : \A j \in 1 .. i - 1 : j \in DOMAIN h
  BY <1>1
<1> HIDE DEF n
<1>3. \A i \in DOMAIN h : ChangedRow(g, i) <=> ChangedRow(h, i)
  <2> SUFFICES ASSUME NEW i \in DOMAIN h PROVE ChangedRow(g, i) <=> ChangedRow(h, i)
    OBVIOUS
  <2>1. g[i] = h[i] /\ \A j \in 1 .. i - 1 : g[j] = h[j]
    BY <1>1, <1>2
  <2> QED
    BY <2>1 DEF ChangedRow
<1>4. ChangedRow(g, n) <=> Changing(row, e)
  <2>1. Mark \in row.reasons <=> \E j \in DOMAIN h : Mark \in Added(h[j])
    BY DEF Reasons
  <2>2. (\A j \in 1 .. n - 1 : Mark \notin Added(g[j])) <=> Mark \notin row.reasons
    BY <1>1, <2>1
  <2> QED
    BY <1>1, <2>2 DEF ChangedRow, Changing, Mark, Versioned
<1>5. Changes(g) = IF Changing(row, e) THEN C \cup {n} ELSE C
  BY <1>1, <1>3, <1>4 DEF Changes
<1>6. IsFiniteSet(C) /\ n \notin C
  <2>1. IsFiniteSet(DOMAIN h)
    BY <1>1, FS_Interval DEF n
  <2>2. C \subseteq DOMAIN h
    BY DEF Changes
  <2> QED
    BY <1>1, <2>1, <2>2, FS_Subset
<1> HIDE DEF C
<1>7. Cardinality(C) \in Nat /\ Cardinality(C \cup {n}) = Cardinality(C) + 1
  BY <1>6, FS_CardinalityType, FS_AddElement
<1> QED
  BY <1>5, <1>7 DEF C

LEMMA SumsAppended ==
  ASSUME NEW h \in Seq(Event), NEW e \in Event, NEW g, g = Append(h, e),
         NEW row \in SupportCase, NEW new \in SupportCase, Sums(row, h), Adds(row, e, new)
  PROVE  Sums(new, g)
<1>1. new.version = Cardinality(Changes(g))
  <2>1. row.version = Cardinality(Changes(h)) /\ row.reasons = Reasons(h)
    BY DEF Sums
  <2>2. Cardinality(Changes(g)) = IF Changing(row, e) THEN row.version + 1 ELSE row.version
    BY <2>1, ChangesAppended, Zenon
  <2> QED
    BY <2>2 DEF Adds
<1>2. new.reasons = Reasons(g)
  <2>1. row.reasons = Reasons(h) /\ new.reasons = row.reasons \cup Added(e)
    BY DEF Sums, Adds
  <2>2. Reasons(g) = Reasons(h) \cup Added(e)
    BY SetsAppended, Zenon
  <2> QED
    BY <2>1, <2>2
<1>3. Lowest(new.priority, Priorities(g))
  <2> DEFINE P == Priorities(h)
             Q == Priorities(g)
  <2>1. /\ Lowest(row.priority, P) /\ Lowest(new.priority, {row.priority, e.priority} \ {None})
        /\ Q = P \cup ({e.priority} \ {None})
    BY SetsAppended, Zenon DEF Sums, Adds
  <2>2. /\ row.priority \in 0 .. 3 /\ new.priority \in 0 .. 3
        /\ e.priority # None => e.priority \in 0 .. 3
        /\ row.priority # None /\ \A x \in P : x \in 0 .. 3
    <3>1. /\ row.priority \in 0 .. 3 /\ new.priority \in 0 .. 3 /\ None \notin Nat
          /\ e.priority # None => e.priority \in 0 .. 3
      BY CaseAssumption DEF SupportCase, Event
    <3>2. \A i \in DOMAIN h : h[i].priority \in (0 .. 3) \cup {None}
      BY Appended, Zenon DEF Event
    <3>3. \A x \in P : x \in 0 .. 3
      BY <3>2 DEF Priorities
    <3> QED
      BY <3>1, <3>3
  <2> HIDE DEF P, Q
  <2>3. /\ new.priority \in Q /\ new.priority <= row.priority
        /\ e.priority # None => new.priority <= e.priority
    BY <2>1, <2>2 DEF Lowest
  <2>4. \A x \in P : new.priority <= x
    BY <2>1, <2>2, <2>3 DEF Lowest
  <2>5. Lowest(new.priority, Q)
    BY <2>1, <2>3, <2>4 DEF Lowest
  <2> QED
    BY <2>5 DEF Q
<1>4. Highest(new.risk, Risks(g))
  <2> DEFINE R == Risks(h)
             Q == Risks(g)
  <2>1. /\ Highest(row.risk, R) /\ Highest(new.risk, {row.risk, e.risk}) /\ Q = R \cup {e.risk}
    BY SetsAppended, Zenon DEF Sums, Adds
  <2>2. /\ row.risk \in Nat /\ new.risk \in Nat /\ e.risk \in Nat /\ \A x \in R : x \in Nat
    <3>1. row.risk \in Nat /\ new.risk \in Nat /\ e.risk \in Nat
      BY DEF SupportCase, Event
    <3>2. \A i \in DOMAIN h : h[i].risk \in Nat
      BY Appended, Zenon DEF Event
    <3> QED
      BY <3>1, <3>2 DEF Risks
  <2> HIDE DEF R, Q
  <2>3. new.risk \in Q /\ row.risk <= new.risk /\ e.risk <= new.risk
    BY <2>1 DEF Highest
  <2>4. \A x \in R : x <= new.risk
    BY <2>1, <2>2, <2>3 DEF Highest
  <2>5. Highest(new.risk, Q)
    BY <2>1, <2>3, <2>4 DEF Highest
  <2> QED
    BY <2>5 DEF Q
<1>5. StatusAfter(g, Len(g), new.status)
  <2>1. StatusAfter(h, Len(h), row.status) /\ new.status = IF e.status = None THEN row.status ELSE e.status
    BY DEF Sums, Adds
  <2> QED
    BY <2>1, StatusAppended, Zenon
<1>6. AgentAfter(g, Len(g), new.agent)
  <2>1. AgentAfter(h, Len(h), row.agent) /\ new.agent = IF e.agent = None THEN row.agent ELSE e.agent
    BY DEF Sums, Adds
  <2> QED
    BY <2>1, AgentAppended, Zenon
<1> QED
  BY <1>1, <1>2, <1>3, <1>4, <1>5, <1>6 DEF Sums, Adds

LEMMA SumsOpened ==
  ASSUME NEW e \in Event, NEW g, g = Append(<<>>, e), NEW new \in SupportCase, Opens(e, new)
  PROVE  Sums(new, g)
<1>1. Len(g) = 1 /\ DOMAIN g = {1} /\ g[1] = e
  OBVIOUS
<1>2. Reasons(g) = e.reasons /\ Cardinality(Changes(g)) = 1
  <2>1. e.key[1] \in Versioned /\ e.key[1] # "rejected"
    BY DEF Opens, Versioned
  <2>2. Added(e) = e.reasons /\ Changes(g) = {1}
    BY <1>1, <2>1 DEF Added, Changes, ChangedRow, Versioned
  <2>3. Cardinality({1}) = 1
    BY FS_Singleton
  <2> QED
    BY <1>1, <2>2, <2>3 DEF Reasons
<1>3. Priorities(g) = {e.priority} /\ Risks(g) = {e.risk}
  BY <1>1 DEF Priorities, Risks, Opens
<1>4. e.priority \in 0 .. 3 /\ e.risk \in Nat
  BY DEF Opens, Event
<1>5. Lowest(e.priority, {e.priority}) /\ Highest(e.risk, {e.risk})
  BY <1>4 DEF Lowest, Highest
<1>6. 1 \in 1 .. 1 /\ 1 + 1 .. 1 = {} /\ \A i \in 1 .. 1 : i = 1
  OBVIOUS
<1>7. StatusAfter(g, 1, e.status) /\ AgentAfter(g, 1, None)
  BY <1>1, <1>6 DEF StatusAfter, AgentAfter, Opens
<1> QED
  BY <1>1, <1>2, <1>3, <1>5, <1>7 DEF Sums, Opens

LEMMA KeyedAppended ==
  ASSUME NEW h \in Seq(Event), NEW e \in Event, NEW g, g = Append(h, e), NEW row, NEW new,
         h # <<>> => Keyed(row, h) /\ new.thread = row.thread,
         e.key[1] = "message" => e.key = <<"message", new.thread, e.message>>
  PROVE  Keyed(new, g)
<1>1. \A i \in DOMAIN g : (i \in DOMAIN h /\ g[i] = h[i]) \/ g[i] = e
  BY Appended
<1>2. h = <<>> => DOMAIN h = {}
  OBVIOUS
<1> QED
  BY <1>1, <1>2 DEF Keyed

LEMMA SentAppended ==
  ASSUME NEW h \in Seq(Event), NEW e \in Event, NEW g, g = Append(h, e), NEW n, Sent(n, h)
  PROVE  Sent(IF e.connected /\ n = 0 THEN n + 1 ELSE n, g)
<1>1. e.connected \in BOOLEAN
  BY DEF Event
<1>2. (\E i \in DOMAIN g : g[i].connected) <=> (\E i \in DOMAIN h : h[i].connected) \/ e.connected
  BY SetsAppended
<1>3. CASE \E i \in DOMAIN h : h[i].connected
  BY <1>2, <1>3 DEF Sent
<1>4. CASE ~\E i \in DOMAIN h : h[i].connected
  BY <1>1, <1>2, <1>4 DEF Sent
<1> QED
  BY <1>3, <1>4

-----------------------------------------------------------------------------
(* One transaction. *)

LEMMA UsedKeys ==
  ASSUME NEW key
  PROVE  KeyUsed(key) <=> \E l \in CaseIds : \E j \in DOMAIN history[l] : history[l][j].key = key
<1>1. ASSUME NEW e
      PROVE  e \in Events <=> \E l \in CaseIds : e \in Range(history[l])
  BY DEF Events
<1>2. ASSUME NEW e, NEW l
      PROVE  e \in Range(history[l]) <=> \E j \in DOMAIN history[l] : e = history[l][j]
  BY DEF Range
<1>3. ASSUME NEW e
      PROVE  e \in Events <=> \E l \in CaseIds : \E j \in DOMAIN history[l] : e = history[l][j]
  BY <1>1, <1>2, Zenon
<1>4. ASSUME NEW e \in Events, e.key = key
      PROVE  \E l \in CaseIds : \E j \in DOMAIN history[l] : history[l][j].key = key
  BY <1>3, <1>4
<1>5. ASSUME NEW l \in CaseIds, NEW j \in DOMAIN history[l], history[l][j].key = key
      PROVE  \E e \in Events : e.key = key
  <2>1. history[l][j] \in Events
    BY <1>3
  <2> QED
    BY <1>5, <2>1
<1> QED
  BY <1>4, <1>5 DEF KeyUsed

(* What a write may do: open a case, or add an event to the row as it is; an  *)
(* agent's event is on a case of theirs; a trigger is keyed by its message,   *)
(* and new; a command goes with the first event that had a connection.        *)
Writes(c, k, row, e, command) ==
  /\ IF cases[k] = None THEN Opens(e, row) ELSE Adds(cases[k], e, row)
  /\ e.by # None => cases[k] # None /\ cases[k].agent = e.by
  /\ e.key[1] = "message" => e.key = <<"message", row.thread, e.message>> /\ ~KeyUsed(e.key)
  /\ command <=> e.connected /\ commands[k] = 0
  /\ Kind(c) = "handoff" => row.thread = request[c].thread /\ e.message = request[c].message

(* The row and its event, and what becomes of the command. *)
Commits(c, k, row, e, command, action) ==
  /\ Record(c, k, row, e, action)
  /\ commands' = IF command THEN [commands EXCEPT ![k] = commands[k] + 1] ELSE commands

LEMMA PlaceFacts ==
  /\ \A a \in Answers : a \in Places /\ a \notin Waiting
  /\ "lookup" \in Places /\ "create" \in Places /\ "append" \in Places /\ "check" \in Places
  /\ "read" \in Places /\ "write" \in Places /\ "idle" \in Places /\ "again" \in Places
BY DEF Places, Answers, Waiting

LEMMA WriteKeepsCase ==
  ASSUME CasesInv, NEW c \in Calls, NEW k \in CaseIds, NEW row \in SupportCase,
         NEW e \in Event, NEW command \in BOOLEAN, NEW action \in Answers,
         Commits(c, k, row, e, command, action), Writes(c, k, row, e, command),
         NEW l \in CaseIds
  PROVE  CaseInv(l)'
<1> DEFINE h == history[k]
           g == Append(h, e)
<1>1. /\ cases' = [cases EXCEPT ![k] = row] /\ history' = [history EXCEPT ![k] = g]
      /\ commands' = IF command THEN [commands EXCEPT ![k] = commands[k] + 1] ELSE commands
  BY DEF Commits, Record
<1>2. /\ cases \in [CaseIds -> SupportCase \cup {None}] /\ history \in [CaseIds -> Seq(Event)]
      /\ commands \in [CaseIds -> Nat]
  BY DEF CasesInv, CaseTypeOK
<1>3. CASE l # k
  <2>1. cases'[l] = cases[l] /\ history'[l] = history[l] /\ commands'[l] = commands[l]
    BY <1>1, <1>2, <1>3
  <2>2. CaseInv(l)
    BY DEF CasesInv
  <2> QED
    BY <2>1, <2>2 DEF CaseInv
<1>4. CASE l = k
  <2>1. /\ cases'[k] = row /\ history'[k] = g
        /\ commands'[k] = IF e.connected /\ commands[k] = 0 THEN commands[k] + 1 ELSE commands[k]
    BY <1>1, <1>2 DEF Writes
  <2>2. h \in Seq(Event) /\ row # None /\ CaseInv(k)
    BY <1>2, CaseAssumption DEF CasesInv
  <2> HIDE DEF g, h
  <2>3. g = Append(h, e) /\ h = history[k]
    BY DEF g, h
  <2>4. Sent(commands'[k], g)
    <3>1. Sent(commands[k], h)
      BY <2>2, <2>3 DEF CaseInv
    <3>2. Sent(IF e.connected /\ commands[k] = 0 THEN commands[k] + 1 ELSE commands[k], g)
      BY <2>2, <2>3, <3>1, SentAppended, Zenon
    <3> QED
      BY <2>1, <3>2
  <2>5. CASE cases[k] = None
    <3>1. h = <<>> /\ Opens(e, row) /\ e.by = None /\ Acted(h)
      BY <2>2, <2>3, <2>5 DEF CaseInv, Writes
    <3>2. Sums(row, g)
      BY <2>3, <3>1, SumsOpened
    <3>3. Keyed(row, g)
      BY <2>2, <2>3, <3>1, KeyedAppended, Zenon DEF Writes
    <3>4. Acted(g)
      BY <2>2, <2>3, <3>1, ActedAppended, Zenon
    <3> QED
      BY <1>4, <2>1, <2>2, <2>4, <3>2, <3>3, <3>4 DEF CaseInv
  <2>6. CASE cases[k] # None
    <3>1. /\ Sums(cases[k], h) /\ Keyed(cases[k], h) /\ Acted(h) /\ Adds(cases[k], e, row)
          /\ cases[k] \in SupportCase
          /\ e.by # None => cases[k].agent = e.by
      BY <1>2, <2>2, <2>3, <2>6 DEF CaseInv, Writes
    <3>2. Sums(row, g)
      BY <2>2, <2>3, <3>1, SumsAppended, Zenon
    <3>3. Keyed(row, g)
      <4>1. row.thread = cases[k].thread
        BY <3>1 DEF Adds
      <4> QED
        BY <2>2, <2>3, <3>1, <4>1, KeyedAppended, Zenon DEF Writes
    <3>4. Acted(g)
      <4>1. AgentAfter(h, Len(h), cases[k].agent)
        BY <3>1 DEF Sums
      <4> QED
        BY <2>2, <2>3, <3>1, <4>1, ActedAppended, Zenon
    <3> QED
      BY <1>4, <2>1, <2>2, <2>4, <3>2, <3>3, <3>4 DEF CaseInv
  <2> QED
    BY <2>5, <2>6
<1> QED
  BY <1>3, <1>4

LEMMA WriteKeepsKeys ==
  ASSUME CasesInv, NEW c \in Calls, NEW k \in CaseIds, NEW row \in SupportCase,
         NEW e \in Event, NEW command \in BOOLEAN, NEW action \in Answers,
         Commits(c, k, row, e, command, action), Writes(c, k, row, e, command)
  PROVE  KeysUnique'
<1> DEFINE n == Len(history[k]) + 1
           New(l, i) == l = k /\ i = n
<1>1. history' = [history EXCEPT ![k] = Append(history[k], e)]
  BY DEF Commits, Record
<1>2. history \in [CaseIds -> Seq(Event)] /\ history[k] \in Seq(Event)
  BY DEF CasesInv, CaseTypeOK
<1>3. ASSUME NEW l \in CaseIds, NEW i \in DOMAIN history'[l]
      PROVE  \/ New(l, i) /\ history'[l][i] = e
             \/ i \in DOMAIN history[l] /\ history'[l][i] = history[l][i]
  <2>1. CASE l = k
    <3>1. history'[k] = Append(history[k], e)
      BY <1>1, <1>2
    <3> QED
      BY <1>2, <2>1, <3>1, Appended
  <2>2. CASE l # k
    <3>1. history'[l] = history[l]
      BY <1>1, <1>2, <2>2
    <3> QED
      BY <3>1
  <2> QED
    BY <2>1, <2>2
<1> HIDE DEF n
<1>4. e.key[1] = "message" =>
        \A l \in CaseIds : \A j \in DOMAIN history[l] : history[l][j].key # e.key
  BY UsedKeys DEF Writes
<1> SUFFICES ASSUME NEW a \in CaseIds, NEW b \in CaseIds, NEW i \in DOMAIN history'[a],
                    NEW j \in DOMAIN history'[b], history'[a][i].key[1] = "message",
                    history'[a][i].key = history'[b][j].key
             PROVE  a = b /\ i = j
  BY DEF KeysUnique
<1>5. CASE New(a, i) /\ history'[a][i] = e
  <2>1. New(b, j)
    BY <1>3, <1>4, <1>5
  <2> QED
    BY <1>5, <2>1
<1>6. CASE i \in DOMAIN history[a] /\ history'[a][i] = history[a][i]
  <2>1. j \in DOMAIN history[b] /\ history'[b][j] = history[b][j]
    BY <1>3, <1>4, <1>6
  <2> QED
    BY <1>6, <2>1 DEF CasesInv, KeysUnique
<1> QED
  BY <1>3, <1>5, <1>6

(* What others have read or found stays behind, and is never rewritten. *)
Grows ==
  \A l \in Stored :
    /\ l \in Stored' /\ cases'[l].thread = cases[l].thread
    /\ \/ cases'[l] = cases[l]
       \/ /\ cases[l].version \in Nat /\ cases'[l].version \in Nat
          /\ cases[l].version < cases'[l].version
    /\ \A i \in DOMAIN history[l] :
         i \in DOMAIN history'[l] /\ history'[l][i] = history[l][i]

LEMMA WriteGrows ==
  ASSUME CasesInv, NEW c \in Calls, NEW k \in CaseIds, NEW row \in SupportCase,
         NEW e \in Event, NEW command \in BOOLEAN, NEW action \in Answers,
         Commits(c, k, row, e, command, action), Writes(c, k, row, e, command)
  PROVE  Grows
<1> SUFFICES ASSUME NEW l \in Stored
             PROVE  /\ l \in Stored' /\ cases'[l].thread = cases[l].thread
                    /\ \/ cases'[l] = cases[l]
                       \/ /\ cases[l].version \in Nat /\ cases'[l].version \in Nat
                          /\ cases[l].version < cases'[l].version
                    /\ \A i \in DOMAIN history[l] :
                         i \in DOMAIN history'[l] /\ history'[l][i] = history[l][i]
  BY DEF Grows
<1>1. /\ cases' = [cases EXCEPT ![k] = row]
      /\ history' = [history EXCEPT ![k] = Append(history[k], e)]
  BY DEF Commits, Record
<1>2. /\ cases \in [CaseIds -> SupportCase \cup {None}] /\ history \in [CaseIds -> Seq(Event)]
      /\ history[k] \in Seq(Event)
  BY DEF CasesInv, CaseTypeOK
<1>3. l \in CaseIds /\ cases[l] # None /\ cases[l] \in SupportCase
  BY <1>2 DEF Stored
<1>4. CASE l = k
  <2>1. cases'[k] = row /\ history'[k] = Append(history[k], e) /\ row # None
    BY <1>1, <1>2, CaseAssumption
  <2>2. Adds(cases[k], e, row)
    BY <1>3, <1>4 DEF Writes
  <2>3. /\ cases[k].version \in Nat /\ (row = cases[k] \/ row.version = cases[k].version + 1)
        /\ row.thread = cases[k].thread
    BY <1>3, <1>4, <2>2 DEF Adds, SupportCase
  <2>4. \A i \in DOMAIN history[k] : i \in DOMAIN history'[k] /\ history'[k][i] = history[k][i]
    BY <1>2, <2>1, Appended
  <2> QED
    BY <1>4, <2>1, <2>3, <2>4 DEF Stored
<1>5. CASE l # k
  <2>1. cases'[l] = cases[l] /\ history'[l] = history[l]
    BY <1>1, <1>2, <1>3, <1>5
  <2> QED
    BY <1>3, <2>1 DEF Stored
<1> QED
  BY <1>4, <1>5

LEMMA FreshKept ==
  ASSUME CaseTypeOK, Grows, NEW d \in Calls, calls'[d].case = calls[d].case,
         calls'[d].row = calls[d].row, Fresh(d)
  PROVE  Fresh(d)'
<1> DEFINE l == calls[d].case
           r == calls[d].row
<1>1. l \in Stored /\ r \in SupportCase /\ r.version \in Nat
      /\ r.version <= cases[l].version /\ (r.version = cases[l].version => r = cases[l])
  BY DEF Fresh, SupportCase
<1>2. l \in Stored'
  BY <1>1 DEF Grows
<1> HIDE DEF l, r
<1>3. r.version <= cases'[l].version /\ (r.version = cases'[l].version => r = cases'[l])
  <2>1. CASE cases'[l] = cases[l]
    BY <1>1, <2>1
  <2>2. CASE /\ cases[l].version \in Nat /\ cases'[l].version \in Nat
             /\ cases[l].version < cases'[l].version
    BY <1>1, <2>2
  <2> QED
    BY <1>1, <2>1, <2>2 DEF Grows
<1> QED
  BY <1>1, <1>2, <1>3 DEF Fresh, l, r

LEMMA RecordedKept ==
  ASSUME Grows, UNCHANGED request, NEW d \in Calls, Recorded(d)
  PROVE  Recorded(d)'
<1>1. PICK k \in Stored : \E i \in DOMAIN history[k] : OfMessage(d, k, i)
  BY DEF Recorded
<1>2. PICK i \in DOMAIN history[k] : OfMessage(d, k, i)
  BY <1>1
<1>3. /\ k \in Stored' /\ cases'[k].thread = cases[k].thread
      /\ i \in DOMAIN history'[k] /\ history'[k][i] = history[k][i]
  BY DEF Grows
<1>4. OfMessage(d, k, i)'
  BY <1>2, <1>3 DEF OfMessage
<1> QED
  BY <1>3, <1>4 DEF Recorded

LEMMA CallKept ==
  ASSUME CasesInv, Grows, UNCHANGED request, NEW d \in Calls, calls'[d] = calls[d]
  PROVE  CallInv(d)'
<1>1. CallInv(d) /\ CaseTypeOK
  BY DEF CasesInv
<1>2. Fresh(d) => Fresh(d)'
  BY <1>1, FreshKept
<1>3. Recorded(d) => Recorded(d)'
  BY RecordedKept
<1>4. calls[d].case \in Stored => calls[d].case \in Stored'
  BY DEF Grows
<1> QED
  BY <1>1, <1>2, <1>3, <1>4 DEF CallInv, Kind

(* A transaction that meets these terms keeps the invariant. *)
LEMMA CommitKeeps ==
  ASSUME CasesInv, NEW c \in Calls, NEW k \in CaseIds, NEW row \in SupportCase,
         NEW e \in Event, NEW command \in BOOLEAN, NEW action \in Answers,
         Commits(c, k, row, e, command, action), Writes(c, k, row, e, command),
         UNCHANGED request
  PROVE  CasesInv'
<1>1. /\ cases' = [cases EXCEPT ![k] = row]
      /\ history' = [history EXCEPT ![k] = Append(history[k], e)]
      /\ commands' = IF command THEN [commands EXCEPT ![k] = commands[k] + 1] ELSE commands
      /\ calls' = [calls EXCEPT ![c] = [calls[c] EXCEPT !.pc = action, !.case = k]]
  BY DEF Commits, Record
<1>2. CaseTypeOK /\ Grows
  BY WriteGrows DEF CasesInv
<1>3. CaseTypeOK'
  <2>1. cases' \in [CaseIds -> SupportCase \cup {None}]
    BY <1>1, <1>2 DEF CaseTypeOK
  <2>2. history' \in [CaseIds -> Seq(Event)]
    BY <1>1, <1>2 DEF CaseTypeOK
  <2>3. commands' \in [CaseIds -> Nat]
    BY <1>1, <1>2 DEF CaseTypeOK
  <2>4. calls' \in [Calls -> Call]
    <3>1. [calls[c] EXCEPT !.pc = action, !.case = k] \in Call
      BY <1>2, PlaceFacts, Zenon DEF CaseTypeOK, Call
    <3> QED
      BY <1>1, <1>2, <3>1 DEF CaseTypeOK
  <2> QED
    BY <1>2, <2>1, <2>2, <2>3, <2>4 DEF CaseTypeOK
<1>4. ASSUME NEW d \in Calls PROVE CallInv(d)'
  <2>1. CASE d # c
    BY <1>1, <1>2, <2>1, CallKept DEF CaseTypeOK
  <2>2. CASE d = c
    <3>1. calls'[c].pc = action /\ action \notin Waiting
      BY <1>1, <1>2, PlaceFacts DEF CaseTypeOK, Call
    <3>2. CASE Kind(c) # "handoff"
      BY <2>2, <3>1, <3>2 DEF CallInv, Kind, Waiting
    <3>3. CASE Kind(c) = "handoff"

      <4>1. cases'[k] = row /\ history'[k] = Append(history[k], e) /\ row # None
        BY <1>1, <1>2, CaseAssumption DEF CaseTypeOK
      <4>2. PICK n : n \in DOMAIN history'[k] /\ history'[k][n] = e
        <5>1. /\ Len(history[k]) + 1 \in DOMAIN history'[k]
              /\ history'[k][Len(history[k]) + 1] = e
          BY <1>2, <4>1 DEF CaseTypeOK
        <5> QED
          BY <5>1
      <4>3. OfMessage(c, k, n)'
        BY <3>3, <4>1, <4>2 DEF OfMessage, Writes
      <4>4. k \in Stored'
        BY <4>1 DEF Stored
      <4>5. Recorded(c)'
        BY <4>2, <4>3, <4>4 DEF Recorded
      <4> QED
        BY <2>2, <3>1, <4>5 DEF CallInv, Kind, Waiting
    <3> QED
      BY <3>2, <3>3
  <2> QED
    BY <2>1, <2>2
<1>5. \A l \in CaseIds : CaseInv(l)'
  BY WriteKeepsCase
<1>6. KeysUnique'
  BY WriteKeepsKeys
<1> QED
  BY <1>3, <1>4, <1>5, <1>6 DEF CasesInv, Kind

LEMMA WriteKeeps ==
  ASSUME CasesInv, NEW c \in Calls, NEW k \in CaseIds, NEW row \in SupportCase,
         NEW e \in Event, NEW command \in BOOLEAN, NEW action \in Answers,
         Write(c, k, row, e, command, action), Writes(c, k, row, e, command),
         UNCHANGED request
  PROVE  CasesInv'
<1>1. Commits(c, k, row, e, command, action)
  BY DEF Write, Commits
<1> QED
  BY <1>1, CommitKeeps, Zenon

(* Where a step can leave a call. *)
LEMMA Moved ==
  ASSUME NEW r \in Call, NEW pc \in Places
  PROVE  [r EXCEPT !.pc = pc] \in Call /\ [r EXCEPT !.pc = pc].pc = pc
BY DEF Call

(* A step that only moves a call. *)
LEMMA MoveKeeps ==
  ASSUME CasesInv, NEW c \in Calls, NEW r \in Call, calls' = [calls EXCEPT ![c] = r],
         UNCHANGED <<tables, request>>, CallInv(c)'
  PROVE  CasesInv'
<1>1. CaseTypeOK /\ Grows
  BY DEF CasesInv, Grows, tables, Stored
<1>2. CaseTypeOK'
  BY <1>1 DEF CaseTypeOK, tables
<1>3. ASSUME NEW d \in Calls PROVE CallInv(d)'
  <2>1. CASE d # c
    BY <1>1, <2>1, CallKept DEF CaseTypeOK
  <2> QED
    BY <2>1
<1>4. ASSUME NEW l \in CaseIds PROVE CaseInv(l)'
  BY DEF CasesInv, CaseInv, tables
<1>5. KeysUnique'
  BY DEF CasesInv, KeysUnique, tables
<1> QED
  BY <1>2, <1>3, <1>4, <1>5 DEF CasesInv, Kind

(* An answer other than those that say that a handoff is recorded. *)
LEMMA GotoKeeps ==
  ASSUME CasesInv, NEW c \in Calls, NEW pc \in Answers, Return(c, pc), UNCHANGED request,
         pc \in {"created", "event_appended", "duplicate_ignored"} /\ Kind(c) = "handoff" =>
           Recorded(c)
  PROVE  CasesInv'
<1> DEFINE r == [calls[c] EXCEPT !.pc = pc]
<1>1. calls' = [calls EXCEPT ![c] = r] /\ UNCHANGED tables
  BY DEF Return, Goto
<1>2. r \in Call /\ r.pc = pc /\ pc \notin Waiting /\ calls'[c] = r
  <2>1. calls \in [Calls -> Call] /\ calls[c] \in Call /\ pc \in Places /\ pc \notin Waiting
    BY PlaceFacts DEF CasesInv, CaseTypeOK
  <2>2. r \in Call /\ r.pc = pc
    BY <2>1, Moved
  <2> HIDE DEF r
  <2> QED
    BY <1>1, <2>1, <2>2
<1> HIDE DEF r
<1>3. Recorded(c) => Recorded(c)'
  BY <1>1, RecordedKept DEF Grows, tables, Stored
<1>4. CallInv(c)'
  BY <1>2, <1>3 DEF CallInv, Kind, Waiting
<1> QED
  BY <1>1, <1>2, <1>4, MoveKeeps, Zenon

LEMMA RetryKeeps ==
  ASSUME CasesInv, NEW c \in Calls, NEW pc \in {"again", "read"}, Retry(c, pc),
         UNCHANGED request, pc = "read" => calls[c].case \in Stored
  PROVE  CasesInv'
<1>1. CASE calls[c].attempt < MAX_WRITE_ATTEMPTS
  <2>1. PICK r : r = [calls[c] EXCEPT !.pc = pc, !.attempt = calls[c].attempt + 1]
    OBVIOUS
  <2>2. calls' = [calls EXCEPT ![c] = r] /\ UNCHANGED tables
    BY <1>1, <2>1 DEF Retry
  <2>3. r \in Call /\ r.pc = pc /\ r.case = calls[c].case /\ calls'[c] = r
    <3>1. calls \in [Calls -> Call] /\ calls[c] \in Call /\ calls[c].attempt + 1 \in Nat
      BY DEF CasesInv, CaseTypeOK, Call
    <3>2. r \in Call /\ r.pc = pc /\ r.case = calls[c].case
      BY <2>1, <3>1, PlaceFacts, Zenon DEF Call
    <3> QED
      BY <2>2, <3>1, <3>2
  <2>4. CallInv(c)'
    BY <2>2, <2>3 DEF CallInv, Kind, Stored, tables
  <2> QED
    BY <2>2, <2>3, <2>4, MoveKeeps, Zenon
<1>2. CASE ~(calls[c].attempt < MAX_WRITE_ATTEMPTS)
  <2>1. Return(c, "concurrent_update")
    BY <1>2 DEF Retry, Return, Goto
  <2>2. "concurrent_update" \in Answers
    BY DEF Answers
  <2> QED
    BY <2>1, <2>2, GotoKeeps
<1> QED
  BY <1>1, <1>2

(* A transaction that sends nothing. *)
LEMMA QuietKeeps ==
  ASSUME CasesInv, NEW c \in Calls, NEW k \in CaseIds, NEW row \in SupportCase,
         NEW e \in Event, NEW action \in Answers, UNCHANGED <<request, commands>>,
         Record(c, k, row, e, action), Writes(c, k, row, e, FALSE)
  PROVE  CasesInv'
<1>1. PICK command \in BOOLEAN : command = FALSE
  BY Zenon
<1>2. Commits(c, k, row, e, command, action) /\ Writes(c, k, row, e, command)
  BY <1>1, Zenon DEF Commits
<1> QED
  BY <1>2, CommitKeeps

LEMMA QuietWriteKeeps ==
  ASSUME CasesInv, NEW c \in Calls, NEW k \in CaseIds, NEW row \in SupportCase,
         NEW e \in Event, NEW action \in Answers, UNCHANGED request,
         Write(c, k, row, e, FALSE, action), Writes(c, k, row, e, FALSE)
  PROVE  CasesInv'
<1>1. Record(c, k, row, e, action) /\ UNCHANGED commands
  BY DEF Write
<1> QED
  BY <1>1, QuietKeeps, Zenon

(* The events of the service, of the staff and of a review. *)
LEMMA OwnEvent ==
  ASSUME NEW e, e.key[1] \in Versioned
  PROVE  Added(e) = e.reasons /\ \A row : Changing(row, e)
<1>1. e.key[1] # "rejected"
  BY DEF Versioned
<1> QED
  BY <1>1 DEF Added, Changing

-----------------------------------------------------------------------------
(* What the calls ask. *)

LEMMA Asked ==
  ASSUME CasesInv, NEW c \in Calls
  PROVE  /\ Kind(c) = "handoff" => request[c] \in Handoffs
         /\ Kind(c) \in {"failure", "dead_command"} => request[c] \in Failures
         /\ Kind(c) = "status" => request[c] \in StatusChanges
         /\ Kind(c) = "assign" => request[c] \in Assignments
<1>1. request[c] \in Requests
  BY DEF CasesInv, CaseTypeOK
<1> QED
  BY <1>1 DEF Kind, Requests, Handoffs, Failures, StatusChanges, Assignments, Finalizations

LEMMA TriggerShape ==
  ASSUME CasesInv, NEW c \in Calls, Kind(c) = "handoff"
  PROVE  /\ Trigger(c) \in Event /\ [Trigger(c) EXCEPT !.status = "open"] \in Event
         /\ message_idempotency_key(c) = <<"message", request[c].thread, request[c].message>>
<1>1. request[c] \in Handoffs
  BY Asked
<1>2. message_idempotency_key(c) \in Keys
  BY <1>1 DEF Keys, message_idempotency_key, Handoffs
<1>3. Trigger(c) \in Event
  BY <1>1, <1>2 DEF Trigger, Event, Handoffs
<1>4. [Trigger(c) EXCEPT !.status = "open"] \in Event
  BY <1>3 DEF Event, CaseStatus
<1> QED
  BY <1>3, <1>4 DEF message_idempotency_key

LEMMA FindBySourceMessageKeeps ==
  ASSUME CasesInv, NEW c \in Calls, FindBySourceMessage(c), UNCHANGED request
  PROVE  CasesInv'
<1> DEFINE found == {k \in Stored : /\ cases[k].thread = request[c].thread
                                    /\ \E e \in Range(history[k]) : e.message = request[c].message}
<1>1. CASE found # {}
  <2>1. Return(c, "duplicate_ignored")
    BY <1>1 DEF FindBySourceMessage
  <2>2. PICK k \in Stored : /\ cases[k].thread = request[c].thread
                            /\ \E e \in Range(history[k]) : e.message = request[c].message
    BY <1>1
  <2>3. PICK i \in DOMAIN history[k] : history[k][i].message = request[c].message
    BY <2>2 DEF Range
  <2>4. Recorded(c)
    BY <2>2, <2>3 DEF Recorded, OfMessage
  <2>5. "duplicate_ignored" \in Answers
    BY DEF Answers
  <2> QED
    BY <2>1, <2>4, <2>5, GotoKeeps
<1>2. CASE found = {}
  <2> DEFINE r == [calls[c] EXCEPT !.pc = "lookup"]
  <2>1. calls' = [calls EXCEPT ![c] = r] /\ UNCHANGED tables /\ Kind(c) = "handoff"
    BY <1>2, Zenon DEF FindBySourceMessage, Return, Goto
  <2>2. r \in Call /\ r.pc = "lookup" /\ calls'[c] = r
    <3>1. calls \in [Calls -> Call] /\ calls[c] \in Call
      BY DEF CasesInv, CaseTypeOK
    <3>2. r \in Call /\ r.pc = "lookup"
      BY <3>1, PlaceFacts, Moved
    <3> HIDE DEF r
    <3> QED
      BY <2>1, <3>1, <3>2
  <2> HIDE DEF r, found
  <2>3. CallInv(c)'
    BY <2>1, <2>2 DEF CallInv, Kind
  <2> QED
    BY <2>1, <2>2, <2>3, MoveKeeps, Zenon
<1> QED
  BY <1>1, <1>2

LEMMA FindUnresolvedCaseKeeps ==
  ASSUME CasesInv, NEW c \in Calls, FindUnresolvedCase(c), UNCHANGED request
  PROVE  CasesInv'
<1>1. /\ Kind(c) = "handoff" /\ calls[c] \in Call /\ UNCHANGED tables
      /\ cases \in [CaseIds -> SupportCase \cup {None}] /\ calls \in [Calls -> Call]
  BY Zenon DEF FindUnresolvedCase, CasesInv, CallInv, CaseTypeOK, At
<1>2. CASE calls' = [calls EXCEPT ![c] = [calls[c] EXCEPT !.pc = "create", !.row = None]]
  <2>1. PICK r : r = [calls[c] EXCEPT !.pc = "create", !.row = None]
    OBVIOUS
  <2>2. calls' = [calls EXCEPT ![c] = r]
    BY <1>2, <2>1
  <2>3. r \in Call /\ r.pc = "create"
    BY <1>1, <2>1, PlaceFacts, Zenon DEF Call
  <2>4. calls'[c] = r
    BY <1>1, <2>2
  <2>5. CallInv(c)'
    BY <1>1, <2>3, <2>4 DEF CallInv, Kind
  <2> QED
    BY <1>1, <2>2, <2>3, <2>5, MoveKeeps, Zenon
<1>3. ASSUME NEW k \in Stored, Matches(c, cases[k]),
             calls' = [calls EXCEPT ![c] = [calls[c] EXCEPT !.pc = "append", !.case = k,
                                                            !.row = cases[k]]]
      PROVE  CasesInv'
  <2>1. PICK r : r = [calls[c] EXCEPT !.pc = "append", !.case = k, !.row = cases[k]]
    OBVIOUS
  <2>2. cases[k] \in SupportCase /\ k \in CaseIds
    BY <1>1 DEF Stored
  <2>3. r \in Call /\ r.pc = "append" /\ r.case = k /\ r.row = cases[k] /\ calls'[c] = r
    <3>1. r \in Call /\ r.pc = "append" /\ r.case = k /\ r.row = cases[k]
      BY <1>1, <2>1, <2>2, PlaceFacts, Zenon DEF Call
    <3> QED
      BY <1>1, <1>3, <2>1, <3>1
  <2>4. calls' = [calls EXCEPT ![c] = r]
    BY <1>3, <2>1
  <2>5. k \in Stored' /\ cases' = cases
    BY <1>1 DEF Stored, tables
  <2>6. cases[k].version \in Nat
    BY <2>2 DEF SupportCase
  <2>7. Fresh(c)'
    BY <2>2, <2>3, <2>5, <2>6 DEF Fresh
  <2>8. CallInv(c)'
    BY <1>1, <1>3, <2>3, <2>7 DEF CallInv, Kind, Matches
  <2> QED
    BY <1>1, <2>3, <2>4, <2>8, MoveKeeps, Zenon
<1> QED
  BY <1>2, <1>3, Zenon DEF FindUnresolvedCase

-----------------------------------------------------------------------------
(* The transactions that write. *)

LEMMA Nothing ==
  ASSUME CasesInv, NEW k \in CaseIds, cases[k] = None
  PROVE  commands[k] = 0
<1>1. history[k] = <<>> /\ Sent(commands[k], history[k])
  BY DEF CasesInv, CaseInv
<1>2. DOMAIN history[k] = {}
  BY <1>1
<1> QED
  BY <1>1, <1>2 DEF Sent

LEMMA create_caseKeeps ==
  ASSUME CasesInv, NEW c \in Calls, create_case(c), UNCHANGED request
  PROVE  CasesInv'
<1>1. Kind(c) = "handoff" /\ calls[c].pc = "create"
  BY DEF create_case, CasesInv, CallInv, At
<1>2. request[c] \in Handoffs
  BY <1>1, Asked
<1>3. PICK row : row = [thread |-> request[c].thread, order |-> request[c].order,
                        case_type |-> request[c].case_type, priority |-> request[c].priority,
                        risk |-> request[c].risk, reasons |-> request[c].reasons,
                        status |-> "open", agent |-> None, version |-> 1]
  BY Zenon
<1>4. row \in SupportCase
  BY <1>2, <1>3 DEF Handoffs, SupportCase, CaseStatus
<1>5. PICK e : e = [Trigger(c) EXCEPT !.status = "open"]
  BY Zenon
<1>6. e \in Event
  BY <1>1, <1>5, TriggerShape
<1>7. /\ e.key = message_idempotency_key(c) /\ e.message = request[c].message
      /\ e.reasons = request[c].reasons /\ e.priority = request[c].priority
      /\ e.risk = request[c].risk /\ e.status = "open" /\ e.agent = None /\ e.by = None
      /\ e.connected = request[c].connected
  BY <1>5 DEF Trigger
<1>8. /\ row.thread = request[c].thread /\ row.case_type = request[c].case_type
      /\ row.priority = request[c].priority /\ row.risk = request[c].risk
      /\ row.reasons = request[c].reasons /\ row.status = "open" /\ row.agent = None
      /\ row.version = 1
  BY <1>3
<1>9. PICK k \in CaseIds \ Stored :
        IF ViolatesActive(k, row) \/ KeyUsed(message_idempotency_key(c))
        THEN Retry(c, "again")
        ELSE Write(c, k, row, e, request[c].connected, "created")
  BY <1>3, <1>5 DEF create_case
<1>10. CASE ViolatesActive(k, row) \/ KeyUsed(message_idempotency_key(c))
  <2>1. Retry(c, "again")
    BY <1>9, <1>10
  <2> QED
    BY <2>1, RetryKeeps
<1>11. CASE ~(ViolatesActive(k, row) \/ KeyUsed(message_idempotency_key(c)))
  <2>1. Write(c, k, row, e, request[c].connected, "created")
    BY <1>9, <1>11
  <2>2. /\ request[c].connected \in BOOLEAN /\ request[c].priority # None
        /\ cases[k] = None /\ None # "open"
        /\ request[c].case_type = "order_operation_review" => request[c].priority # 0
    BY <1>1, <1>2, CaseAssumption DEF Handoffs, Stored, CasesInv, CaseStatus
  <2>3. Opens(e, row)
    <3>1. e.key[1] \in Versioned
      BY <1>7 DEF message_idempotency_key, Versioned
    <3> QED
      BY <1>7, <1>8, <2>2, <3>1 DEF Opens
  <2>4. e.key = <<"message", row.thread, e.message>> /\ ~KeyUsed(e.key)
    BY <1>1, <1>7, <1>8, <1>11, TriggerShape, Zenon
  <2>5. Writes(c, k, row, e, request[c].connected)
    BY <1>7, <1>8, <2>2, <2>3, <2>4, Nothing DEF Writes
  <2>6. "created" \in Answers
    BY DEF Answers
  <2> QED
    BY <1>4, <1>6, <2>1, <2>2, <2>5, <2>6, WriteKeeps
<1> QED
  BY <1>10, <1>11

(* An unchanged version vouches for the row that was read. *)
LEMMA ReadRow ==
  ASSUME CasesInv, NEW c \in Calls, calls[c].pc \in {"append", "write"}
  PROVE  /\ calls[c].case \in CaseIds /\ calls[c].case \in Stored
         /\ calls[c].row \in SupportCase
         /\ VersionMatches(c) => calls[c].row = cases[calls[c].case]
BY DEF CasesInv, CallInv, Fresh, Stored, VersionMatches

LEMMA HigherOf ==
  /\ \A a, b \in Nat : select_higher_priority(a, b) \in {a, b}
                       /\ Lowest(select_higher_priority(a, b), {a, b})
  /\ \A a, b \in Nat : select_higher_risk_level(a, b) \in {a, b}
                       /\ Highest(select_higher_risk_level(a, b), {a, b})
<1>1. ASSUME NEW a \in Nat, NEW b \in Nat
      PROVE  select_higher_priority(a, b) \in {a, b}
             /\ Lowest(select_higher_priority(a, b), {a, b})
  <2>1. \E x \in {a, b} : \A y \in {a, b} : x <= y
    <3>1. CASE a <= b
      BY <3>1
    <3>2. CASE b <= a
      BY <3>2
    <3> QED
      BY <3>1, <3>2
  <2> QED
    BY <2>1, Zenon DEF select_higher_priority, Min, Lowest
<1>2. ASSUME NEW a \in Nat, NEW b \in Nat
      PROVE  select_higher_risk_level(a, b) \in {a, b}
             /\ Highest(select_higher_risk_level(a, b), {a, b})
  <2>1. \E x \in {a, b} : \A y \in {a, b} : x >= y
    <3>1. CASE a >= b
      BY <3>1
    <3>2. CASE b >= a
      BY <3>2
    <3> QED
      BY <3>1, <3>2
  <2>2. select_higher_risk_level(a, b) \in {a, b}
        /\ \A y \in {a, b} : select_higher_risk_level(a, b) >= y
    BY <2>1, Zenon DEF select_higher_risk_level, Max
  <2> QED
    BY <2>2 DEF Highest
<1> QED
  BY <1>1, <1>2

LEMMA append_triggerKeeps ==
  ASSUME CasesInv, NEW c \in Calls, append_trigger(c), UNCHANGED request
  PROVE  CasesInv'
<1>1. /\ Kind(c) = "handoff" /\ calls[c].pc = "append"
      /\ calls[c].row.thread = request[c].thread
      /\ calls[c].row.case_type = request[c].case_type
  BY DEF append_trigger, CasesInv, CallInv, At
<1>2. /\ request[c] \in Handoffs /\ calls[c].case \in CaseIds /\ calls[c].case \in Stored
      /\ calls[c].row \in SupportCase
  BY <1>1, Asked, ReadRow
<1>3. PICK k, old : k = calls[c].case /\ old = calls[c].row
  OBVIOUS
<1>4. PICK p, risk : /\ p = select_higher_priority(old.priority, request[c].priority)
                     /\ risk = select_higher_risk_level(old.risk, request[c].risk)
  OBVIOUS
<1>5. PICK o, rs, v, row :
        /\ o = IF old.order # None THEN old.order ELSE request[c].order
        /\ rs = old.reasons \cup request[c].reasons /\ v = old.version + 1
        /\ row = [old EXCEPT !.order = o, !.priority = p, !.risk = risk, !.reasons = rs,
                             !.version = v]
  BY Zenon
<1>6. CASE ~VersionMatches(c) \/ KeyUsed(message_idempotency_key(c))
  <2>1. Retry(c, "again")
    BY <1>6 DEF append_trigger
  <2> QED
    BY <2>1, RetryKeeps
<1>7. CASE ~(~VersionMatches(c) \/ KeyUsed(message_idempotency_key(c)))
  <2>1. Write(c, k, row, Trigger(c), SendsCommand(c), "event_appended")
    BY <1>3, <1>4, <1>5, <1>7 DEF append_trigger
  <2>2. old = cases[k] /\ old \in SupportCase /\ k \in CaseIds /\ cases[k] # None
    BY <1>1, <1>2, <1>3, <1>7, ReadRow DEF Stored
  <2>3. old.priority \in 0 .. 3 /\ old.risk \in Nat /\ old.version \in Nat
    BY <2>2 DEF SupportCase
  <2>4. /\ request[c].priority \in 0 .. 3 /\ request[c].risk \in Nat
        /\ request[c].reasons \in SUBSET HandoffReason /\ request[c].connected \in BOOLEAN
        /\ request[c].order \in OrderIds \cup {None}
        /\ request[c].case_type = "order_operation_review" => request[c].priority # 0
    BY <1>1, <1>2 DEF Handoffs, CasesInv
  <2>5. /\ p \in {old.priority, request[c].priority} /\ Lowest(p, {old.priority, request[c].priority})
        /\ risk \in {old.risk, request[c].risk} /\ Highest(risk, {old.risk, request[c].risk})
    <3>1. old.priority \in Nat /\ request[c].priority \in Nat
      BY <2>3, <2>4
    <3> QED
      BY <1>4, <2>3, <2>4, <3>1, HigherOf, Zenon
  <2>6. p \in 0 .. 3 /\ risk \in Nat
    BY <2>3, <2>4, <2>5
  <2>7. row \in SupportCase
    <3>1. o \in OrderIds \cup {None} /\ rs \in SUBSET HandoffReason /\ v \in Nat
      BY <1>5, <2>2, <2>3, <2>4 DEF SupportCase
    <3>2. row = [old EXCEPT !.order = o, !.priority = p, !.risk = risk, !.reasons = rs,
                            !.version = v]
      BY <1>5
    <3> QED
      BY <2>2, <2>6, <3>1, <3>2, Zenon DEF SupportCase
  <2>8. /\ row.thread = old.thread /\ row.case_type = old.case_type /\ row.priority = p
        /\ row.risk = risk /\ row.reasons = old.reasons \cup request[c].reasons
        /\ row.status = old.status /\ row.agent = old.agent /\ row.version = old.version + 1
    BY <1>5, <2>2 DEF SupportCase
  <2>9. PICK e : e = Trigger(c)
    OBVIOUS
  <2>10. /\ e.key = message_idempotency_key(c) /\ e.message = request[c].message
         /\ e.reasons = request[c].reasons /\ e.priority = request[c].priority
         /\ e.risk = request[c].risk /\ e.status = None /\ e.agent = None /\ e.by = None
         /\ e.connected = request[c].connected
    BY <2>9 DEF Trigger
  <2>11. e \in Event /\ e.key = <<"message", request[c].thread, request[c].message>>
    BY <1>1, <2>9, <2>10, TriggerShape, Zenon
  <2>12. None \notin {old.priority, request[c].priority}
    BY <2>3, <2>4, CaseAssumption
  <2>13. Lowest(row.priority, {old.priority, e.priority} \ {None})
    <3>1. {old.priority, e.priority} \ {None} = {old.priority, request[c].priority}
      BY <2>10, <2>12
    <3> QED
      BY <2>5, <2>8, <3>1
  <2>14. row.case_type = "order_operation_review" => row.priority # 0
    <3>1. Sums(cases[k], history[k])
      BY <2>2 DEF CasesInv, CaseInv
    <3>2. old.case_type = "order_operation_review" => old.priority # 0
      BY <2>2, <3>1 DEF Sums
    <3> QED
      BY <1>1, <1>3, <2>4, <2>5, <2>8, <3>2
  <2>15. Adds(cases[k], e, row)
    <3>1. e.key[1] \in Versioned
      BY <2>11 DEF Versioned
    <3>2. Added(e) = e.reasons /\ Changing(cases[k], e)
      BY <3>1, OwnEvent
    <3> QED
      BY <2>2, <2>5, <2>8, <2>10, <2>13, <2>14, <3>2 DEF Adds
  <2>16. Writes(c, k, row, e, SendsCommand(c))
    BY <1>1, <1>3, <1>7, <2>2, <2>8, <2>10, <2>11, <2>15 DEF Writes, SendsCommand
  <2>17. "event_appended" \in Answers /\ SendsCommand(c) \in BOOLEAN
    BY DEF Answers, SendsCommand
  <2> QED
    BY <2>1, <2>2, <2>7, <2>9, <2>11, <2>16, <2>17, WriteKeeps
<1> QED
  BY <1>6, <1>7

LEMMA FailureShape ==
  ASSUME CasesInv, NEW c \in Calls, Kind(c) \in {"failure", "dead_command"}, NEW e,
         NEW s \in {None, "open"},
         e = IF s = None THEN FailureEvent(c) ELSE [FailureEvent(c) EXCEPT !.status = s]
  PROVE  /\ e \in Event /\ e.key = <<"failure", c>> /\ e.message = request[c].message
         /\ e.reasons = {<<"provider_delivery_failed">>} /\ e.priority = 1 /\ e.risk = 0
         /\ e.status = s /\ e.agent = None /\ e.by = None /\ e.connected = FALSE
<1>1. request[c].message \in Messages
  BY Asked DEF Failures
<1>2. <<"failure", c>> \in Keys
  BY DEF Keys
<1>3. {<<"provider_delivery_failed">>} \in SUBSET HandoffReason
  BY DEF HandoffReason, DomainReasons, OrderReviewReasons
<1>4. "open" \in CaseStatus
  BY DEF CaseStatus
<1>5. FailureEvent(c) \in Event
  BY <1>1, <1>2, <1>3 DEF FailureEvent, Event
<1>6. /\ e.key = <<"failure", c>> /\ e.message = request[c].message
      /\ e.reasons = {<<"provider_delivery_failed">>} /\ e.priority = 1 /\ e.risk = 0
      /\ e.status = s /\ e.agent = None /\ e.by = None /\ e.connected = FALSE
  BY DEF FailureEvent
<1>7. e \in Event
  <2>1. CASE s = None
    BY <1>5, <2>1
  <2>2. CASE s # None
    BY <1>4, <1>5, <2>2 DEF Event
  <2> QED
    BY <2>1, <2>2
<1> QED
  BY <1>6, <1>7

LEMMA EnsureReviewKeeps ==
  ASSUME CasesInv, NEW c \in Calls, Kind(c) \in {"failure", "dead_command"}, EnsureReview(c),
         UNCHANGED request
  PROVE  CasesInv'
<1>1. request[c].thread \in Threads /\ request[c].order \in OrderIds /\ Kind(c) # "handoff"
  BY Asked DEF Failures
<1>2. PICK reason : reason = {<<"provider_delivery_failed">>}
  BY Zenon
<1>3. reason \in SUBSET HandoffReason
  BY <1>2 DEF HandoffReason, DomainReasons, OrderReviewReasons
<1>4. ASSUME NEW k \in Stored, cases[k].case_type = "order_operation_review",
             Write(c, k, [cases[k] EXCEPT !.priority = 1, !.reasons = cases[k].reasons \cup reason,
                                          !.version = cases[k].version + 1],
                   FailureEvent(c), FALSE, "reused")
      PROVE  CasesInv'
  <2>1. PICK old, rs, v, row :
          /\ old = cases[k] /\ rs = old.reasons \cup reason /\ v = old.version + 1
          /\ row = [old EXCEPT !.priority = 1, !.reasons = rs, !.version = v]
    BY Zenon
  <2>2. k \in CaseIds /\ cases[k] # None /\ old \in SupportCase
    BY <2>1 DEF Stored, CasesInv, CaseTypeOK
  <2>3. old.version \in Nat /\ old.priority \in 0 .. 3 /\ old.risk \in Nat
    BY <2>2 DEF SupportCase
  <2>4. rs \in SUBSET HandoffReason /\ v \in Nat
    BY <1>3, <2>1, <2>2, <2>3 DEF SupportCase
  <2>5. row \in SupportCase
    <3>1. PICK p \in 0 .. 3 : p = 1
      OBVIOUS
    <3>2. row = [old EXCEPT !.priority = p, !.reasons = rs, !.version = v]
      BY <2>1, <3>1
    <3> QED
      BY <2>2, <2>4, <3>2, Zenon DEF SupportCase
  <2>6. /\ row.thread = old.thread /\ row.case_type = old.case_type /\ row.priority = 1
        /\ row.risk = old.risk /\ row.reasons = rs /\ row.status = old.status
        /\ row.agent = old.agent /\ row.version = v
    BY <2>1, <2>2 DEF SupportCase
  <2>7. PICK e : e = FailureEvent(c)
    OBVIOUS
  <2>8. /\ e \in Event /\ e.key = <<"failure", c>> /\ e.message = request[c].message
        /\ e.reasons = reason /\ e.priority = 1 /\ e.risk = 0
        /\ e.status = None /\ e.agent = None /\ e.by = None /\ e.connected = FALSE
    BY <1>2, <2>7, FailureShape, Zenon
  <2>9. old.priority # 0
    <3>1. Sums(cases[k], history[k])
      BY <2>2 DEF CasesInv, CaseInv
    <3> QED
      BY <1>4, <2>1, <3>1 DEF Sums
  <2>10. Lowest(row.priority, {old.priority, e.priority} \ {None})
    <3>1. 1 # None /\ old.priority # None
      BY <2>3, CaseAssumption
    <3> QED
      BY <2>3, <2>6, <2>8, <2>9, <3>1 DEF Lowest
  <2>11. Highest(row.risk, {old.risk, e.risk})
    BY <2>3, <2>6, <2>8 DEF Highest
  <2>12. Adds(cases[k], e, row)
    <3>1. e.key[1] \in Versioned
      BY <2>8 DEF Versioned
    <3>2. Added(e) = e.reasons /\ Changing(cases[k], e)
      BY <3>1, OwnEvent
    <3> QED
      BY <2>1, <2>6, <2>8, <2>10, <2>11, <3>2 DEF Adds
  <2>13. Writes(c, k, row, e, FALSE)
    BY <1>1, <2>2, <2>8, <2>12 DEF Writes
  <2>14. Write(c, k, row, e, FALSE, "reused")
    BY <1>4, <2>1, <2>7, Zenon
  <2>15. "reused" \in Answers
    BY DEF Answers
  <2>16. k \in CaseIds /\ e \in Event
    BY <2>2, <2>8
  <2> QED
    BY <2>5, <2>13, <2>14, <2>15, <2>16, QuietWriteKeeps, Zenon
<1>5. ASSUME NEW k \in CaseIds \ Stored,
             Write(c, k, [thread |-> request[c].thread, order |-> request[c].order,
                          case_type |-> "order_operation_review", priority |-> 1, risk |-> 0,
                          reasons |-> reason, status |-> "open", agent |-> None, version |-> 1],
                   [FailureEvent(c) EXCEPT !.status = "open"], FALSE, "created")
      PROVE  CasesInv'
  <2>1. PICK row, e :
          /\ row = [thread |-> request[c].thread, order |-> request[c].order,
                    case_type |-> "order_operation_review", priority |-> 1, risk |-> 0,
                    reasons |-> reason, status |-> "open", agent |-> None, version |-> 1]
          /\ e = [FailureEvent(c) EXCEPT !.status = "open"]
    BY Zenon
  <2>2. "order_operation_review" \in Range(CASE_TYPES)
    BY DEF CASE_TYPES, Range
  <2>3. row \in SupportCase
    BY <1>1, <1>3, <2>1, <2>2 DEF SupportCase, CaseStatus
  <2>4. "open" # None /\ cases[k] = None /\ 1 # None
    BY CaseAssumption DEF CaseStatus, Stored
  <2>5. /\ e \in Event /\ e.key = <<"failure", c>> /\ e.message = request[c].message
        /\ e.reasons = reason /\ e.priority = 1 /\ e.risk = 0
        /\ e.status = "open" /\ e.agent = None /\ e.by = None /\ e.connected = FALSE
    BY <1>2, <2>1, <2>4, FailureShape, Zenon
  <2>6. Opens(e, row)
    <3>1. e.key[1] \in Versioned
      BY <2>5 DEF Versioned
    <3> QED
      BY <2>1, <2>4, <2>5, <3>1 DEF Opens
  <2>7. Writes(c, k, row, e, FALSE)
    BY <1>1, <2>4, <2>5, <2>6 DEF Writes
  <2>8. Write(c, k, row, e, FALSE, "created")
    BY <1>5, <2>1, Zenon
  <2>9. "created" \in Answers
    BY DEF Answers
  <2>10. e \in Event
    BY <2>5
  <2> QED
    BY <2>3, <2>7, <2>8, <2>9, <2>10, QuietWriteKeeps, Zenon
<1> QED
  BY <1>2, <1>4, <1>5, Zenon DEF EnsureReview

-----------------------------------------------------------------------------
(* What becomes of a command. *)

Tags == {"accepted", "rejected", "webhook", "redrive"}

(* An event with nothing for the row but the tag of its key. *)
Bare(e, t) ==
  /\ e \in Event /\ e.key[1] = t /\ e.reasons = {} /\ e.priority = None /\ e.risk = 0
  /\ e.status = None /\ e.agent = None /\ e.by = None /\ e.connected = FALSE

LEMMA ProviderShape ==
  ASSUME NEW t \in Tags, NEW d \in Calls
  PROVE  Bare(ProviderEvent(<<t, d>>), t)
<1>1. <<t, d>> \in Keys /\ <<t, d>>[1] = t
  BY DEF Keys, Tags
<1>2. ProviderEvent(<<t, d>>) \in Event
  BY <1>1 DEF ProviderEvent, Event
<1> QED
  BY <1>1, <1>2, Zenon DEF ProviderEvent, Bare

(* A row that is left as it is, or marked. *)
LEMMA ProviderAdds ==
  ASSUME CasesInv, NEW k \in Stored, NEW t \in Tags, NEW e, Bare(e, t), NEW new,
         new = IF t = "rejected" /\ Mark \notin cases[k].reasons
               THEN [cases[k] EXCEPT !.reasons = cases[k].reasons \cup {Mark},
                                     !.version = cases[k].version + 1]
               ELSE cases[k]
  PROVE  new \in SupportCase /\ Adds(cases[k], e, new)
<1>1. PICK old : old = cases[k] /\ old \in SupportCase /\ Sums(old, history[k])
  BY DEF CasesInv, CaseTypeOK, CaseInv, Stored
<1>2. /\ old.version \in Nat /\ old.priority \in 0 .. 3 /\ old.risk \in Nat
      /\ old.reasons \in SUBSET HandoffReason
  BY <1>1 DEF SupportCase
<1>3. /\ e.key[1] = t /\ t \notin Versioned /\ e.reasons = {} /\ e.priority = None /\ e.risk = 0
      /\ e.status = None /\ e.agent = None
  BY DEF Bare, Tags, Versioned
<1>4. PICK rs, v : rs = old.reasons \cup {Mark} /\ v = old.version + 1
  BY Zenon
<1>5. Mark \in HandoffReason
  BY DEF Mark, HandoffReason, DomainReasons, OrderReviewReasons
<1>6. rs \in SUBSET HandoffReason /\ v \in Nat
  BY <1>2, <1>4, <1>5
<1>7. /\ new \in SupportCase /\ new.thread = old.thread /\ new.case_type = old.case_type
      /\ new.priority = old.priority /\ new.risk = old.risk /\ new.status = old.status
      /\ new.agent = old.agent
      /\ IF t = "rejected" /\ Mark \notin old.reasons
         THEN new.reasons = rs /\ new.version = v ELSE new = old
  <2>1. CASE t = "rejected" /\ Mark \notin old.reasons
    <3>1. new = [old EXCEPT !.reasons = rs, !.version = v]
      BY <1>1, <1>4, <2>1
    <3>2. new \in SupportCase
      BY <1>1, <1>6, <3>1, Zenon DEF SupportCase
    <3> QED
      BY <1>1, <2>1, <3>1, <3>2, Zenon DEF SupportCase
  <2>2. CASE ~(t = "rejected" /\ Mark \notin old.reasons)
    BY <1>1, <2>2
  <2> QED
    BY <2>1, <2>2
<1>8. Changing(old, e) <=> t = "rejected" /\ Mark \notin old.reasons
  BY <1>3 DEF Changing
<1>9. new.reasons = old.reasons \cup Added(e)
  <2>1. Added(e) = IF t = "rejected" THEN {Mark} ELSE {}
    BY <1>3 DEF Added, Mark
  <2> QED
    BY <1>4, <1>7, <2>1, Zenon
<1>10. Lowest(new.priority, {old.priority, e.priority} \ {None})
  <2>1. {old.priority, e.priority} \ {None} = {old.priority}
    BY <1>2, <1>3, CaseAssumption
  <2> QED
    BY <1>2, <1>7, <2>1 DEF Lowest
<1>11. Highest(new.risk, {old.risk, e.risk})
  BY <1>2, <1>3, <1>7 DEF Highest
<1>12. new.case_type = "order_operation_review" => new.priority # 0
  BY <1>1, <1>7 DEF Sums
<1>13. Adds(old, e, new)
  BY <1>3, <1>4, <1>7, <1>8, <1>9, <1>10, <1>11, <1>12 DEF Adds
<1> QED
  BY <1>1, <1>7, <1>13

LEMMA ProviderKeeps ==
  ASSUME CasesInv, NEW c \in Calls, Kind(c) # "handoff", NEW k \in Stored,
         NEW t \in Tags, NEW e, Bare(e, t), NEW new,
         new = IF t = "rejected" /\ Mark \notin cases[k].reasons
               THEN [cases[k] EXCEPT !.reasons = cases[k].reasons \cup {Mark},
                                     !.version = cases[k].version + 1]
               ELSE cases[k],
         NEW action \in {"finalized", "redriven"},
         Record(c, k, new, e, action), UNCHANGED <<request, commands>>
  PROVE  CasesInv'
<1>1. e \in Event /\ e.key[1] # "message" /\ e.by = None /\ e.connected = FALSE
  BY DEF Bare, Tags
<1>2. new \in SupportCase /\ Adds(cases[k], e, new)
  BY ProviderAdds, Zenon
<1>3. k \in CaseIds /\ cases[k] # None
  BY DEF Stored
<1>4. Writes(c, k, new, e, FALSE)
  BY <1>1, <1>2, <1>3 DEF Writes
<1>5. action \in Answers
  BY DEF Answers
<1> QED
  BY <1>1, <1>2, <1>3, <1>4, <1>5, QuietKeeps, Zenon

LEMMA finalize_caseKeeps ==
  ASSUME CasesInv, NEW c \in Calls, finalize_case(c), UNCHANGED request
  PROVE  CasesInv'
<1>1. PICK t : t = IF request[c].outcome = "accepted" THEN "accepted" ELSE "rejected"
  OBVIOUS
<1>2. t \in Tags /\ Kind(c) # "handoff"
      /\ UNCHANGED commands
  BY <1>1 DEF finalize_case, Tags
<1>3. PICK k \in Stored :
        Record(c, k,
               IF t = "rejected" /\ Mark \notin cases[k].reasons
               THEN [cases[k] EXCEPT !.reasons = cases[k].reasons \cup {Mark},
                                     !.version = cases[k].version + 1]
               ELSE cases[k],
               ProviderEvent(<<t, c>>), "finalized")
  BY <1>1, Zenon DEF finalize_case, Investigations, Mark
<1>4. PICK e : e = ProviderEvent(<<t, c>>) /\ Bare(e, t)
  BY <1>2, ProviderShape
<1>5. PICK new : /\ new = IF t = "rejected" /\ Mark \notin cases[k].reasons
                          THEN [cases[k] EXCEPT !.reasons = cases[k].reasons \cup {Mark},
                                                !.version = cases[k].version + 1]
                          ELSE cases[k]
                 /\ Record(c, k, new, e, "finalized")
  BY <1>3, <1>4, Zenon
<1> QED
  BY <1>2, <1>4, <1>5, ProviderKeeps, Zenon

LEMMA AuditKeeps ==
  ASSUME CasesInv, NEW c \in Calls,
         finalize_support_case(c) \/ audit_support_case(c) \/ recover_operation(c),
         UNCHANGED request
  PROVE  CasesInv'
<1>1. Kind(c) # "handoff" /\ UNCHANGED commands
  BY DEF finalize_support_case, audit_support_case, recover_operation
<1>2. PICK t \in {"webhook", "redrive"} : \E action \in {"finalized", "redriven"} :
        \E k \in Stored, d \in Calls :
          Record(c, k, cases[k], ProviderEvent(<<t, d>>), action)
  BY Zenon DEF finalize_support_case, audit_support_case, recover_operation, Investigations
<1>3. PICK action \in {"finalized", "redriven"} : \E k \in Stored, d \in Calls :
        Record(c, k, cases[k], ProviderEvent(<<t, d>>), action)
  BY <1>2
<1>4. PICK k \in Stored, d \in Calls :
        Record(c, k, cases[k], ProviderEvent(<<t, d>>), action)
  BY <1>3
<1>5. t \in Tags /\ t # "rejected"
  BY <1>2 DEF Tags
<1>6. PICK e : e = ProviderEvent(<<t, d>>) /\ Bare(e, t)
  BY <1>5, ProviderShape
<1>7. PICK new : /\ new = IF t = "rejected" /\ Mark \notin cases[k].reasons
                          THEN [cases[k] EXCEPT !.reasons = cases[k].reasons \cup {Mark},
                                                !.version = cases[k].version + 1]
                          ELSE cases[k]
                 /\ Record(c, k, new, e, action)
  BY <1>4, <1>5, <1>6, Zenon
<1> QED
  BY <1>1, <1>5, <1>6, <1>7, ProviderKeeps, Zenon

-----------------------------------------------------------------------------
(* The staff. *)

LEMMA PlainEvent ==
  ASSUME NEW key \in Keys, NEW s \in CaseStatus \cup {None},
         NEW a \in Agents \cup {None}, NEW b \in Agents \cup {None}
  PROVE  [key |-> key, message |-> None, reasons |-> {}, priority |-> None, risk |-> 0,
          status |-> s, agent |-> a, by |-> b, connected |-> FALSE] \in Event
BY DEF Event

LEMMA StaffShape ==
  ASSUME CasesInv, NEW c \in Calls, Kind(c) \in {"status", "assign"},
         NEW k \in CaseIds, calls[c].case = k, NEW e, e = StaffEvent(c)
  PROVE  /\ e \in Event /\ e.key[1] = Kind(c) /\ e.reasons = {} /\ e.priority = None
         /\ e.risk = 0 /\ e.connected = FALSE
         /\ e.status = IF Kind(c) = "status" THEN request[c].target ELSE None
         /\ e.agent = IF Kind(c) = "assign" THEN request[c].agent ELSE None
         /\ e.by = IF Kind(c) = "status" THEN request[c].by ELSE None
<1>1. request[c].id \in RequestIds
  BY Asked DEF StatusChanges, Assignments
<1>2. PICK key : key = <<Kind(c), k, request[c].id>> /\ key \in Keys /\ key[1] = Kind(c)
  <2>1. <<Kind(c), k, request[c].id>> \in Keys
    BY <1>1 DEF Keys
  <2>2. <<Kind(c), k, request[c].id>>[1] = Kind(c)
    OBVIOUS
  <2> QED
    BY <2>1, <2>2, Zenon
<1>3. PICK s, a, b : /\ s = IF Kind(c) = "status" THEN request[c].target ELSE None
                     /\ a = IF Kind(c) = "assign" THEN request[c].agent ELSE None
                     /\ b = IF Kind(c) = "status" THEN request[c].by ELSE None
  OBVIOUS
<1>4. s \in CaseStatus \cup {None} /\ a \in Agents \cup {None} /\ b \in Agents \cup {None}
  BY <1>3, Asked DEF StatusChanges, Assignments
<1>5. e = [key |-> key, message |-> None, reasons |-> {},
           priority |-> None, risk |-> 0, status |-> s, agent |-> a, by |-> b,
           connected |-> FALSE]
  BY <1>2, <1>3, Zenon DEF StaffEvent, idempotency_key
<1>6. e \in Event
  <2>1. [key |-> key, message |-> None, reasons |-> {},
         priority |-> None, risk |-> 0, status |-> s, agent |-> a, by |-> b,
         connected |-> FALSE] \in Event
    BY <1>2, <1>4, PlainEvent
  <2> QED
    BY <1>5, <2>1, Zenon
<1> QED
  BY <1>2, <1>3, <1>5, <1>6

LEMMA WriteStatusKeeps ==
  ASSUME CasesInv, NEW c \in Calls, WriteStatus(c), UNCHANGED request
  PROVE  CasesInv'
<1>1. Kind(c) = "status" /\ calls[c].pc = "write" /\ request[c] \in StatusChanges
  BY Asked DEF WriteStatus, At
<1>2. PICK k, old, v, row :
        /\ k = calls[c].case /\ old = calls[c].row /\ v = old.version + 1
        /\ row = [old EXCEPT !.status = request[c].target, !.version = v]
  BY Zenon
<1>3. /\ k \in CaseIds /\ k \in Stored /\ old \in SupportCase
      /\ VersionMatches(c) => old = cases[k]
  BY <1>1, <1>2, ReadRow
<1>4. \/ Retry(c, "read") \/ Return(c, "active_case_conflict") \/ Return(c, "status_unchanged")
      \/ /\ VersionMatches(c) /\ Visible(c, k)
         /\ Write(c, k, row, StaffEvent(c), FALSE, "status_changed")
  BY <1>2, Zenon DEF WriteStatus
<1>5. CASE Retry(c, "read")
  BY <1>2, <1>3, <1>5, RetryKeeps
<1>6. CASE Return(c, "active_case_conflict") \/ Return(c, "status_unchanged")
  <2>1. /\ "active_case_conflict" \in Answers /\ "status_unchanged" \in Answers
    BY DEF Answers
  <2> QED
    BY <1>6, <2>1, GotoKeeps
<1>7. CASE /\ VersionMatches(c) /\ Visible(c, k)
           /\ Write(c, k, row, StaffEvent(c), FALSE, "status_changed")
  <2>1. old = cases[k] /\ cases[k] # None
    BY <1>3, <1>7 DEF Stored
  <2>2. /\ request[c].target \in CaseStatus /\ request[c].target # None
        /\ request[c].by # None => cases[k].agent = request[c].by
    BY <1>1, <1>7, CaseAssumption DEF StatusChanges, Visible
  <2>3. old.version \in Nat /\ old.priority \in 0 .. 3 /\ old.risk \in Nat /\ v \in Nat
    BY <1>2, <1>3 DEF SupportCase
  <2>4. row \in SupportCase
    BY <1>2, <1>3, <2>2, <2>3, Zenon DEF SupportCase
  <2>5. /\ row.thread = old.thread /\ row.case_type = old.case_type
        /\ row.priority = old.priority /\ row.risk = old.risk /\ row.reasons = old.reasons
        /\ row.status = request[c].target /\ row.agent = old.agent /\ row.version = v
    BY <1>2, <1>3 DEF SupportCase
  <2>6. PICK e : e = StaffEvent(c)
    OBVIOUS
  <2>7. /\ e \in Event /\ e.key[1] = "status" /\ e.reasons = {} /\ e.priority = None
        /\ e.risk = 0 /\ e.connected = FALSE /\ e.status = request[c].target
        /\ e.agent = None /\ e.by = request[c].by
    BY <1>1, <1>2, <1>3, <2>6, StaffShape, Zenon
  <2>8. Lowest(row.priority, {old.priority, e.priority} \ {None})
    <3>1. {old.priority, e.priority} \ {None} = {old.priority}
      BY <2>3, <2>7, CaseAssumption
    <3> QED
      BY <2>3, <2>5, <3>1 DEF Lowest
  <2>9. Highest(row.risk, {old.risk, e.risk})
    BY <2>3, <2>5, <2>7 DEF Highest
  <2>10. row.case_type = "order_operation_review" => row.priority # 0
    <3>1. Sums(cases[k], history[k])
      BY <1>3, <2>1 DEF CasesInv, CaseInv
    <3> QED
      BY <2>1, <2>5, <3>1 DEF Sums
  <2>11. Adds(cases[k], e, row)
    <3>1. e.key[1] \in Versioned
      BY <2>7 DEF Versioned
    <3>2. Added(e) = e.reasons /\ Changing(cases[k], e)
      BY <3>1, OwnEvent
    <3> QED
      BY <1>2, <2>1, <2>2, <2>5, <2>7, <2>8, <2>9, <2>10, <3>2 DEF Adds
  <2>12. Writes(c, k, row, e, FALSE)
    BY <1>1, <2>1, <2>2, <2>7, <2>11, Zenon DEF Writes
  <2>13. "status_changed" \in Answers
    BY DEF Answers
  <2>14. k \in CaseIds /\ e \in Event /\ Write(c, k, row, e, FALSE, "status_changed")
    BY <1>3, <1>7, <2>6, <2>7, Zenon
  <2> QED
    BY <2>4, <2>12, <2>13, <2>14, QuietWriteKeeps, Zenon
<1> QED
  BY <1>4, <1>5, <1>6, <1>7, Zenon

LEMMA WriteAssignKeeps ==
  ASSUME CasesInv, NEW c \in Calls, WriteAssign(c), UNCHANGED request
  PROVE  CasesInv'
<1>1. Kind(c) = "assign" /\ calls[c].pc = "write" /\ request[c] \in Assignments
  BY Asked DEF WriteAssign, At
<1>2. PICK k, old, v, row :
        /\ k = calls[c].case /\ old = calls[c].row /\ v = old.version + 1
        /\ row = [old EXCEPT !.agent = request[c].agent, !.version = v]
  BY Zenon
<1>3. /\ k \in CaseIds /\ k \in Stored /\ old \in SupportCase
      /\ VersionMatches(c) => old = cases[k]
  BY <1>1, <1>2, ReadRow
<1>4. \/ Retry(c, "read") \/ Return(c, "status_unchanged")
      \/ VersionMatches(c) /\ Write(c, k, row, StaffEvent(c), FALSE, "assigned")
  BY <1>2, Zenon DEF WriteAssign
<1>5. CASE Retry(c, "read")
  BY <1>2, <1>3, <1>5, RetryKeeps
<1>6. CASE Return(c, "status_unchanged")
  <2>1. "status_unchanged" \in Answers
    BY DEF Answers
  <2> QED
    BY <1>6, <2>1, GotoKeeps
<1>7. CASE VersionMatches(c) /\ Write(c, k, row, StaffEvent(c), FALSE, "assigned")
  <2>1. old = cases[k] /\ cases[k] # None
    BY <1>3, <1>7 DEF Stored
  <2>2. request[c].agent \in Agents /\ request[c].agent # None
    BY <1>1, CaseAssumption DEF Assignments
  <2>3. old.version \in Nat /\ old.priority \in 0 .. 3 /\ old.risk \in Nat /\ v \in Nat
    BY <1>2, <1>3 DEF SupportCase
  <2>4. row \in SupportCase
    BY <1>2, <1>3, <2>2, <2>3, Zenon DEF SupportCase
  <2>5. /\ row.thread = old.thread /\ row.case_type = old.case_type
        /\ row.priority = old.priority /\ row.risk = old.risk /\ row.reasons = old.reasons
        /\ row.status = old.status /\ row.agent = request[c].agent /\ row.version = v
    BY <1>2, <1>3 DEF SupportCase
  <2>6. PICK e : e = StaffEvent(c)
    OBVIOUS
  <2>7. /\ e \in Event /\ e.key[1] = "assign" /\ e.reasons = {} /\ e.priority = None
        /\ e.risk = 0 /\ e.connected = FALSE /\ e.status = None
        /\ e.agent = request[c].agent /\ e.by = None
    BY <1>1, <1>2, <1>3, <2>6, StaffShape, Zenon
  <2>8. Lowest(row.priority, {old.priority, e.priority} \ {None})
    <3>1. {old.priority, e.priority} \ {None} = {old.priority}
      BY <2>3, <2>7, CaseAssumption
    <3> QED
      BY <2>3, <2>5, <3>1 DEF Lowest
  <2>9. Highest(row.risk, {old.risk, e.risk})
    BY <2>3, <2>5, <2>7 DEF Highest
  <2>10. row.case_type = "order_operation_review" => row.priority # 0
    <3>1. Sums(cases[k], history[k])
      BY <1>3, <2>1 DEF CasesInv, CaseInv
    <3> QED
      BY <2>1, <2>5, <3>1 DEF Sums
  <2>11. Adds(cases[k], e, row)
    <3>1. e.key[1] \in Versioned
      BY <2>7 DEF Versioned
    <3>2. Added(e) = e.reasons /\ Changing(cases[k], e)
      BY <3>1, OwnEvent
    <3> QED
      BY <1>2, <2>1, <2>2, <2>5, <2>7, <2>8, <2>9, <2>10, <3>2 DEF Adds
  <2>12. Writes(c, k, row, e, FALSE)
    BY <1>1, <2>1, <2>7, <2>11 DEF Writes
  <2>13. "assigned" \in Answers
    BY DEF Answers
  <2>14. k \in CaseIds /\ e \in Event /\ Write(c, k, row, e, FALSE, "assigned")
    BY <1>3, <1>7, <2>6, <2>7, Zenon
  <2> QED
    BY <2>4, <2>12, <2>13, <2>14, QuietWriteKeeps, Zenon
<1> QED
  BY <1>4, <1>5, <1>6, <1>7, Zenon

LEMMA ReadKeeps ==
  ASSUME CasesInv, NEW c \in Calls, calls[c].case \in Stored, Read(c, calls[c].case, "write"),
         UNCHANGED request
  PROVE  CasesInv'
<1>1. PICK k, r : k = calls[c].case /\ r = [calls[c] EXCEPT !.pc = "write", !.case = k, !.row = cases[k]]
  BY Zenon
<1>2. /\ calls \in [Calls -> Call] /\ calls[c] \in Call /\ k \in Stored /\ k \in CaseIds
      /\ cases[k] \in SupportCase
  BY <1>1 DEF CasesInv, CaseTypeOK, Stored
<1>3. calls' = [calls EXCEPT ![c] = r] /\ UNCHANGED tables
  BY <1>1 DEF Read
<1>4. r \in Call /\ r.pc = "write" /\ r.case = k /\ r.row = cases[k]
  BY <1>1, <1>2, PlaceFacts, Zenon DEF Call
<1>5. calls'[c] = r
  BY <1>2, <1>3
<1>6. k \in Stored' /\ cases' = cases /\ cases[k].version \in Nat
  BY <1>2, <1>3, Zenon DEF Stored, tables, SupportCase
<1>7. Fresh(c)'
  BY <1>2, <1>4, <1>5, <1>6 DEF Fresh
<1>8. CallInv(c)'
  BY <1>4, <1>5, <1>7 DEF CallInv, Kind
<1> QED
  BY <1>3, <1>4, <1>8, MoveKeeps, Zenon

(* A call that has chosen its case. *)
LEMMA ChosenKeeps ==
  ASSUME CasesInv, NEW c \in Calls, NEW k \in Stored, NEW pc \in {"check", "read"},
         pc = "check" => Kind(c) = "assign",
         calls' = [calls EXCEPT ![c] = [calls[c] EXCEPT !.pc = pc, !.case = k]],
         UNCHANGED <<tables, request>>
  PROVE  CasesInv'
<1>1. PICK r : r = [calls[c] EXCEPT !.pc = pc, !.case = k]
  OBVIOUS
<1>2. calls \in [Calls -> Call] /\ calls[c] \in Call /\ k \in CaseIds /\ pc \in Places
  BY PlaceFacts DEF CasesInv, CaseTypeOK, Stored
<1>3. r \in Call /\ r.pc = pc /\ r.case = k
  BY <1>1, <1>2, Zenon DEF Call
<1>4. calls' = [calls EXCEPT ![c] = r] /\ calls'[c] = r
  BY <1>1, <1>2
<1>5. k \in Stored'
  BY DEF Stored, tables
<1>6. CallInv(c)'
  BY <1>3, <1>4, <1>5 DEF CallInv, Kind
<1> QED
  BY <1>3, <1>4, <1>6, MoveKeeps, Zenon

LEMMA change_statusKeeps ==
  ASSUME CasesInv, NEW c \in Calls, change_status(c), UNCHANGED request
  PROVE  CasesInv'
<1>1. PICK k \in Stored :
        \/ Return(c, "not_found") \/ Return(c, "status_unchanged")
        \/ /\ calls' = [calls EXCEPT ![c] = [calls[c] EXCEPT !.pc = "read", !.case = k]]
           /\ UNCHANGED tables
  BY Zenon DEF change_status
<1>2. CASE Return(c, "not_found") \/ Return(c, "status_unchanged")
  <2>1. "not_found" \in Answers /\ "status_unchanged" \in Answers
    BY DEF Answers
  <2> QED
    BY <1>2, <2>1, GotoKeeps
<1>3. CASE /\ calls' = [calls EXCEPT ![c] = [calls[c] EXCEPT !.pc = "read", !.case = k]]
           /\ UNCHANGED tables
  BY <1>3, ChosenKeeps, Zenon
<1> QED
  BY <1>1, <1>2, <1>3

LEMMA ReadForStatusKeeps ==
  ASSUME CasesInv, NEW c \in Calls, ReadForStatus(c), UNCHANGED request
  PROVE  CasesInv'
<1>1. calls[c].case \in Stored
  BY DEF ReadForStatus, At, CasesInv, CallInv
<1>2. \/ Return(c, "not_found") \/ Return(c, "invalid_transition")
      \/ Return(c, "status_unchanged") \/ Read(c, calls[c].case, "write")
  BY DEF ReadForStatus
<1>3. /\ "not_found" \in Answers /\ "invalid_transition" \in Answers
      /\ "status_unchanged" \in Answers
  BY DEF Answers
<1>4. CASE \/ Return(c, "not_found") \/ Return(c, "invalid_transition")
           \/ Return(c, "status_unchanged")
  BY <1>3, <1>4, GotoKeeps
<1>5. CASE Read(c, calls[c].case, "write")
  BY <1>1, <1>5, ReadKeeps
<1> QED
  BY <1>2, <1>4, <1>5

LEMMA assign_caseKeeps ==
  ASSUME CasesInv, NEW c \in Calls, assign_case(c), UNCHANGED request
  PROVE  CasesInv'
<1>1. Kind(c) = "assign"
  BY DEF assign_case
<1>2. PICK k \in Stored :
        \/ Return(c, "status_unchanged")
        \/ /\ calls' = [calls EXCEPT ![c] = [calls[c] EXCEPT !.pc = "check", !.case = k]]
           /\ UNCHANGED tables
  BY Zenon DEF assign_case
<1>3. CASE Return(c, "status_unchanged")
  <2>1. "status_unchanged" \in Answers
    BY DEF Answers
  <2> QED
    BY <1>3, <2>1, GotoKeeps
<1>4. CASE /\ calls' = [calls EXCEPT ![c] = [calls[c] EXCEPT !.pc = "check", !.case = k]]
           /\ UNCHANGED tables
  BY <1>1, <1>4, ChosenKeeps, Zenon
<1> QED
  BY <1>2, <1>3, <1>4

LEMMA CheckTargetKeeps ==
  ASSUME CasesInv, NEW c \in Calls, CheckTarget(c), UNCHANGED request
  PROVE  CasesInv'
<1>1. calls[c].case \in Stored /\ Kind(c) = "assign"
  BY DEF CheckTarget, At, CasesInv, CallInv
<1>2. CASE ~require_assignment_target(c)
  <2>1. Return(c, "target_unavailable") /\ "target_unavailable" \in Answers
    BY <1>2 DEF CheckTarget, Answers
  <2> QED
    BY <2>1, GotoKeeps
<1>3. CASE require_assignment_target(c)
  <2>1. PICK r : r = [calls[c] EXCEPT !.pc = "read"]
    BY Zenon
  <2>2. calls' = [calls EXCEPT ![c] = r] /\ UNCHANGED tables
    BY <1>3, <2>1 DEF CheckTarget, Return, Goto
  <2>3. calls \in [Calls -> Call] /\ calls[c] \in Call
    BY DEF CasesInv, CaseTypeOK
  <2>4. r \in Call /\ r.pc = "read" /\ r.case = calls[c].case
    BY <2>1, <2>3, PlaceFacts DEF Call
  <2>5. calls'[c] = r /\ calls'[c].case \in Stored'
    BY <1>1, <2>2, <2>3, <2>4 DEF Stored, tables
  <2>6. CallInv(c)'
    BY <2>4, <2>5 DEF CallInv, Kind
  <2> QED
    BY <2>2, <2>4, <2>6, MoveKeeps, Zenon
<1> QED
  BY <1>2, <1>3

LEMMA ReadForAssignKeeps ==
  ASSUME CasesInv, NEW c \in Calls, ReadForAssign(c), UNCHANGED request
  PROVE  CasesInv'
<1>1. calls[c].case \in Stored
  BY DEF ReadForAssign, At, CasesInv, CallInv
<1>2. Return(c, "status_unchanged") \/ Read(c, calls[c].case, "write")
  BY DEF ReadForAssign
<1>3. "status_unchanged" \in Answers
  BY DEF Answers
<1> QED
  BY <1>1, <1>2, <1>3, GotoKeeps, ReadKeeps

LEMMA CasesInvStep == CasesInv /\ [Next]_vars => CasesInv'
<1> SUFFICES ASSUME CasesInv, [Next]_vars PROVE CasesInv'
  OBVIOUS
<1>1. CASE UNCHANGED <<cases, history, commands, calls, request>>
  <2>1. CaseTypeOK' /\ KeysUnique'
    BY <1>1 DEF CasesInv, CaseTypeOK, KeysUnique
  <2>2. ASSUME NEW c \in Calls PROVE CallInv(c)'
    BY <1>1, CallKept DEF Grows, Stored
  <2>3. ASSUME NEW k \in CaseIds PROVE CaseInv(k)'
    BY <1>1 DEF CasesInv, CaseInv
  <2> QED
    BY <1>1, <2>1, <2>2, <2>3 DEF CasesInv, Kind
<1>2. ASSUME NEW c \in Calls, Step(c), UNCHANGED request PROVE CasesInv'
  <2>1. CASE FindBySourceMessage(c)
    BY <1>2, <2>1, FindBySourceMessageKeeps
  <2>2. CASE FindUnresolvedCase(c)
    BY <1>2, <2>2, FindUnresolvedCaseKeeps
  <2>3. CASE create_case(c)
    BY <1>2, <2>3, create_caseKeeps
  <2>4. CASE append_trigger(c)
    BY <1>2, <2>4, append_triggerKeeps
  <2>5. CASE move_to_manual_review(c) \/ ensure_technical_review_case(c)
    BY <1>2, <2>5, EnsureReviewKeeps DEF move_to_manual_review, ensure_technical_review_case
  <2>13. CASE finalize_case(c)
    BY <1>2, <2>13, finalize_caseKeeps
  <2>14. CASE finalize_support_case(c) \/ audit_support_case(c) \/ recover_operation(c)
    BY <1>2, <2>14, AuditKeeps
  <2>6. CASE change_status(c)
    BY <1>2, <2>6, change_statusKeeps
  <2>7. CASE ReadForStatus(c)
    BY <1>2, <2>7, ReadForStatusKeeps
  <2>8. CASE WriteStatus(c)
    BY <1>2, <2>8, WriteStatusKeeps
  <2>9. CASE assign_case(c)
    BY <1>2, <2>9, assign_caseKeeps
  <2>10. CASE CheckTarget(c)
    BY <1>2, <2>10, CheckTargetKeeps
  <2>11. CASE ReadForAssign(c)
    BY <1>2, <2>11, ReadForAssignKeeps
  <2>12. CASE WriteAssign(c)
    BY <1>2, <2>12, WriteAssignKeeps
  <2> QED
    BY <1>2, <2>1, <2>2, <2>3, <2>4, <2>5, <2>6, <2>7, <2>8, <2>9, <2>10, <2>11, <2>12, <2>13,
       <2>14 DEF Step
<1> QED
  BY <1>1, <1>2 DEF Next, AgentLeaves, recover_expired_outbox_leases, vars, tables

LEMMA CasesInvInit == Init => CasesInv
<1> SUFFICES ASSUME Init PROVE CasesInv
  OBVIOUS
<1>1. /\ request \in [Calls -> Requests]
      /\ \A c \in Calls : Kind(c) = "handoff" /\ request[c].case_type = "order_operation_review" =>
           request[c].priority # 0
  BY CaseAssumption DEF Init, Kind
<1>2. Idle \in Call
  BY PlaceFacts DEF Idle, Call
<1>3. /\ \A k \in CaseIds : cases[k] = None /\ history[k] = <<>> /\ commands[k] = 0
      /\ \A c \in Calls : calls[c] = Idle
  BY DEF Init
<1>4. CaseTypeOK
  BY <1>1, <1>2 DEF CaseTypeOK, Init
<1>5. \A k \in CaseIds : DOMAIN history[k] = {}
  BY <1>3
<1>6. KeysUnique
  BY <1>5 DEF KeysUnique
<1>7. \A k \in CaseIds : CaseInv(k)
  BY <1>3, <1>5 DEF CaseInv, Acted, Sent
<1>8. \A c \in Calls : CallInv(c)
  BY <1>3 DEF CallInv, Idle
<1> QED
  BY <1>1, <1>4, <1>6, <1>7, <1>8 DEF CasesInv

LEMMA CasesInvariant == Spec => []CasesInv
BY CasesInvInit, CasesInvStep, PTL DEF Spec

-----------------------------------------------------------------------------
(* What the invariant says about the tables. *)

LEMMA Extremes ==
  ASSUME NEW S \in SUBSET Nat
  PROVE  /\ \A p : Lowest(p, S) => p = Min(S)
         /\ \A p : Highest(p, S) => p = Max(S)
<1>1. ASSUME NEW p, Lowest(p, S) PROVE p = Min(S)
  <2>1. \E x \in S : \A y \in S : x <= y
    BY <1>1 DEF Lowest
  <2>2. Min(S) \in S /\ \A y \in S : Min(S) <= y
    BY <2>1, Zenon DEF Min
  <2>3. PICK m : m = Min(S) /\ m \in S /\ \A y \in S : m <= y
    BY <2>2
  <2>4. p \in Nat /\ m \in Nat /\ p <= m /\ m <= p
    BY <1>1, <2>3 DEF Lowest
  <2> QED
    BY <2>3, <2>4
<1>2. ASSUME NEW p, Highest(p, S) PROVE p = Max(S)
  <2>1. \E x \in S : \A y \in S : x >= y
    BY <1>2 DEF Highest
  <2>2. Max(S) \in S /\ \A y \in S : Max(S) >= y
    BY <2>1, Zenon DEF Max
  <2>3. PICK m : m = Max(S) /\ m \in S /\ \A y \in S : m >= y
    BY <2>2
  <2>4. p \in Nat /\ m \in Nat /\ p <= m /\ m <= p
    BY <1>2, <2>3 DEF Highest
  <2> QED
    BY <2>3, <2>4
<1> QED
  BY <1>1, <1>2

LEMMA Ranges ==
  ASSUME NEW h \in Seq(Event)
  PROVE  /\ Reasons(h) = UNION {Added(e) : e \in Range(h)}
         /\ Priorities(h) = {e.priority : e \in {x \in Range(h) : x.priority # None}}
         /\ Risks(h) = {e.risk : e \in Range(h)}
         /\ Priorities(h) \subseteq Nat /\ Risks(h) \subseteq Nat
         /\ (\E e \in Range(h) : e.connected) <=> \E i \in DOMAIN h : h[i].connected
<1>1. \A e : e \in Range(h) <=> \E i \in DOMAIN h : e = h[i]
  BY DEF Range
<1>2. Reasons(h) = UNION {Added(e) : e \in Range(h)}
  <2>1. ASSUME NEW x
        PROVE  x \in Reasons(h) <=> \E i \in DOMAIN h : x \in Added(h[i])
    BY DEF Reasons
  <2>2. ASSUME NEW x
        PROVE  x \in UNION {Added(e) : e \in Range(h)} <=> \E e \in Range(h) : x \in Added(e)
    OBVIOUS
  <2>3. ASSUME NEW x
        PROVE  (\E e \in Range(h) : x \in Added(e)) <=> \E i \in DOMAIN h : x \in Added(h[i])
    BY <1>1, Zenon
  <2> DEFINE U == UNION {Added(e) : e \in Range(h)}
  <2>4. \A x : x \in U <=> x \in Reasons(h)
    BY <2>1, <2>2, <2>3, Zenon
  <2> HIDE DEF U
  <2>5. Reasons(h) = U
    BY <2>4, Zenon
  <2> QED
    BY <2>5 DEF U
<1>3. Priorities(h) = {e.priority : e \in {x \in Range(h) : x.priority # None}}
  <2> DEFINE P == {e.priority : e \in {x \in Range(h) : x.priority # None}}
  <2>1. ASSUME NEW p
        PROVE  p \in P <=> \E e \in Range(h) : e.priority # None /\ p = e.priority
    OBVIOUS
  <2>2. ASSUME NEW p
        PROVE  p \in Priorities(h) <=> \E i \in DOMAIN h : h[i].priority # None /\ p = h[i].priority
    BY DEF Priorities
  <2> HIDE DEF P
  <2>3. ASSUME NEW p
        PROVE  (\E e \in Range(h) : e.priority # None /\ p = e.priority)
                 <=> \E i \in DOMAIN h : h[i].priority # None /\ p = h[i].priority
    <3>1. ASSUME NEW e \in Range(h), e.priority # None, p = e.priority
          PROVE  \E i \in DOMAIN h : h[i].priority # None /\ p = h[i].priority
      BY <1>1, <3>1, Zenon
    <3>2. ASSUME NEW i \in DOMAIN h, h[i].priority # None, p = h[i].priority
          PROVE  \E e \in Range(h) : e.priority # None /\ p = e.priority
      BY <1>1, <3>2, Zenon
    <3> QED
      BY <3>1, <3>2, Zenon
  <2>4. \A p : p \in P <=> p \in Priorities(h)
    BY <2>1, <2>2, <2>3
  <2>5. Priorities(h) = P
    BY <2>4, Zenon
  <2> QED
    BY <2>5 DEF P
<1>4. Risks(h) = {e.risk : e \in Range(h)}
  <2> DEFINE R == {e.risk : e \in Range(h)}
  <2>1. ASSUME NEW p PROVE p \in R <=> \E e \in Range(h) : p = e.risk
    OBVIOUS
  <2>2. ASSUME NEW p PROVE p \in Risks(h) <=> \E i \in DOMAIN h : p = h[i].risk
    BY DEF Risks
  <2> HIDE DEF R
  <2>3. ASSUME NEW p
        PROVE  (\E e \in Range(h) : p = e.risk) <=> \E i \in DOMAIN h : p = h[i].risk
    BY <1>1, Zenon
  <2>4. \A p : p \in R <=> p \in Risks(h)
    BY <2>1, <2>2, <2>3, Zenon
  <2>5. Risks(h) = R
    BY <2>4, Zenon
  <2> QED
    BY <2>5 DEF R
<1>5. \A i \in DOMAIN h : h[i].priority \in (0 .. 3) \cup {None} /\ h[i].risk \in Nat
  <2>1. \A i \in DOMAIN h : h[i] \in Event
    OBVIOUS
  <2> QED
    BY <2>1 DEF Event
<1>6. Priorities(h) \subseteq Nat /\ Risks(h) \subseteq Nat
  BY <1>5 DEF Priorities, Risks
<1>7. (\E e \in Range(h) : e.connected) <=> \E i \in DOMAIN h : h[i].connected
  BY <1>1, Zenon
<1> QED
  BY <1>2, <1>3, <1>4, <1>6, <1>7

(* The row of a case is the sum of its events, whoever wrote them             *)
(* (_append_trigger, change_status and assign_case over                       *)
(* update_case_with_event, move_to_manual_review, _ensure_technical_review_case, *)
(* _finalize_case, finalize_support_case, _insert_case_redrive_event).        *)
THEOREM CaseRowSafety == Spec => []RowIsItsHistory
<1>1. CasesInv => RowIsItsHistory
  <2> SUFFICES ASSUME CasesInv, NEW k \in Stored
               PROVE  LET h == history[k] IN
                      /\ cases[k].version = Cardinality({i \in DOMAIN h : ChangedRow(h, i)})
                      /\ cases[k].reasons = UNION {Added(e) : e \in Range(h)}
                      /\ cases[k].priority = Min({e.priority : e \in {x \in Range(h) : x.priority # None}})
                      /\ cases[k].risk = Max({e.risk : e \in Range(h)})
                      /\ StatusAfter(h, Len(h), cases[k].status)
                      /\ AgentAfter(h, Len(h), cases[k].agent)
    BY Zenon DEF RowIsItsHistory
  <2>1. PICK h : h = history[k] /\ h \in Seq(Event)
    BY DEF CasesInv, CaseTypeOK, Stored
  <2>2. Sums(cases[k], h)
    BY <2>1 DEF CasesInv, CaseInv, Stored
  <2>3. cases[k].reasons = UNION {Added(e) : e \in Range(h)}
    BY <2>1, <2>2, Ranges, Zenon DEF Sums
  <2>4. cases[k].priority = Min(Priorities(h)) /\ cases[k].risk = Max(Risks(h))
    BY <2>1, <2>2, Ranges, Extremes, Zenon DEF Sums
  <2>5. cases[k].priority = Min({e.priority : e \in {x \in Range(h) : x.priority # None}})
    BY <2>1, <2>4, Ranges, Zenon
  <2>6. cases[k].risk = Max({e.risk : e \in Range(h)})
    BY <2>1, <2>4, Ranges, Zenon
  <2>7. /\ cases[k].version = Cardinality({i \in DOMAIN h : ChangedRow(h, i)})
        /\ StatusAfter(h, Len(h), cases[k].status) /\ AgentAfter(h, Len(h), cases[k].agent)
    BY <2>2, Zenon DEF Sums, Changes
  <2> QED
    BY <2>1, <2>3, <2>5, <2>6, <2>7, Zenon
<1> QED
  BY <1>1, CasesInvariant, PTL

(* A handoff that was answered is recorded, and once (find_by_source_message, *)
(* message_idempotency_key, the unique index on it).                          *)
THEOREM CaseHandoffSafety == Spec => []HandoffRecordedOnce
<1>1. CasesInv => HandoffRecordedOnce
  <2> SUFFICES ASSUME CasesInv, NEW c \in Calls, Kind(c) = "handoff"
               PROVE  /\ \A k, l \in Stored : \A i \in DOMAIN history[k], j \in DOMAIN history[l] :
                           /\ OfMessage(c, k, i) /\ history[k][i].key[1] = "message"
                           /\ OfMessage(c, l, j) /\ history[l][j].key[1] = "message"
                           => k = l /\ i = j
                      /\ calls[c].pc \in {"created", "event_appended", "duplicate_ignored"} =>
                           Recorded(c)
    BY DEF HandoffRecordedOnce, Recorded
  <2>1. ASSUME NEW k \in Stored, NEW i \in DOMAIN history[k], OfMessage(c, k, i),
               history[k][i].key[1] = "message"
        PROVE  history[k][i].key = <<"message", request[c].thread, request[c].message>>
    BY <2>1 DEF OfMessage, CasesInv, CaseInv, Stored, Keyed
  <2>2. ASSUME NEW k \in Stored, NEW l \in Stored, NEW i \in DOMAIN history[k],
               NEW j \in DOMAIN history[l],
               OfMessage(c, k, i), history[k][i].key[1] = "message",
               OfMessage(c, l, j), history[l][j].key[1] = "message"
        PROVE  k = l /\ i = j
    BY <2>1, <2>2 DEF CasesInv, KeysUnique, Stored
  <2>3. calls[c].pc \in {"created", "event_appended", "duplicate_ignored"} => Recorded(c)
    BY DEF CasesInv, CallInv
  <2> QED
    BY <2>2, <2>3, Zenon
<1> QED
  BY <1>1, CasesInvariant, PTL

(* A delivery investigation is sent once, with the first trigger that had a   *)
(* connection (append_delivery_trigger_and_ensure_command).                   *)
THEOREM CaseInvestigationSafety == Spec => []InvestigationSentOnce
<1>1. CasesInv => InvestigationSentOnce
  <2> SUFFICES ASSUME CasesInv, NEW k \in CaseIds
               PROVE  commands[k] = IF \E e \in Range(history[k]) : e.connected THEN 1 ELSE 0
    BY DEF InvestigationSentOnce
  <2>1. history[k] \in Seq(Event) /\ Sent(commands[k], history[k])
    BY DEF CasesInv, CaseTypeOK, CaseInv
  <2>2. (\E e \in Range(history[k]) : e.connected) <=> \E i \in DOMAIN history[k] : history[k][i].connected
    BY <2>1, Ranges
  <2> QED
    BY <2>1, <2>2 DEF Sent
<1> QED
  BY <1>1, CasesInvariant, PTL

(* An agent changes only a case that is theirs at the moment of the write     *)
(* (case_visibility, the version in the UPDATE).                              *)
THEOREM CaseAgentSafety == Spec => []AgentsActOnTheirCases
<1>1. CasesInv => AgentsActOnTheirCases
  BY DEF CasesInv, CaseInv, Acted, AgentsActOnTheirCases
<1> QED
  BY <1>1, CasesInvariant, PTL

-----------------------------------------------------------------------------
(* What CaseAssumption takes from the handoff policy. *)

Types ==
  {"safety_review", "staff_conduct_complaint", "business_escalation", "refund_review",
   "order_operation_review", "delivery_investigation", "general_support", "other_complaint"}

LEMMA UrgentReasons ==
  ASSUME NEW r \in HandoffReason
  PROVE  /\ ReasonPriority(r) \in 0 .. 3 /\ ReasonCaseType(r) \in Types
         /\ ReasonPriority(r) = 0 =>
              ReasonCaseType(r) \in {"safety_review", "staff_conduct_complaint"}
<1>1. CASE r[1] = "hard_critical"
  <2>1. ReasonPriority(r) = IF SafetyReason(r) THEN 0 ELSE 1
    BY <1>1 DEF ReasonPriority
  <2>2. ReasonCaseType(r) = IF SafetyReason(r) THEN "safety_review" ELSE "business_escalation"
    BY <1>1 DEF ReasonCaseType, OrderReviewReasons, DeliveryReasons
  <2> QED
    BY <2>1, <2>2 DEF Types
<1>2. CASE r[1] = "semantic"
  <2>1. ReasonPriority(r) = IF r[2] = "medium" THEN 2 ELSE IF SafetyReason(r) THEN 0 ELSE 1
    BY <1>2 DEF ReasonPriority
  <2>2. ReasonCaseType(r) = IF SafetyReason(r) THEN "safety_review" ELSE "business_escalation"
    BY <1>2 DEF ReasonCaseType, OrderReviewReasons, DeliveryReasons
  <2> QED
    BY <2>1, <2>2 DEF Types
<1>3. ASSUME r[1] = "staff_conduct", r[2] \in {"critical", "high", "medium", "low"}
      PROVE  ReasonPriority(r) \in 0 .. 3 /\ ReasonCaseType(r) = "staff_conduct_complaint"
  <2>1. ReasonPriority(r) = CASE r[2] = "critical" -> 0
                              [] r[2] \in {"high", "medium"} -> 1
                              [] r[2] = "low" -> 2
    BY <1>3 DEF ReasonPriority
  <2>2. ReasonPriority(r) \in 0 .. 3
    BY <1>3, <2>1
  <2>3. ReasonCaseType(r) = "staff_conduct_complaint"
    BY <1>3 DEF ReasonCaseType, OrderReviewReasons, DeliveryReasons
  <2> QED
    BY <2>2, <2>3
<1>4. ASSUME r[1] \in {"refund_manual_review", "confirmed_human_request",
                       "explicit_other_complaint"} \cup OrderReviewReasons \cup DeliveryReasons
      PROVE  ReasonPriority(r) \in 1 .. 3 /\ ReasonCaseType(r) \in Types
  <2>1. r[1] \notin {"hard_critical", "semantic", "staff_conduct"}
    BY <1>4 DEF OrderReviewReasons, DeliveryReasons
  <2>2. ReasonPriority(r) \in 1 .. 3
    BY <2>1 DEF ReasonPriority
  <2>3. ReasonCaseType(r) \in Types
    BY <1>4, <2>1 DEF ReasonCaseType, Types
  <2> QED
    BY <2>2, <2>3
<1>5. \/ r[1] = "hard_critical" \/ r[1] = "semantic"
      \/ r[1] = "staff_conduct" /\ r[2] \in {"critical", "high", "medium", "low"}
      \/ r[1] \in {"refund_manual_review", "confirmed_human_request",
                   "explicit_other_complaint"} \cup OrderReviewReasons \cup DeliveryReasons
  BY DEF HandoffReason, DomainReasons
<1> QED
  BY <1>1, <1>2, <1>3, <1>4, <1>5 DEF Types

(* The handoff policy never makes a review of an operation a p0 case: the     *)
(* reasons that are p0 give the case another type (determine_handoff_policy,  *)
(* _CASE_TYPE_RANK).                                                          *)
THEOREM ReviewsAreNeverP0 ==
  ASSUME NEW reasons \in SUBSET HandoffReason, reasons # {},
         PrimaryType(reasons) = "order_operation_review"
  PROVE  MostUrgent(reasons) # 0
<1> DEFINE P == {ReasonPriority(r) : r \in reasons}
           R == {CaseTypeRank(ReasonCaseType(r)) : r \in reasons}
<1> SUFFICES ASSUME MostUrgent(reasons) = 0 PROVE FALSE
  OBVIOUS
<1>1. P \subseteq 0 .. 3 /\ P # {} /\ Min(P) = 0
  BY UrgentReasons DEF MostUrgent
<1>2. PICK r \in reasons : ReasonPriority(r) = 0
  <2> HIDE DEF P
  <2>1. \E x \in P : \A y \in P : x <= y
    <3>1. CASE 0 \in P
      BY <1>1, <3>1
    <3>2. CASE 0 \notin P /\ 1 \in P
      BY <1>1, <3>2
    <3>3. CASE 0 \notin P /\ 1 \notin P /\ 2 \in P
      BY <1>1, <3>3
    <3>4. CASE 0 \notin P /\ 1 \notin P /\ 2 \notin P
      <4>1. \A x \in P : x = 3
        BY <1>1, <3>4
      <4>2. PICK x \in P : TRUE
        BY <1>1, Zenon
      <4> QED
        BY <4>1, <4>2
    <3> QED
      BY <3>1, <3>2, <3>3, <3>4
  <2>2. Min(P) \in P
    BY <2>1, Zenon DEF Min
  <2> QED
    BY <1>1, <2>2 DEF P
<1>3. /\ DOMAIN CASE_TYPES = 1 .. 8 /\ CASE_TYPES[1] = "safety_review"
      /\ CASE_TYPES[2] = "staff_conduct_complaint"
      /\ \A i \in 3 .. 8 : CASE_TYPES[i] \notin {"safety_review", "staff_conduct_complaint"}
      /\ \A t \in Types : \E i \in 1 .. 8 : CASE_TYPES[i] = t
  BY DEF CASE_TYPES, Types
<1>4. \A t \in Types : CaseTypeRank(t) \in 1 .. 8 /\ CASE_TYPES[CaseTypeRank(t)] = t
  BY <1>3, Zenon DEF CaseTypeRank
<1>5. CaseTypeRank("safety_review") = 1 /\ CaseTypeRank("staff_conduct_complaint") = 2
  <2>1. "safety_review" \in Types /\ "staff_conduct_complaint" \in Types
    BY DEF Types
  <2>2. \A i \in 1 .. 8 : i = 1 \/ i = 2 \/ i \in 3 .. 8
    OBVIOUS
  <2> QED
    BY <1>3, <1>4, <2>1, <2>2
<1>6. R \subseteq 1 .. 8 /\ (1 \in R \/ 2 \in R)
  BY <1>2, <1>4, <1>5, UrgentReasons
<1>7. PrimaryType(reasons) = CASE_TYPES[Min(R)]
  BY DEF PrimaryType
<1> HIDE DEF P, R
<1>8. \E x \in R : \A y \in R : x <= y
  <2>1. CASE 1 \in R
    BY <1>6, <2>1
  <2>2. CASE 1 \notin R /\ 2 \in R
    BY <1>6, <2>2
  <2> QED
    BY <1>6, <2>1, <2>2
<1>9. Min(R) \in R /\ \A y \in R : Min(R) <= y
  BY <1>8, Zenon DEF Min
<1>10. Min(R) = 1 \/ Min(R) = 2
  <2>1. PICK m : m = Min(R) /\ m \in R /\ \A y \in R : m <= y
    BY <1>9
  <2>2. m \in 1 .. 8 /\ (m <= 1 \/ m <= 2)
    BY <1>6, <2>1
  <2> QED
    BY <2>1, <2>2
<1> QED
  BY <1>3, <1>7, <1>10
=============================================================================

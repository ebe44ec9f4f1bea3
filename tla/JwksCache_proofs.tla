-------------------------- MODULE JwksCache_proofs --------------------------
(* The safety of the signing-key cache for every number of calls, every set   *)
(* of keys, every time to live and every bound on a fetch.                    *)
EXTENDS JwksCache, TLAPS

Waiting == {"waiting", "refreshing"}
Observations == {<<"failed">>} \cup {<<"lacked", k>> : k \in Kids}

TypeInv ==
  /\ JwksTypeOK
  /\ fetch \in [pc : {"none", "sent", "read"}, age : 0 .. FETCH, keys : SUBSET Kids]
  /\ DOMAIN during = Calls

(* One call holds the lock, and its observed generation is the current one. *)
LockInv ==
  /\ lock = {} <=> fetch.pc = "none"
  /\ \A c, d \in lock : c = d
  /\ \A c \in lock : kid[c] \in Kids => call[c].observed = generation

(* What a waiting call has seen of the refreshes since it began. *)
SeenInv ==
  \A c \in Calls :
    /\ call[c].pc = "idle" => during[c] = {}
    /\ call[c].pc \in Waiting /\ kid[c] \in Kids =>
         /\ call[c].observed <= generation
         /\ call[c].observed = generation => during[c] \cap Observations = {}
         /\ call[c].observed # generation =>
              IF last_refresh_failed THEN <<"failed">> \in during[c]
              ELSE /\ \A k \in Kids \ keys : <<"lacked", k>> \in during[c]
                   /\ ttl > 0 \/ <<"expired">> \in during[c]

(* How long ago a key that is trusted, or is about to be, was withdrawn. *)
AgeInv ==
  /\ \A k \in published : gone[k] = 0
  /\ fetch.pc = "read" => \A k \in fetch.keys : gone[k] <= fetch.age
  /\ ttl > 0 => \A k \in keys : gone[k] + ttl <= TTL + FETCH

JwksInv == TypeInv /\ LockInv /\ SeenInv /\ AgeInv /\ AnswersJustified

USE JwksAssumption

LEMMA InitInv == Init => JwksInv
<1> SUFFICES ASSUME Init PROVE JwksInv
  OBVIOUS
<1>1. TypeInv
  <2>1. gone \in [Kids -> 0 .. TTL + FETCH]
    BY DEF Init
  <2>2. call \in [Calls -> [pc : {"idle", "waiting", "refreshing"} \cup Answers, observed : Nat]]
    BY DEF Init
  <2>3. fetch \in [pc : {"none", "sent", "read"}, age : 0 .. FETCH, keys : SUBSET Kids]
    BY DEF Init, NoFetch
  <2>4. last_refresh_failed \in BOOLEAN
    BY Zenon DEF Init
  <2>5. \A c \in Calls : c \in lock <=> call[c].pc = "refreshing"
    BY Zenon DEF Init
  <2>6. fetch.age \in 0 .. FETCH /\ fetch.keys \subseteq Kids /\ DOMAIN during = Calls
    BY <2>3 DEF Init
  <2>7. ttl \in 0 .. TTL /\ generation \in Nat
    BY DEF Init
  <2>8. published \subseteq Kids /\ keys \subseteq Kids /\ lock \subseteq Calls
    BY DEF Init
  <2> QED
    BY <2>1, <2>2, <2>3, <2>4, <2>5, <2>6, <2>7, <2>8 DEF TypeInv, JwksTypeOK
<1>2. LockInv /\ SeenInv
  BY DEF Init, LockInv, SeenInv, NoFetch, Waiting
<1>3. AgeInv /\ AnswersJustified
  BY DEF Init, AgeInv, AnswersJustified, NoFetch
<1> QED
  BY <1>1, <1>2, <1>3 DEF JwksInv

(* Every action leaves the state well typed, and the lock with the call that  *)
(* refreshes.                                                                 *)
LEMMA TypeStep == JwksInv /\ [Next]_vars => TypeInv'
<1> SUFFICES ASSUME JwksInv, [Next]_vars PROVE TypeInv'
  OBVIOUS
<1> USE DEF JwksInv, TypeInv, JwksTypeOK, Answers, NoFetch
<1>1. ASSUME NEW c \in Calls, get_signing_key(c) PROVE TypeInv'
  BY <1>1 DEF get_signing_key, cache
<1>2. ASSUME NEW c \in Calls, refresh(c) PROVE TypeInv'
  BY <1>2 DEF refresh, cache, Become
<1>3. ASSUME NEW c \in Calls, LockAcquired(c) PROVE TypeInv'
  <2>1. CASE Refreshes(c)
    BY <1>3, <2>1 DEF LockAcquired, cache, Become
  <2>2. CASE ~Refreshes(c)
    BY <1>3, <2>2 DEF LockAcquired, cache, Become, Cached
  <2> QED
    BY <2>1, <2>2
<1>4. ASSUME NEW c \in Calls, DocumentArrives(c) PROVE TypeInv'
  <2>1. call' \in [Calls -> [pc : {"idle", "waiting", "refreshing"} \cup Answers, observed : Nat]]
    BY <1>4 DEF DocumentArrives, Become
  <2>2. \A d \in Calls : call'[d].pc # "refreshing"
    BY <1>4 DEF DocumentArrives, Become, LockInv
  <2>3. last_refresh_failed' \in BOOLEAN /\ DOMAIN during' = Calls /\ lock' = {}
    BY <1>4, Zenon DEF DocumentArrives, Witness
  <2>4. generation' \in Nat /\ ttl' \in 0 .. TTL /\ gone' = gone
    BY <1>4 DEF DocumentArrives, NextGeneration
  <2>5. keys' \subseteq Kids /\ published' \subseteq Kids
    BY <1>4 DEF DocumentArrives
  <2>6. fetch' \in [pc : {"none", "sent", "read"}, age : 0 .. FETCH, keys : SUBSET Kids]
    BY <1>4 DEF DocumentArrives
  <2> QED
    BY <2>1, <2>2, <2>3, <2>4, <2>5, <2>6
<1>5. ASSUME NEW c \in Calls, RefreshFails(c) PROVE TypeInv'
  BY <1>5 DEF RefreshFails, Become, Witness, NextGeneration, LockInv
<1>6. ASSUME NEW c \in Calls, Cancelled(c) PROVE TypeInv'
  BY <1>6 DEF Cancelled, cache, Become, Pending
<1>7. CASE EndpointReads
  BY <1>7, Zenon DEF EndpointReads, cache
<1>8. ASSUME NEW k \in Kids, Publishes(k) \/ Withdraws(k) PROVE TypeInv'
  BY <1>8 DEF Publishes, Withdraws, cache
<1>9. CASE Tick
  <2>1. gone' \in [Kids -> 0 .. TTL + FETCH]
    <3>1. gone \in [Kids -> 0 .. TTL + FETCH]
      OBVIOUS
    <3>2. gone' = [k \in Kids |-> IF k \in published \/ gone[k] = TTL + FETCH THEN gone[k]
                                  ELSE gone[k] + 1]
      BY <1>9 DEF Tick
    <3>3. \A k \in Kids : gone[k] # TTL + FETCH => gone[k] + 1 \in 0 .. TTL + FETCH
      BY <3>1
    <3> HIDE DEF JwksInv
    <3> QED
      BY <3>1, <3>2, <3>3
  <2>2. fetch' \in [pc : {"none", "sent", "read"}, age : 0 .. FETCH, keys : SUBSET Kids]
    BY <1>9 DEF Tick
  <2> QED
    BY <1>9, <2>1, <2>2 DEF Tick, Witness
<1>10. CASE UNCHANGED vars
  BY <1>10 DEF vars
<1> QED
  BY <1>1, <1>2, <1>3, <1>4, <1>5, <1>6, <1>7, <1>8, <1>9, <1>10 DEF Next, Serve

(* The lock changes hands with the fetch, and the generation only moves when  *)
(* the lock is given back.                                                    *)
LEMMA LockStep == JwksInv /\ [Next]_vars => LockInv'
<1> SUFFICES ASSUME JwksInv, [Next]_vars PROVE LockInv'
  OBVIOUS
<1>0. TypeInv /\ LockInv
  BY DEF JwksInv
<1> USE <1>0 DEF TypeInv, JwksTypeOK, LockInv, NoFetch
<1>1. ASSUME NEW c \in Calls, get_signing_key(c) PROVE LockInv'
  BY <1>1 DEF get_signing_key, cache
<1>2. ASSUME NEW c \in Calls, refresh(c) PROVE LockInv'
  BY <1>2 DEF refresh, cache, Become
<1>3. ASSUME NEW c \in Calls, LockAcquired(c) PROVE LockInv'
  <2>1. CASE Refreshes(c)
    <3>1. lock' = {c} /\ fetch'.pc = "sent" /\ generation' = generation
      BY <1>3, <2>1 DEF LockAcquired, cache
    <3>2. call'[c].observed = call[c].observed
      BY <1>3, <2>1 DEF LockAcquired, Become
    <3>3. kid[c] \in Kids => generation = call[c].observed
      BY <2>1 DEF Refreshes
    <3> QED
      BY <3>1, <3>2, <3>3
  <2>2. CASE ~Refreshes(c)
    BY <1>3, <2>2 DEF LockAcquired, cache, Become
  <2> QED
    BY <2>1, <2>2
<1>4. ASSUME NEW c \in Calls, DocumentArrives(c) \/ RefreshFails(c) PROVE LockInv'
  BY <1>4 DEF DocumentArrives, RefreshFails
<1>5. ASSUME NEW c \in Calls, Cancelled(c) PROVE LockInv'
  BY <1>5 DEF Cancelled, cache, Become
<1>6. CASE EndpointReads
  BY <1>6 DEF EndpointReads, cache
<1>7. ASSUME NEW k \in Kids, Publishes(k) \/ Withdraws(k) PROVE LockInv'
  BY <1>7 DEF Publishes, Withdraws, cache
<1>8. CASE Tick
  BY <1>8 DEF Tick
<1>9. CASE UNCHANGED vars
  BY <1>9 DEF vars
<1> QED
  BY <1>1, <1>2, <1>3, <1>4, <1>5, <1>6, <1>7, <1>8, <1>9 DEF Next, Serve

(* A trusted key was withdrawn no longer ago than its time to live and the    *)
(* fetch that brought it.                                                     *)
LEMMA AgeStep == JwksInv /\ [Next]_vars => AgeInv'
<1> SUFFICES ASSUME JwksInv, [Next]_vars PROVE AgeInv'
  OBVIOUS
<1>0. TypeInv /\ AgeInv
  BY DEF JwksInv
<1> USE <1>0 DEF TypeInv, JwksTypeOK, AgeInv, NoFetch
<1>1. ASSUME NEW c \in Calls, get_signing_key(c) \/ refresh(c) PROVE AgeInv'
  BY <1>1 DEF get_signing_key, refresh, cache
<1>2. ASSUME NEW c \in Calls, LockAcquired(c) PROVE AgeInv'
  BY <1>2 DEF LockAcquired, cache
<1>3. ASSUME NEW c \in Calls, DocumentArrives(c) PROVE AgeInv'
  BY <1>3 DEF DocumentArrives
<1>4. ASSUME NEW c \in Calls, RefreshFails(c) PROVE AgeInv'
  BY <1>4 DEF RefreshFails
<1>5. ASSUME NEW c \in Calls, Cancelled(c) PROVE AgeInv'
  BY <1>5 DEF Cancelled, cache
<1>6. CASE EndpointReads
  BY <1>6 DEF EndpointReads, cache
<1>7. ASSUME NEW k \in Kids, Publishes(k) PROVE AgeInv'
  BY <1>7 DEF Publishes, cache
<1>8. ASSUME NEW k \in Kids, Withdraws(k) PROVE AgeInv'
  BY <1>8 DEF Withdraws, cache
<1>9. CASE Tick
  <2>1. \A k \in Kids : gone'[k] <= gone[k] + 1 /\ gone'[k] \in Nat
    BY <1>9 DEF Tick
  <2>2. \A k \in published' : gone'[k] = 0
    BY <1>9 DEF Tick
  <2>3. fetch'.pc = "read" => \A k \in fetch'.keys : gone'[k] <= fetch'.age
    BY <1>9, <2>1 DEF Tick
  <2>4. ttl' > 0 => \A k \in keys' : gone'[k] + ttl' <= TTL + FETCH
    <3>1. ttl' > 0 => ttl = ttl' + 1 /\ keys' = keys /\ ttl' \in Nat
      BY <1>9 DEF Tick
    <3> QED
      BY <2>1, <3>1
  <2> QED
    BY <2>2, <2>3, <2>4
<1>10. CASE UNCHANGED vars
  BY <1>10 DEF vars
<1> QED
  BY <1>1, <1>2, <1>3, <1>4, <1>5, <1>6, <1>7, <1>8, <1>9, <1>10 DEF Next, Serve

(* What one call has seen, one conjunct of SeenInv. *)
Seen(c) ==
  /\ call[c].pc = "idle" => during[c] = {}
  /\ call[c].pc \in Waiting /\ kid[c] \in Kids =>
       /\ call[c].observed <= generation
       /\ call[c].observed = generation => during[c] \cap Observations = {}
       /\ call[c].observed # generation =>
            IF last_refresh_failed THEN <<"failed">> \in during[c]
            ELSE /\ \A k \in Kids \ keys : <<"lacked", k>> \in during[c]
                 /\ ttl > 0 \/ <<"expired">> \in during[c]

LEMMA SeenEach == SeenInv <=> \A c \in Calls : Seen(c)
  BY DEF SeenInv, Seen

(* A step of another call that leaves the cache alone changes nothing of what *)
(* a call has seen.                                                           *)
LEMMA SeenKept ==
  ASSUME SeenInv, NEW d \in Calls, UNCHANGED <<cache, during>>,
         call'[d] = call[d] \/ call'[d].pc \in Answers
  PROVE  Seen(d)'
<1>1. Seen(d)
  BY SeenEach
<1>2. CASE call'[d] = call[d]
  BY <1>1, <1>2 DEF Seen, cache
<1>3. CASE call'[d].pc \in Answers
  BY <1>3 DEF Seen, Answers, Waiting
<1> QED
  BY <1>2, <1>3

LEMMA SeenStep == JwksInv /\ [Next]_vars => SeenInv'
<1> SUFFICES ASSUME JwksInv, [Next]_vars, NEW d \in Calls PROVE Seen(d)'
  BY DEF SeenInv, Seen
<1>0. TypeInv /\ LockInv /\ SeenInv /\ Seen(d)
  BY SeenEach DEF JwksInv
<1>t. call \in [Calls -> [pc : {"idle", "waiting", "refreshing"} \cup Answers, observed : Nat]]
  BY <1>0 DEF TypeInv, JwksTypeOK
<1>1. ASSUME NEW c \in Calls, get_signing_key(c) PROVE Seen(d)'
  <2>1. CASE c # d
    BY <1>0, <1>t, <1>1, <2>1, SeenKept DEF get_signing_key
  <2>2. CASE c = d
    <3>1. during'[d] = {} /\ call'[d].observed = generation' /\ generation' \in Nat
      BY <1>0, <1>t, <1>1, <2>2 DEF get_signing_key, Seen, cache, TypeInv, JwksTypeOK
    <3>2. call'[d].pc # "idle"
      BY <1>t, <1>1, <2>2 DEF get_signing_key
    <3> QED
      BY <3>1, <3>2 DEF Seen
  <2> QED
    BY <2>1, <2>2
<1>2. ASSUME NEW c \in Calls, refresh(c) PROVE Seen(d)'
  <2>1. CASE c # d
    BY <1>0, <1>t, <1>2, <2>1, SeenKept DEF refresh, Become
  <2>2. CASE c = d
    BY <1>t, <1>2, <2>2 DEF refresh, Become, Seen
  <2> QED
    BY <2>1, <2>2
<1>3. ASSUME NEW c \in Calls, LockAcquired(c) PROVE Seen(d)'
  <2>1. call'[d] = call[d] \/ call'[d].pc \in Answers \/ (c = d /\ Refreshes(c))
    BY <1>t, <1>3 DEF LockAcquired, Become, Cached, Answers
  <2>2. CASE c = d /\ Refreshes(c)
    <3>1. call'[d].pc = "refreshing" /\ call'[d].observed = call[d].observed
          /\ call[d].pc = "waiting"
      BY <1>t, <1>3, <2>2 DEF LockAcquired, Become
    <3> QED
      BY <1>0, <1>3, <2>2, <3>1 DEF LockAcquired, Seen, Waiting, cache
  <2> QED
    BY <1>0, <1>3, <2>1, <2>2, SeenKept DEF LockAcquired
<1>4. ASSUME NEW c \in Calls, Cancelled(c) PROVE Seen(d)'
  <2>1. call'[d] = call[d] \/ call'[d].pc \in Answers
    BY <1>t, <1>4 DEF Cancelled, Become, Answers
  <2> QED
    BY <1>0, <1>4, <2>1, SeenKept DEF Cancelled
<1>5. ASSUME NEW c \in Calls, DocumentArrives(c) PROVE Seen(d)'
  <2>1. call'[d] = call[d] \/ call'[d].pc \in Answers
    BY <1>t, <1>5 DEF DocumentArrives, Become, Answers
  <2>2. CASE call'[d].pc \in Answers
    BY <2>2 DEF Seen, Answers, Waiting
  <2>3. CASE call'[d] = call[d] /\ call[d].pc = "idle"
    BY <1>0, <1>5, <2>3 DEF DocumentArrives, Witness, Pending, Seen, Waiting
  <2>4. CASE call'[d] = call[d] /\ call[d].pc \in Waiting
    <3>1. \A k \in Kids \ keys' : <<"lacked", k>> \in during'[d]
      BY <1>5, <2>4 DEF DocumentArrives, Witness, Pending, Waiting, Answers
    <3>2. kid[d] \in Kids => call'[d].observed < generation'
      BY <1>0, <1>5, <2>4 DEF DocumentArrives, NextGeneration, Seen, TypeInv, JwksTypeOK
    <3>3. ~last_refresh_failed' /\ ttl' > 0
      BY <1>5 DEF DocumentArrives
    <3>4. call[d].observed \in Nat /\ generation' \in Nat
      BY <1>0, <1>t, <1>5 DEF DocumentArrives, NextGeneration, TypeInv, JwksTypeOK
    <3> QED
      BY <2>4, <3>1, <3>2, <3>3, <3>4 DEF Seen, Waiting
  <2> QED
    BY <1>t, <2>1, <2>2, <2>3, <2>4 DEF Waiting
<1>6. ASSUME NEW c \in Calls, RefreshFails(c) PROVE Seen(d)'
  <2>1. call'[d] = call[d] \/ call'[d].pc \in Answers
    BY <1>t, <1>6 DEF RefreshFails, Become, Answers
  <2>2. CASE call'[d].pc \in Answers
    BY <2>2 DEF Seen, Answers, Waiting
  <2>3. CASE call'[d] = call[d] /\ call[d].pc = "idle"
    BY <1>0, <1>6, <2>3 DEF RefreshFails, Witness, Pending, Seen, Waiting
  <2>4. CASE call'[d] = call[d] /\ call[d].pc \in Waiting
    <3>1. <<"failed">> \in during'[d] /\ last_refresh_failed'
      BY <1>6, <2>4 DEF RefreshFails, Witness, Pending, Waiting, Answers
    <3>2. kid[d] \in Kids => call'[d].observed < generation'
      BY <1>0, <1>6, <2>4 DEF RefreshFails, NextGeneration, Seen, TypeInv, JwksTypeOK
    <3>3. call[d].observed \in Nat /\ generation' \in Nat
      BY <1>0, <1>t, <1>6 DEF RefreshFails, NextGeneration, TypeInv, JwksTypeOK
    <3> QED
      BY <2>4, <3>1, <3>2, <3>3 DEF Seen, Waiting
  <2> QED
    BY <1>t, <2>1, <2>2, <2>3, <2>4 DEF Waiting
<1>7. CASE Tick
  <2>1. call'[d] = call[d] /\ generation' = generation /\ keys' = keys
        /\ last_refresh_failed' = last_refresh_failed
    BY <1>7 DEF Tick
  <2>2. during[d] \subseteq during'[d] /\ during'[d] \subseteq during[d] \cup {<<"expired">>}
    BY <1>7 DEF Tick, Witness
  <2>3. call[d].pc = "idle" => during'[d] = during[d]
    BY <1>7 DEF Tick, Witness, Pending
  <2>4. <<"expired">> \notin Observations
    BY DEF Observations
  <2>5. during[d] \cap Observations = {} => during'[d] \cap Observations = {}
    BY <2>2, <2>4
  <2>6. call[d].pc \in Waiting /\ (ttl > 0 \/ <<"expired">> \in during[d]) =>
          ttl' > 0 \/ <<"expired">> \in during'[d]
    <3>1. ttl \in Nat
      BY <1>0 DEF TypeInv, JwksTypeOK
    <3>2. CASE ttl = 1 /\ call[d].pc \in Waiting
      BY <1>7, <3>2 DEF Tick, Witness, Pending, Waiting, Answers
    <3>3. CASE ttl # 1 /\ ttl > 0
      BY <1>7, <3>1, <3>3 DEF Tick
    <3> QED
      BY <2>2, <3>1, <3>2, <3>3
  <2> QED
    BY <1>0, <2>1, <2>2, <2>3, <2>5, <2>6 DEF Seen
<1>8. CASE EndpointReads \/ \E k \in Kids : Publishes(k) \/ Withdraws(k)
  BY <1>0, <1>8, SeenKept DEF EndpointReads, Publishes, Withdraws
<1>9. CASE UNCHANGED vars
  BY <1>0, <1>9, SeenKept DEF vars, cache
<1> QED
  BY <1>1, <1>2, <1>3, <1>4, <1>5, <1>6, <1>7, <1>8, <1>9 DEF Next, Serve

(* What one call is told, one conjunct of AnswersJustified. *)
Justified(c) ==
  /\ call[c].pc = "unknown" => <<"lacked", kid[c]>> \in during[c]
  /\ call[c].pc = "unavailable" => during[c] \cap {<<"failed">>, <<"expired">>} # {}

LEMMA JustifiedEach == AnswersJustified <=> \A c \in Calls : Justified(c)
  BY DEF AnswersJustified, Justified

LEMMA AnswerStep == JwksInv /\ [Next]_vars => AnswersJustified'
<1> SUFFICES ASSUME JwksInv, [Next]_vars, NEW d \in Calls PROVE Justified(d)'
  BY DEF AnswersJustified, Justified
<1>0. TypeInv /\ LockInv /\ Seen(d) /\ Justified(d)
  BY SeenEach, JustifiedEach DEF JwksInv
<1>t. /\ call \in [Calls -> [pc : {"idle", "waiting", "refreshing"} \cup Answers, observed : Nat]]
      /\ DOMAIN during = Calls
  BY <1>0 DEF TypeInv, JwksTypeOK
<1>k. ASSUME call'[d].pc \notin {"unknown", "unavailable"} PROVE Justified(d)'
  BY <1>k DEF Justified
<1>s. ASSUME call'[d].pc = call[d].pc, during[d] \subseteq during'[d] PROVE Justified(d)'
  BY <1>0, <1>s DEF Justified
<1>1. ASSUME NEW c \in Calls, get_signing_key(c) \/ refresh(c) \/ Cancelled(c)
      PROVE  Justified(d)'
  <2>1. call'[d].pc = call[d].pc \/ call'[d].pc \in {"key", "waiting", "cancelled"}
    BY <1>t, <1>1 DEF get_signing_key, refresh, Cancelled, Become
  <2>2. during' = during
    BY <1>1 DEF get_signing_key, refresh, Cancelled
  <2> QED
    BY <1>k, <1>s, <2>1, <2>2
<1>2. ASSUME NEW c \in Calls, LockAcquired(c) PROVE Justified(d)'
  <2>1. during' = during
    BY <1>2 DEF LockAcquired
  <2>2. CASE c # d
    BY <1>t, <1>2, <1>s, <2>1, <2>2 DEF LockAcquired, Become
  <2>3. CASE c = d /\ Refreshes(c)
    <3>1. call'[d].pc = "refreshing"
      BY <1>t, <1>2, <2>3 DEF LockAcquired, Become
    <3> QED
      BY <1>k, <3>1
  <2>4. CASE c = d /\ ~Refreshes(c)
    <3>1. call'[d].pc = Cached(d)
      BY <1>t, <1>2, <2>4 DEF LockAcquired, Become
    <3>2. kid[d] \in Kids /\ (Hit(d) \/ generation # call[d].observed) /\ call[d].pc \in Waiting
      BY <1>2, <2>4 DEF LockAcquired, Refreshes, Waiting
    <3>3. CASE Hit(d)
      BY <1>k, <3>1, <3>3 DEF Cached
    <3>4. CASE ~Hit(d) /\ last_refresh_failed
      <4>1. call'[d].pc = "unavailable"
        BY <3>1, <3>4 DEF Cached
      <4>2. <<"failed">> \in during'[d]
        BY <1>0, <2>1, <3>2, <3>4 DEF Seen
      <4> QED
        BY <4>1, <4>2 DEF Justified
    <3>5. CASE ~Hit(d) /\ ~last_refresh_failed /\ kid[d] \in keys
      <4>1. call'[d].pc = "unavailable"
        BY <3>1, <3>5 DEF Cached
      <4>2. ~(ttl > 0)
        BY <3>5 DEF Hit
      <4>3. <<"expired">> \in during'[d]
        BY <1>0, <2>1, <3>2, <3>5, <4>2 DEF Seen
      <4> QED
        BY <4>1, <4>3 DEF Justified
    <3>6. CASE ~Hit(d) /\ ~last_refresh_failed /\ kid[d] \notin keys
      <4>1. call'[d].pc = "unknown"
        BY <3>1, <3>6 DEF Cached
      <4>2. <<"lacked", kid[d]>> \in during'[d]
        BY <1>0, <2>1, <3>2, <3>6 DEF Seen
      <4> QED
        BY <4>1, <4>2 DEF Justified
    <3> QED
      BY <3>3, <3>4, <3>5, <3>6
  <2> QED
    BY <2>2, <2>3, <2>4
<1>3. ASSUME NEW c \in Calls, DocumentArrives(c) PROVE Justified(d)'
  <2>1. during[d] \subseteq during'[d]
    BY <1>3 DEF DocumentArrives, Witness
  <2>2. CASE c # d
    BY <1>t, <1>3, <1>s, <2>1, <2>2 DEF DocumentArrives, Become
  <2>3. CASE c = d
    <3>1. call'[d].pc \in {"key", "unknown"}
      BY <1>t, <1>3, <2>3 DEF DocumentArrives, Become
    <3>2. call'[d].pc = "unknown" => kid[d] \in Kids \ fetch.keys
      BY <1>t, <1>3, <2>3 DEF DocumentArrives, Become
    <3>3. \A k \in Kids \ fetch.keys : <<"lacked", k>> \in during'[d]
      BY <1>3, <2>3 DEF DocumentArrives, Witness, Pending, Answers
    <3> QED
      BY <3>1, <3>2, <3>3 DEF Justified
  <2> QED
    BY <2>2, <2>3
<1>4. ASSUME NEW c \in Calls, RefreshFails(c) PROVE Justified(d)'
  <2>1. during[d] \subseteq during'[d]
    BY <1>4 DEF RefreshFails, Witness
  <2>2. CASE c # d
    BY <1>t, <1>4, <1>s, <2>1, <2>2 DEF RefreshFails, Become
  <2>3. CASE c = d
    <3>1. call'[d].pc = "unavailable"
      BY <1>t, <1>4, <2>3 DEF RefreshFails, Become
    <3>2. <<"failed">> \in during'[d]
      BY <1>4, <2>3 DEF RefreshFails, Witness, Pending, Answers
    <3> QED
      BY <3>1, <3>2 DEF Justified
  <2> QED
    BY <2>2, <2>3
<1>5. CASE EndpointReads \/ \E k \in Kids : Publishes(k) \/ Withdraws(k)
  BY <1>5, <1>s DEF EndpointReads, Publishes, Withdraws
<1>6. CASE Tick
  BY <1>6, <1>s DEF Tick, Witness
<1>7. CASE UNCHANGED vars
  BY <1>7, <1>s DEF vars
<1> QED
  BY <1>1, <1>2, <1>3, <1>4, <1>5, <1>6, <1>7 DEF Next, Serve

(* The inductive invariant: well-typed, one holder of the lock, and a record  *)
(* of what every waiting call has seen that explains every answer.            *)
THEOREM CacheInvariance == Spec => []JwksInv
<1>1. JwksInv /\ [Next]_vars => JwksInv'
  BY TypeStep, LockStep, SeenStep, AgeStep, AnswerStep DEF JwksInv
<1> QED
  BY InitInv, <1>1, PTL DEF Spec

(* Only what happened while a call waited is told to it: AnswersJustified,    *)
(* for every number of calls and keys (get_signing_key).                      *)
THEOREM SharedAnswers == Spec => []AnswersJustified
<1>1. JwksInv => AnswersJustified
  BY DEF JwksInv
<1> QED
  BY CacheInvariance, <1>1, PTL

(* get_signing_key refreshes only when no refresh ended since it was called.  *)
THEOREM Coalescing == Spec => []RefreshesCoalesced
<1>1. JwksInv => RefreshesCoalesced
  <2> SUFFICES ASSUME JwksInv, NEW c \in lock, kid[c] \in Kids
               PROVE  during[c] \cap ({<<"failed">>} \cup {<<"lacked", k>> : k \in Kids}) = {}
    BY DEF RefreshesCoalesced
  <2>1. c \in Calls /\ call[c].pc = "refreshing" /\ call[c].observed = generation
    BY DEF JwksInv, TypeInv, JwksTypeOK, LockInv
  <2> QED
    BY <2>1, SeenEach DEF JwksInv, Seen, Waiting, Observations
<1> QED
  BY CacheInvariance, <1>1, PTL

(* A key withdrawn by the issuer is not answered once one time to live and    *)
(* one fetch have passed: WithdrawnKeyExpires, for every TTL and FETCH.       *)
THEOREM Expiry == Spec => WithdrawnKeyExpires
<1> DEFINE Trusted ==
      \A c \in Calls : call[c].pc # "key" /\ call'[c].pc = "key" /\ kid[c] \in Kids =>
        gone[kid[c]] < TTL + FETCH
<1>1. JwksInv /\ [Next]_vars => [Trusted]_vars
  <2> SUFFICES ASSUME JwksInv, Next, NEW c \in Calls,
                      call[c].pc # "key", call'[c].pc = "key", kid[c] \in Kids
               PROVE  gone[kid[c]] < TTL + FETCH
    OBVIOUS
  <2>0. TypeInv /\ AgeInv
    BY DEF JwksInv
  <2>t. call \in [Calls -> [pc : {"idle", "waiting", "refreshing"} \cup Answers, observed : Nat]]
    BY <2>0 DEF TypeInv, JwksTypeOK
  <2>1. Hit(c) \/ (fetch.pc = "read" /\ kid[c] \in fetch.keys)
    <3>1. ASSUME NEW d \in Calls, get_signing_key(d) PROVE Hit(c)
      BY <2>t, <3>1 DEF get_signing_key
    <3>2. ASSUME NEW d \in Calls, refresh(d) \/ Cancelled(d) \/ RefreshFails(d) PROVE FALSE
      BY <2>t, <3>2 DEF refresh, Cancelled, RefreshFails, Become
    <3>3. ASSUME NEW d \in Calls, LockAcquired(d) PROVE Hit(c)
      <4>1. d = c /\ ~Refreshes(d) /\ Cached(d) = "key"
        BY <2>t, <3>3 DEF LockAcquired, Become
      <4> QED
        BY <4>1 DEF Cached
    <3>4. ASSUME NEW d \in Calls, DocumentArrives(d)
          PROVE  fetch.pc = "read" /\ kid[c] \in fetch.keys
      BY <2>t, <3>4 DEF DocumentArrives, Become
    <3>5. ASSUME EndpointReads \/ Tick \/ \E k \in Kids : Publishes(k) \/ Withdraws(k)
          PROVE  FALSE
      BY <3>5 DEF EndpointReads, Tick, Publishes, Withdraws
    <3> QED
      BY <3>1, <3>2, <3>3, <3>4, <3>5 DEF Next, Serve
  <2>2. gone[kid[c]] \in Nat /\ ttl \in Nat /\ fetch.age \in 0 .. FETCH
    BY <2>0 DEF TypeInv, JwksTypeOK
  <2>3. CASE Hit(c)
    BY <2>0, <2>2, <2>3 DEF AgeInv, Hit
  <2>4. CASE fetch.pc = "read" /\ kid[c] \in fetch.keys
    BY <2>0, <2>2, <2>4 DEF AgeInv
  <2> QED
    BY <2>1, <2>3, <2>4
<1> QED
  BY CacheInvariance, <1>1, PTL DEF Spec, WithdrawnKeyExpires
=============================================================================

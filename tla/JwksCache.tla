------------------------------ MODULE JwksCache ------------------------------
(* agent.auth.jwks: requests that verify tokens share one cache of an         *)
(* issuer's signing keys.  Whoever misses takes the lock and refreshes, and   *)
(* those who waited for the lock meanwhile use what the refresh brought.  The *)
(* issuer rotates its keys, the endpoint fails, requests are cancelled.       *)
EXTENDS Naturals

CONSTANTS
  Calls,       \* calls of get_signing_key and of refresh
  Kids,        \* key identifiers
  Any,         \* what refresh asks for: no key in particular
  kid,         \* call -> the key it asks for
  TTL,         \* ttl_seconds, in ticks
  FETCH        \* ticks a fetch takes at most: jwks_timeout_seconds bounds each of its
               \* operations (connect, read, write, pool), not their sum

ASSUME JwksAssumption ==
  Any \notin Kids /\ kid \in [Calls -> Kids \cup {Any}] /\ TTL \in Nat \ {0} /\ FETCH \in Nat

VARIABLES
  published,   \* keys the issuer publishes now
  gone,        \* key -> ticks since it was withdrawn, 0 while it is published
  keys,        \* _keys
  ttl,         \* _expires_at, from now
  generation, last_refresh_failed,
  lock,        \* calls that hold _refresh_lock
  fetch,       \* the request of the lock's holder: [pc, age, keys]
  call,        \* call -> [pc, observed]
  during       \* call -> what happened since it began: keys that an arrived
               \* document lacked, failed refreshes, an expiry

vars == <<published, gone, keys, ttl, generation, last_refresh_failed, lock, fetch, call,
          during>>
cache == <<keys, ttl, generation, last_refresh_failed>>

Answers == {"key", "unknown", "unavailable", "cancelled"}
NoFetch == [pc |-> "none", age |-> 0, keys |-> {}]

Init ==
  /\ published \in SUBSET Kids
  /\ gone = [k \in Kids |-> IF k \in published THEN 0 ELSE TTL + FETCH]
  /\ keys = {} /\ ttl = 0 /\ generation = 0 /\ last_refresh_failed = FALSE
  /\ lock = {} /\ fetch = NoFetch
  /\ call = [c \in Calls |-> [pc |-> "idle", observed |-> 0]]
  /\ during = [c \in Calls |-> {}]

Pending(c) == call[c].pc \notin {"idle"} \cup Answers
Become(c, pc) == call' = [call EXCEPT ![c].pc = pc]

(* Ghost: every pending call sees it happen. *)
Witness(what) ==
  during' = [c \in Calls |-> during[c] \cup (IF Pending(c) THEN what ELSE {})]

-----------------------------------------------------------------------------
(* Mutant: an expired key is served while it is in the cache. *)
StaleHit(c) == kid[c] \in keys

Hit(c) == kid[c] \in keys /\ ttl > 0

(* A hit needs no lock.  Kids are the identifiers that pass the first check:  *)
(* any other is refused there.                                                *)
get_signing_key(c) ==
  /\ call[c].pc = "idle" /\ kid[c] \in Kids
  /\ call' = [call EXCEPT ![c] = IF Hit(c) THEN [pc |-> "key", observed |-> generation]
                                 ELSE [pc |-> "waiting", observed |-> generation]]
  /\ UNCHANGED <<published, gone, cache, lock, fetch, during>>

(* refresh forces a request, for the readiness of the verifier. *)
refresh(c) ==
  /\ call[c].pc = "idle" /\ kid[c] = Any /\ Become(c, "waiting")
  /\ UNCHANGED <<published, gone, cache, lock, fetch, during>>

Refreshes(c) == kid[c] = Any \/ (~Hit(c) /\ generation = call[c].observed)

(* Mutant: what the refresh came to is not remembered. *)
CacheAlone(c) ==
  IF Hit(c) THEN "key" ELSE IF kid[c] \in keys THEN "unavailable" ELSE "unknown"

(* What the cache tells a call that does not refresh.  *)
Cached(c) ==
  IF Hit(c) THEN "key"
  ELSE IF last_refresh_failed \/ kid[c] \in keys THEN "unavailable" ELSE "unknown"

(* The lock is taken: a hit after all, a refresh of its own, or the outcome   *)
(* of the refresh it waited for.                                              *)
LockAcquired(c) ==
  /\ call[c].pc = "waiting" /\ lock = {}
  /\ IF Refreshes(c)
     THEN /\ Become(c, "refreshing") /\ lock' = {c}
          /\ fetch' = [NoFetch EXCEPT !.pc = "sent"]
     ELSE Become(c, Cached(c)) /\ UNCHANGED <<lock, fetch>>
  /\ UNCHANGED <<published, gone, cache, during>>

(* _fetch_payload: the endpoint reads its keys at some moment of the request. *)
EndpointReads ==
  /\ fetch.pc = "sent" /\ fetch' = [fetch EXCEPT !.pc = "read", !.keys = published]
  /\ UNCHANGED <<published, gone, cache, lock, call, during>>

NextGeneration(g) == g + 1

(* A document without a key that may verify a token is refused as a whole.    *)
(* published holds the keys that may.                                         *)
_parse_signing_keys(document) == document # {}

(* _refresh_locked: the document replaces the cache. *)
DocumentArrives(c) ==
  /\ call[c].pc = "refreshing" /\ fetch.pc = "read" /\ _parse_signing_keys(fetch.keys)
  /\ keys' = fetch.keys /\ ttl' = TTL
  /\ generation' = NextGeneration(generation) /\ last_refresh_failed' = FALSE
  /\ lock' = {} /\ fetch' = NoFetch
  /\ Become(c, IF kid[c] \in fetch.keys \cup {Any} THEN "key" ELSE "unknown")
  /\ Witness({<<"lacked", k>> : k \in Kids \ fetch.keys})
  /\ UNCHANGED <<published, gone>>

(* A failing, late, oversized or malformed answer leaves the keys.            *)
RefreshFails(c) ==
  /\ call[c].pc = "refreshing"
  /\ generation' = NextGeneration(generation) /\ last_refresh_failed' = TRUE
  /\ lock' = {} /\ fetch' = NoFetch /\ Become(c, "unavailable")
  /\ Witness({<<"failed">>}) /\ UNCHANGED <<published, gone, keys, ttl>>

(* Mutant: the lock outlives the request that took it. *)
LockKept(c) ==
  /\ Pending(c) /\ Become(c, "cancelled")
  /\ UNCHANGED <<published, gone, cache, lock, fetch, during>>

(* The request that asked is cancelled: CancelledError is not an Exception,   *)
(* so the generation stays, and the lock is released.                         *)
Cancelled(c) ==
  /\ Pending(c) /\ Become(c, "cancelled")
  /\ lock' = lock \ {c} /\ fetch' = IF c \in lock THEN NoFetch ELSE fetch
  /\ UNCHANGED <<published, gone, cache, during>>

-----------------------------------------------------------------------------
(* The issuer and the clock. *)
Publishes(k) ==
  /\ k \notin published /\ published' = published \cup {k}
  /\ gone' = [gone EXCEPT ![k] = 0]
  /\ UNCHANGED <<cache, lock, fetch, call, during>>

Withdraws(k) ==
  /\ k \in published /\ published' = published \ {k}
  /\ UNCHANGED <<gone, cache, lock, fetch, call, during>>

Tick ==
  /\ fetch.age < FETCH \/ fetch.pc = "none"
  /\ fetch' = IF fetch.pc = "none" THEN fetch ELSE [fetch EXCEPT !.age = @ + 1]
  /\ ttl' = IF ttl = 0 THEN 0 ELSE ttl - 1
  /\ gone' = [k \in Kids |-> IF k \in published \/ gone[k] = TTL + FETCH THEN gone[k]
                             ELSE gone[k] + 1]
  /\ Witness(IF ttl = 1 THEN {<<"expired">>} ELSE {})
  /\ UNCHANGED <<published, keys, generation, last_refresh_failed, lock, call>>

-----------------------------------------------------------------------------
Serve(c) == LockAcquired(c) \/ DocumentArrives(c) \/ RefreshFails(c)

Next ==
  \/ \E c \in Calls : get_signing_key(c) \/ refresh(c) \/ Serve(c) \/ Cancelled(c)
  \/ EndpointReads
  \/ \E k \in Kids : Publishes(k) \/ Withdraws(k)
  \/ Tick

Spec == Init /\ [][Next]_vars

(* The lock is handed on in order, and a fetch ends: an operation of it that  *)
(* makes no progress times out.                                               *)
Fairness == \A c \in Calls : WF_vars(Serve(c))

FairSpec == Spec /\ Fairness

-----------------------------------------------------------------------------
(* The call that refreshes, and no other, holds _refresh_lock. *)
JwksTypeOK ==
  /\ published \subseteq Kids /\ keys \subseteq Kids
  /\ gone \in [Kids -> 0 .. TTL + FETCH] /\ ttl \in 0 .. TTL
  /\ generation \in Nat /\ last_refresh_failed \in BOOLEAN
  /\ lock \subseteq Calls /\ fetch.age \in 0 .. FETCH /\ fetch.keys \subseteq Kids
  /\ call \in [Calls -> [pc : {"idle", "waiting", "refreshing"} \cup Answers, observed : Nat]]
  /\ \A c \in Calls : c \in lock <=> call[c].pc = "refreshing"

(* A key the issuer has withdrawn is trusted no longer than one time to live  *)
(* and one fetch, whichever call refreshed and however often a refresh failed *)
(* since.                                                                     *)
WithdrawnKeyExpires ==
  [][\A c \in Calls : call[c].pc # "key" /\ call'[c].pc = "key" /\ kid[c] \in Kids =>
       gone[kid[c]] < TTL + FETCH]_vars

(* A call is told that its key is unknown only by a document that arrived     *)
(* while it waited and lacked the key, and that the identity provider is      *)
(* unavailable only after a refresh failed, or the keys expired, while it     *)
(* waited: what a shared refresh answers is about the call's own time         *)
(* (observed_generation, _last_refresh_failed).                               *)
AnswersJustified ==
  \A c \in Calls :
    /\ call[c].pc = "unknown" => <<"lacked", kid[c]>> \in during[c]
    /\ call[c].pc = "unavailable" => during[c] \cap {<<"failed">>, <<"expired">>} # {}

(* Concurrent refreshes are coalesced: get_signing_key refreshes only when    *)
(* none ended since it was called, so the calls that wait for one refresh     *)
(* send no other.                                                             *)
RefreshesCoalesced ==
  \A c \in lock : kid[c] \in Kids =>
    during[c] \cap ({<<"failed">>} \cup {<<"lacked", k>> : k \in Kids}) = {}

(* Every call is answered, also when the call that refreshes is cancelled     *)
(* while others wait for its lock.                                            *)
CallsReturn == \A c \in Calls : Pending(c) ~> ~Pending(c)
=============================================================================

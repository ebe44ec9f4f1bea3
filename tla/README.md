# Verification of the refund agent

TLA+ specifications of `langgraph-refund-agent`, the TLC instances that check
them, and TLAPS proofs about them. Every definition is translated from the code
under `src/`; `PROJECT.json` maps it to its lines, and lists the hazards of the
code with the properties that would catch them.

## The system

A customer-service conversation (a LangGraph workflow) decides what a message
asks for, creates order operations and support cases in PostgreSQL, and asks the
customer to confirm. A confirmed operation, or a delivery investigation, becomes
a *command*: a row of a transactional Outbox that workers send to an external
Provider. The Provider's later callbacks arrive as signed webhooks, are stored
in an Inbox and are applied by other workers. Staff work on cases and redrive
dead messages.

```
 conversation graph ---> order operation service ---> Outbox ---> Provider
        |                        ^                      ^             |
        v                        |       redrive by staff             v
 support case service <----------+--------------------- Inbox <--- webhook
```

| Part | Module | Level |
|---|---|---|
| what a command and its operation may go through | `CommandLifecycle` | abstract specification |
| Outbox rows, ledger, workers, recovery, redrive | `ProviderOutbox` | a transaction is a step |
| the same, as an implementation of the lifecycle | `OutboxLifecycle` | refinement mapping |
| webhook endpoint, Inbox rows, workers, redrive | `ProviderInbox` | a transaction is a step |
| one customer run of an order operation | `OperationFlow` | an await is a step boundary |
| the rules for operations and delivery issues | `OperationPolicy`, `OrderDecisions` | pure operators |
| which case a message's facts create | `HandoffPolicy` | pure operators |
| the conversation graph | `ConversationFlow` | a graph node is a step |
| every writer of support cases, concurrently | `CaseService` | a transaction is a step |
| the outbound worker process and its connection gates | `DispatchWorker` | an await is a step boundary |
| the signing-key cache | `JwksCache` | an await is a step boundary |

`MC*` modules hold instances, `*_proofs` modules hold theorems.

The parts meet in `CommandLifecycle`: the Outbox, the Inbox and the customer's
runs change the same two things, the delivery of a command and the status of its
operation. Each of the three is shown to implement that specification, and what
the other two do appears in it as lifecycle steps (`OutsideStep` in the Inbox,
`ProviderSide` in the flow, `ApplyCallback` and the enqueueing in the Outbox).
So `ProviderInbox` is not checked against one particular Outbox but against
everything the lifecycle lets an Outbox and a customer do.

## How the modules correspond to the code

**`ProviderOutbox`** (`integrations/postgres_repository.py`, `outbox_worker.py`,
`finalization.py`, `provider_failure.py`, `provider_operations_postgres.py`).
`outbox`, `attempts`, `operation`, `cases`, `events` and `redrives` are tables;
`investigation` is the reason code of an investigation's case; `task` is what a
worker's asyncio task holds between two awaits; `sent` and `provider` are the
wire and the Provider. Every transaction locks the command's row first
(`FOR UPDATE`), so two of them on one command do not interleave; between two
transactions of a worker it may crash. A claim may take any set of due rows up
to the batch size, since other transactions may hold the rest
(`SKIP LOCKED`). Lease and attempt ids are minted together, so both are the
attempt's position in the ledger. `RetryFenced` does not ask for a live lease,
as the code's fence does not. A recovery is one transaction for its batch;
rows that would make it raise are excluded by `Recoverable`, and
`NeverPoisoned` shows there are none.

**`ProviderInbox`** (`inbox_worker.py`, `inbox_postgres_finalizer.py`,
`inbox_policy.py`, `webhook_router.py`, the Inbox half of the repository). The
endpoint stores an event once, acknowledges an exact replay and refuses a
differing one. The finalizer locks the inbox row, the outbox row and the
aggregate in that order, so it is one step: it waits (retry) while the command
is undecided, applies the callback, finds it duplicate or stale, or fails the
message on a conflict. `decide_order_operation_callback` keeps the code's
decision table. `OutsideStep` is any lifecycle step of Outbox or customer, the
Provider's own answer bringing a reference included.

**`OperationFlow`** (`nodes/operations.py`, `nodes/cases.py`,
`operations/service.py`, `operations/postgres_repository.py`,
`provider_failure.py`). A run is the graph run a message started; its nodes are
entered from checkpointed state, and a crash puts it back at the start of its
node (`Crash`, `Reinvoke`). Inside a node each repository call is a step:
reading, then writing under the version read, at most `MAX_WRITE_ATTEMPTS`
times. The two unique indexes (source message, active order) decide races of
creation. The manual path is three transactions, as in the code.

**`OperationPolicy`, `OrderDecisions`** (`operations/policy.py`). The policy's
operators over order snapshots; `OrderDecisions` lets time pass over every
snapshot and compares the policy with a statement of the business rules written
independently of it. Its specification is `OrderSpec`, so that one module can
extend it and `ConversationFlow`, which uses the same operators.

**`HandoffPolicy`** (`cases/policy.py`): reason table, precedence of case types,
priorities and transitions, used by the two modules below.

**`ConversationFlow`** (`graph.py`, `routing.py`, `nodes/`, `state.py`). Every
node and route, the order-operation subgraph, the interrupts and what the
checkpoint keeps from turn to turn. What the language model and the services
answer is an input. `evidence` collects what the current turn heard, `effects`
what it did; both are ghosts. A semantic finding leaves its level as evidence,
and each of its categories with the level: the schema lets a classifier report a
level without a category.

**`CaseService`** (`cases/service.py`, `cases/postgres_repository.py`,
`auth/visibility.py`, `provider_failure.py`, `finalization.py`,
`inbox_postgres_finalizer.py`, `provider_operations_postgres.py`). Everything
that writes a row of `support_cases` or appends to its events. Calls of
`record_handoff`, `record_delivery_investigation`, `change_status` and
`assign_case` run concurrently: read, decide, write under a version, retry. The
others lock the row and are one step each: the provider fallback
(`move_to_manual_review`), the technical review of a dead command
(`ensure_technical_review_case`), the Outbox's result of an investigation
(`finalize_case`), a callback about it (`finalize_support_case`), and a redrive
of an investigation or of an operation under review (`audit_support_case`,
`recover_operation`). `delivery` is what became of an investigation's command,
as far as these writers ask; leases and retries are `ProviderOutbox`'s.
Idempotency keys, the active-case indexes and row visibility are the database's.

**`DispatchWorker`** (`outbox_worker.py`, `rate_limit.py`). The process itself:
the loop, the tasks of a batch, the request each runs beside the renewal of its
lease, and the gate of each connection (semaphore, then a reserved start time).
`level` is a ghost bucket that drains one tick per tick and measures the rate
the Provider sees.

**`JwksCache`** (`auth/jwks.py`). Calls share one refresh at a time; the issuer
rotates its keys, fetches fail and calls are cancelled. `gone` and `during` are
ghosts: how long a key has been withdrawn, and what happened during a call.

Data is abstracted to what properties tell apart: times become live or expired,
due or not due, or small counters; texts, payloads and ids are left out or are
model values. A version that is only compared inside the transaction that
locked its row is left out too.

## What the runs check

| Run | Instance | Shows |
|---|---|---|
| `outbox_lease` | 1 operation, 2 workers, 2 attempts per cycle, 1 redrive, fairness | ledger, budget, operation, Provider, events and audit agree (`TypeOK`, `LeaseLedger`, `AttemptBudget`, `OperationFollowsCommand`, `ProviderAgreement`, `OneEventPerCycle`, `CyclesAudited`, `DeadIsRedrivable`, `NeverPoisoned`, `DecisionIsFinal`), and every command is settled (`Settles`) |
| `outbox_thread` | 2 operations of one thread, batches of 2, staff on its review cases | `TechnicalFailureHandedOff` |
| `outbox_mixed` | 1 operation and 1 investigation in one batch | `InvestigationHistory`; `OutboxImplementsLifecycle` |
| `outbox_investigation` | 1 investigation, 1 worker | a violation of `InvestigationMarked`, see Findings |
| `inbox_lease` | 1 callback of three possible contents, 2 workers, 2 attempts, 1 redrive, fairness | `InboxLedger`; every accepted callback is processed or failed (`CallbackSettles`) |
| `inbox_order` | 2 callbacks of six contents (progress, contradiction, references that agree or not, a case, a wrong order, a wrong aggregate) | `CallbackReflected`, `EffectOnce`, `ReferenceKept`; `Lifecycle` |
| `flow_runs` | 3 messages of 2 threads, two about one order, two of them for manual review, a crash, fairness | `OneActivePerOrder`, `TruthfulAnswers`, `ReviewHandedOver`; `Lifecycle`; runs come to rest (`RunsComeToRest`) |
| `decide_orders` | every snapshot built from the values the policy tells apart, five instants | `EligibleExactly`, `ReviewAsRecommended` |
| `talk_turns` | three messages of any intent, risk (a low and a critical level without a category included) and extraction, answered interrupts, connected or not | `SupportedByThisTurn`, `SafetyFirst`, `HeardIsKept` |
| `case_calls` | eight workloads of concurrent calls on 2 cases, 2 agents: merging handoffs, staff, a delivery investigation, the provider fallback, two dead commands that are redriven, reopening, an investigation that fails, is redriven and is then accepted or rejected, with a callback | `RowIsItsHistory`, `HandoffRecordedOnce`, `AgentsActOnTheirCases`, `InvestigationSentOnce` |
| `worker_batches` | 3 commands over a connection with 2 permits and 2 ticks between starts, fairness | `NothingOutlives`, `RateKept`, `BatchEnds` |
| `jwks_calls` | 2 calls and a forced refresh, 2 keys, fairness | `AnswersJustified`, `WithdrawnKeyExpires`, `CallsReturn` |

Each property is stated in words above its definition. Each has a mutant in
`PROJECT.json`: a plausible bug in a mapped definition under which TLC finds the
property violated.

### Bounds

- `MAX_ATTEMPTS` (8 outbound, 5 inbound in the code) is 1 or 2: the code only
  compares the count with the limit, and 2 has an attempt that may be retried
  and one that may not. `LeaseTicks` is 1: a lease is live or expired.
- `Requests` bounds redrives. One gives a second cycle on the same row, in which
  everything can happen again.
- `BatchSize` is 2 where two rows can share a transaction, 3 in
  `worker_batches` so that one task always finds the gate full.
- `MaxVersion`, `MaxCases`, `MaxCrashes` (`OperationFlow`), `MaxCases`
  (`ProviderOutbox`), `MaxAhead` (`DispatchWorker`), `MaxTurns`
  (`ConversationFlow`) and `Horizon` (`OrderDecisions`) cap counters in guards.
  Two versions after creation are a decision and a link; two cases of a thread
  are one that is resolved and its successor; three turns let a checkpoint of
  one turn meet the next and the one after it.
- Policy windows and amounts are small numbers around each boundary: before,
  at, and after it.

No run makes a claim about deadlock. In `jwks_calls` the issuer can always
publish or withdraw a key, so a state without a step cannot occur; that no call
waits for ever is `CallsReturn`. In the other runs the system rests once every
command is decided, every message answered and every bound used up.

### Fairness

Used only by the runs with a liveness property. Each is weak fairness of steps
that the code itself keeps taking:

- `outbox_lease`, `inbox_lease`: the worker loops poll and recover
  periodically, requests and finalizers are bounded by timeouts so a live task
  takes its next step, clocks advance. Nothing is assumed of crashes, lease
  renewals, the Provider or the staff. Fair claiming assumes that some worker
  process runs again after a crash, as its supervisor arranges.
- `flow_runs`: an executing run is scheduled by the event loop. Nothing makes
  the customer answer or a client resume a run.
- `worker_batches`: the event loop runs what is ready, sleeps end, and database
  and transport answer or raise within their timeouts. Nothing makes a lease be
  lost or the process be stopped.
- `jwks_calls`: the asyncio lock is handed on in order and a fetch ends. The
  code's timeout bounds each operation of a fetch (connect, read, write, pool),
  not their sum, so an endpoint that keeps sending could prolong one; that it
  ends, and `FETCH`, the time it takes at most, are assumptions about the
  endpoint, and `WithdrawnKeyExpires` is relative to that bound.

## What is proved

The theorems hold for every set of commands, callbacks, workers, threads,
messages, calls, cases, requests, order snapshots and model answers, and every
bound, under the named ASSUMEs:
limits and lease lengths are at least 1, constants have their types,
`Operations` and `Investigations` are disjoint, `"none"` is not a reference, a
batch is finite (`InboxBounds`, `BodiesTyped`, `AggregatesDisjoint`,
`NoneIsNoReference`, `MessagesTyped`, `FlowBounds`, `JwksAssumption`,
`GateAssumption`, `CaseAssumption` and those of `ProviderOutbox`). Order
snapshots, time windows and amounts have the types of their models
(`SnapshotsTyped`, `WindowsTyped`), and what the language model returns passed
its schema (`SchemasTyped`): levels and severities are known ones, and an
extraction that is not ambiguous names an issue or an operation. TLC evaluates
each of them in a run. `CaseAssumption` also says that no handoff asks for a p0
review of an operation; that is what the policy makes of any set of reasons
(theorem `ReviewsAreNeverP0`).

| Module | Theorems |
|---|---|
| `OutboxLifecycle_proofs` | every safety property of the Outbox's runs: `TypeCorrect`, `LeaseSafety`, `BudgetSafety`, `AggregateSafety`, `ProviderSafety`, `EventSafety`, `HandoffSafety`, `AuditSafety`, `NoPoison`, `InvestigationSafety`, `Redrivable`, and `Finality` for the action property; `OutboxRefines`: the Outbox implements the lifecycle |
| `CommandLifecycle_proofs` | `LifecycleAgrees`: every implementation keeps delivery and status in agreement |
| `ProviderInbox_proofs` | `LedgerSafety`, `EffectSafety`, `ReflectedSafety`, `ReferenceSafety` for the run's properties; `StrandedSafety`, `HistorySafety`, `RedriveSafety`, `SettledSafety`, `InboxTypes` for properties stated beside them; `InboxRefines` |
| `OperationFlow_proofs` | `OneActiveSafety`, `AnswerSafety`, `HandoverSafety`, `CaseLinkSafety`, `FlowTypes`; `FlowRefines` |
| `CaseService_proofs` | every property of the case service's run: `CaseRowSafety`, `CaseHandoffSafety`, `CaseInvestigationSafety`, `CaseAgentSafety`; `ReviewsAreNeverP0` about the policy |
| `ConversationFlow_proofs` | every property of the conversation's run: `TurnSafety`, `CriticalSafety`, `HeardSafety`; both of the order policy's: `EligibilitySafety`, `RecommendationSafety` |
| `DispatchWorker_proofs` | both safety properties of the worker's run: `BatchSafety`, `RateSafety` |
| `JwksCache_proofs` | `SharedAnswers`, `Expiry`, `Coalescing` |

The argument, module by module:

- **Outbox.** `IndInv` adds to the properties: no attempt is ahead of its row and
  a dead row has its terminal evidence (`RowConsistent`; otherwise a redrive or
  a claim could repeat an attempt number), a task holds the handle of one of its
  own attempts and an answer only if the Provider gave it (`TasksConsistent`;
  otherwise a late finalizer could record what nobody said), and an undecided
  cycle has no event (`EventsConsistent`; otherwise a finalizer could find its
  key taken). `StepShape` reduces every action to one of a few shapes per
  command (`CommandStep`); the invariant is preserved shape by shape.
- **Inbox.** `RowInv` ties row and ledger together and counts the cycle's
  attempts. Every step is, for each row, one of six (`RowStep`: kept, stored,
  taken, timed, closed, redriven), and, for operations and cases, one of five
  (`Effect`: nothing, a step outside, a callback applied, one settled without
  change, a case updated). `DecidedFirst` (a reference needs a decided delivery,
  a history a published one) is what keeps the Outbox's own answer from
  replacing a callback's reference; with `EffectOnce`, `HistoryExplains` and
  `CallbackReflected` it is inductive.
- **Operation flow.** The strengthening is `WriteSafe`: while the version of a
  row is still the one a run has read, the row still has the status and the case
  link the run has read. That holds because every change of an operation is a
  new version, and it is why a write under a version check cannot overwrite a
  decision. `OpInv` says what a recorded decision implies. For the handover,
  `ReviewInv` adds what a run carries between the three transactions: a run that
  announced a review and has not finished still has reasons to hand over, or its
  operation is settled already; a run about to link has a case to link
  (`Handed`). A crash or a lost version race then only repeats a node.
- **Support cases.** `CasesInv` says of each case that its row is what its events
  add up to (`Sums`), stated incrementally: appending one event and merging its
  reasons, priority, risk, status and assignee into the row keeps the sum, so no
  induction over histories is needed. The version is the number of events that
  changed the row, which an event appended without a change (an acceptance, a
  callback, a redrive, a second failure) leaves as it was (`ChangesAppended`,
  from the library's facts about cardinality). That a merge starts from the current row
  is `Fresh`: a version that is still the one a call has read vouches for the
  whole row. A message is recorded once since every trigger carries the key of
  its message (`Keyed`) and such keys are unique over all cases (`KeysUnique`);
  an answered call has left its record (`Recorded`). The provider fallback
  writes p1 on the case it reuses, which only keeps the sum because reviews are
  never p0.
- **Order policy.** `OrderDecisions` changes only the clock, so its properties are
  statements about every snapshot and instant; each evaluator is proved against
  its part of the rule, and every manual decision against the reason table. The
  same lemmas say which reasons a conversation can take from a decision.
- **Conversation.** `ConvInv` relates the checkpoint to the ghost `evidence` in
  both directions: every field the case policy reads is backed by something this
  turn heard (`Backed`), and everything heard is still in a field (`Says`).
  `Stage` says which of those fields the reset of the turn has emptied and no
  node up to here can have filled, which is why a node may overwrite one without
  losing what was heard. `CodesSupported` and `PendingReviews` follow a reason
  from the decision to the customer's yes: an investigation's reason may wait for
  it in the checkpoint, an operation's reason waits on its row. `SafetyInv` and
  `KeptInv` carry the two case properties through `finalize_case_handoff`, where
  the policy weighs all reasons: the case is as urgent, and its type at least as
  important, as any one of them (`PolicyCase`, `ReasonsWeighed`). A critical
  level that the policy input accepts has a category, which is one of those
  reasons (`CriticalReason`); one that it refuses is all the turn has heard
  (`CriticalRefused`).
- **Outbound worker.** `WorkerInv` counts what a connection is owed: requests
  started plus starts reserved stay within the next free start and the permits,
  and what comes due within `t` ticks exceeds `t` by at most one interval more
  (`Rate`, for every `t`). The bound of `RateKept` is the case of a start that is
  due now; the general one is needed because time passes with starts reserved.
- **Refinements.** The mapping is the identity on `delivery` and `status` for the
  Inbox and the flow, which extend the lifecycle; for the Outbox it is
  `OutboxLifecycle`'s. Each action is shown to be one lifecycle step or a
  stutter, from the inductive invariant.
- **Signing keys.** `JwksInv` bounds the age of what a fetch read and of what the
  cache holds, and relates the generation a call observed to what it saw.

Only model-checked: liveness (`Settles`, `CallbackSettles`, `RunsComeToRest`,
`BatchEnds`, `CallsReturn`), which is outside the prover's reach. Every safety property, action property
and refinement of a passing run is also proved.

## Findings

- `outbox_investigation`: `recover_expired_outbox_leases`
  (`integrations/postgres_repository.py:384-387`) updates the aggregate of an
  exhausted command only for order operations. When the worker dies during the
  last attempt of a delivery investigation, the command becomes dead and its
  case gets neither `provider_delivery_failed` nor a `provider_update` event,
  which `docs/v0.7_step3_outbound_dispatch.md:67-69` promises.

Met while modelling. The models follow the code; where a property has an
exception because of it, it is named.

- `nodes/operations.py:441-448`: `attach_operation_case` skips linking any
  review case that carries `provider_delivery_failed`, also one an earlier
  operation of the thread was given. `ReviewHandedOver` excepts `marked` runs.
- `cases/policy.py:279` makes `delivery_failed` p1; `operations/policy.py:102-107`
  and `docs/v0.5_business_rules_draft.md:278` say p2. `ReviewAsRecommended`
  excepts its priority.
- `nodes/cases.py:148`: after a fallback to provider review the turn's other
  reasons are not added to the case; `docs/v0.5_business_rules_draft.md:83-84`
  says all reasons are retained. `HeardIsKept` excepts `FellBack`.
- `schemas.py:151-173`: only the description of `SemanticRiskDetection.categories`
  asks for a category with every level but `none`; no validator does. A high or
  critical level without one is routed to `handle_critical_risk`, and
  `HandoffPolicyInput` then raises (`cases/models.py:147-151`, from
  `nodes/cases.py:167`), so the turn ends without a case, although the repository's `README.md:280`
  says such risks create one. `SafetyFirst` excepts exactly that turn. With a low
  or medium level the same exception comes at the end of whatever the turn did,
  an operation it queued included; `HeardIsKept` is about turns that end.
- `nodes/operations.py:314`: `submit_confirmed_operation` queues without
  evaluating the policy again; `docs/v0.5_business_rules_draft.md:54-55` says it
  must after a confirmation.
- `routing.py:91`: declining a handoff raises when the intent was
  `support_case_status`; the docstring (`:69`) says the flow is resumed.
- `nodes/cases.py:184`: a confirmed delivery investigation becomes a case of
  another type when the turn also heard a more important reason, after
  `nodes/operations.py:413` has announced the investigation;
  `docs/v0.5_phase5_code_proposal.md:39` promises one.
- `cases/service.py:351`: reopening a case while its thread has another active
  one of the type raises `ActiveCaseConflictError`
  (`cases/postgres_repository.py:174`), which `change_status` does not answer;
  `docs/internal_case_api.md:102,118` promises a stable 409 for conflicts.
- `outbox_worker.py:136-138`: the comment says `_process` isolates ordinary
  failures; an unexpected error of `schedule_outbox_retry` ends the loop.

## Not modelled

- Signature and token verification: cryptography. Role tables and configuration
  parsing: no changing state.
- The risk matcher and prompts: natural language without state; their results
  are inputs of `ConversationFlow`.
- Storage of refund requests: one `INSERT ... ON CONFLICT DO NOTHING`.
- Read-only views and listings, of Provider operations and of cases.
- `OperationService.submit_confirmed_operation`, `update_operation_status` and
  `CaseRepository.update_case_with_event_and_command`: nothing calls them.
- The Provider simulator, demo data, evaluation and showcase tooling: fixtures.
- Start-up wiring and migrations, which run under one advisory lock before the
  system starts; exhaustion of the connection pool, except as a transaction that
  fails.

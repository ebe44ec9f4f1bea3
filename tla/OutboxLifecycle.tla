--------------------------- MODULE OutboxLifecycle --------------------------
(* The Outbox implements CommandLifecycle: leases, attempts, workers, cases  *)
(* and the Provider are hidden, and a row in pending, processing or          *)
(* retry_scheduled is undecided.                                             *)
EXTENDS ProviderOutbox

DeliveryOf(row) ==
  CASE row.status = "absent" -> "none"
    [] row.status = "published" -> "published"
    [] row.status = "dead" ->
         IF row.last_failure_kind = "provider_rejection" THEN "rejected" ELSE "failed"
    [] OTHER -> "undecided"

L == INSTANCE CommandLifecycle WITH
       delivery <- [c \in Commands |-> DeliveryOf(outbox[c])],
       status <- [o \in Operations |-> operation[o].status]

(* Every step of the Outbox is a step of the command lifecycle or hidden by  *)
(* it: whatever workers crash, retry, recover or redrive, a delivery is      *)
(* decided once per cycle and its operation moves in the same transaction    *)
(* (_finalize, recover_expired_outbox_leases, redrive_outbox).               *)
OutboxImplementsLifecycle == L!Lifecycle
=============================================================================

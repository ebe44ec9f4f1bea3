-------------------------- MODULE MCProviderOutbox --------------------------
(* Small instances of ProviderOutbox. *)
EXTENDS OutboxLifecycle

CONSTANTS o1, o2, i1, t1, w1, w2, r1, r2

SharedThread == [o \in Operations |-> t1]

TwoKinds == {"timeout", "validation_error"}
=============================================================================

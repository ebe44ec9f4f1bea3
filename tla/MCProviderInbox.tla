--------------------------- MODULE MCProviderInbox --------------------------
(* Small instances of ProviderInbox. *)
EXTENDS ProviderInbox

CONSTANTS o1, i1, e1, e2, w1, w2, r1, p1, p2

Callback_(c, type, said, ref) ==
  [command_id |-> c, aggregate_type |-> type, agrees |-> TRUE, order_agrees |-> TRUE,
   command_status |-> said, provider_reference |-> ref]

OrderCallback(said, ref) == Callback_(o1, "order_operation", said, ref)

(* Progress in any order, and two answers that contradict each other. *)
StatusBodies ==
  {OrderCallback("processing", "none"), OrderCallback("completed", "none"),
   OrderCallback("rejected", "none")}

(* Progress whose references fill, agree and disagree, callbacks for a case,  *)
(* and callbacks that name the wrong order or aggregate type.                 *)
MixedBodies ==
  {OrderCallback("processing", p1), OrderCallback("completed", "none"),
   OrderCallback("rejected", p2),
   Callback_(i1, "support_case", "completed", "none"),
   Callback_(i1, "order_operation", "completed", "none"),
   [Callback_(i1, "support_case", "rejected", "none") EXCEPT !.order_agrees = FALSE]}
=============================================================================

-------------------------- MODULE MCOperationFlow ---------------------------
(* Instances of OperationFlow: messages m1 and m2 about one order, from two   *)
(* threads of the customer; a third one, m3, in the first thread about        *)
(* another order.                                                             *)
EXTENDS OperationFlow, TLC

CONSTANTS m1, m2, m3, t1, t2, o1, o2

Thread == m1 :> t1 @@ m2 :> t2 @@ m3 :> t1
Order == m1 :> o1 @@ m2 :> o1 @@ m3 :> o2

ThreadOfMessage == [m \in Operations |-> Thread[m]]
OrderOfMessage == [m \in Operations |-> Order[m]]
=============================================================================

---------------------------- MODULE MCJwksCache -----------------------------
EXTENDS JwksCache

CONSTANTS c1, c2, c3, k1, k2

(* c1 and c3 ask for the same key; with a probe, c3 refreshes. *)
TwoKeys == [c \in Calls |-> IF c = c2 THEN k2 ELSE k1]
WithProbe == [TwoKeys EXCEPT ![c3] = Any]
=============================================================================

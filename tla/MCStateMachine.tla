--------------------------- MODULE MCStateMachine ---------------------------
(* StateMachine for TLC: only the writes of key 1 may carry an expiry time. *)
EXTENDS StateMachine

MCKey == 1 .. 2
MCExpiry == [k \in MCKey |-> IF k = 1 THEN {1} ELSE {}]
MCSymmetry == Permutations(Reader)
=============================================================================

------------------------------ MODULE MCLsmTree -----------------------------
(* LsmTree for TLC: the keys share a Bloom bit.                            *)
EXTENDS LsmTree, TLC

MCKey == 1 .. 2
MCHash == 1 :> {1, 2} @@ 2 :> {2, 3}
=============================================================================

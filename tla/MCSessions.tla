----------------------------- MODULE MCSessions -----------------------------
(* Instance of Sessions for TLC: two requests in flight on one account.      *)
EXTENDS Sessions, TLC

CONSTANTS t1, t2

SlotSymmetry == Permutations(Tx)
=============================================================================

------------------------- MODULE MCDecisionCommand -------------------------
(* Small instances of DecisionCommand. *)
EXTENDS DecisionCommand, TLC

CONSTANTS i1, i2, t1, t2, k1, k2

Symmetry == Permutations(Items) \cup Permutations(Threads) \cup Permutations(Keys)
============================================================================

--------------------------- MODULE MCRunLifecycle ---------------------------
(* A small instance of RunLifecycle: a scenario and a variant of it that finds *)
(* the same and one node and one link more.                                       *)
EXTENDS RunLifecycle, TLC

CONSTANTS base, variant

CONSTANTS t1, t2, r1, r2, n1, n2, l1, l2, f1

MCNodesOf == base :> {n1} @@ variant :> {n1, n2}
MCLinksOf == base :> {l1} @@ variant :> {l1, l2}
MCFindingsOf == base :> {f1} @@ variant :> {f1}
MCSource == l1 :> n1 @@ l2 :> n2

Symmetry == Permutations(Threads) \cup Permutations(RunIds)
=============================================================================

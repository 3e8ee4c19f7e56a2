---------------------------- MODULE MCAuditTrail ----------------------------
(* Small instances of AuditTrail. *)
EXTENDS AuditTrail, TLC

CONSTANTS t1, t2, decided, pruned

Symmetry == Permutations(Threads)
============================================================================

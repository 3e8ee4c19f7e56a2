---------------------------- MODULE MCStateStore ----------------------------
(* Small instances of StateStore. *)
EXTENDS StateStore, TLC

CONSTANTS w1, w2, w3, event, run, x, y, events, runs

MCTables == {Ledger, events, runs}
MCTableOf == [k \in {event, run} |-> IF k = event THEN events ELSE runs]

\* 001 is the ledger, 002 has the table of the events, 003 that of the runs.
MCCreates == [v \in 1..3 |-> CASE v = 1 -> {Ledger} [] v = 2 -> {events} [] v = 3 -> {runs}]

Symmetry == Permutations(Workers) \cup Permutations(Values)
=============================================================================

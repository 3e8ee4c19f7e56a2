---------------------------- MODULE MCPromotion ----------------------------
(* Small instances of Promotion. *)
EXTENDS Promotion, TLC

CONSTANTS t1, t2, m1, q1

\* Two ids of one reason, so that a candidate passes the gate; one of them is used
\* again for a concern.
Wrong(i) == [id |-> i, reason |-> "wrong_relation"]
Alarm(i) == [id |-> i, reason |-> "security_concern"]
SomeInputs == {Wrong(1), Wrong(2), Alarm(2), Alarm(3)}

ThreadSymmetry == Permutations({t1, t2})
=============================================================================

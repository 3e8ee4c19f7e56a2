---------------------------- MODULE MCDashboard ----------------------------
(* A critical requirement r, a block a, a test t and an issue i; a test of *)
(* the block directly or of its requirement, and a link of the issue.      *)
EXTENDS Dashboard, TLC

CONSTANTS r, a, t, i, tr, ar, ta, ir

MCNodes == {r, a, t, i}
MCType == (r :> "Requirement") @@ (a :> "Architecture_Block") @@ (t :> "Verification")
            @@ (i :> "Issue")
Joins ==
    (tr :> <<t, "verifies", r>>) @@ (ar :> <<a, "satisfies", r>>)
        @@ (ta :> <<t, "verifies", a>>) @@ (ir :> <<i, "affects", r>>)
\* Types in the order of their names, as the page sorts them.
MCOrder == (a :> 1) @@ (i :> 2) @@ (r :> 3) @@ (t :> 4)
MCLimits == {-1, 2, 9}
MCFrom == [l \in Links |-> Joins[l][1]]
MCRelation == [l \in Links |-> Joins[l][2]]
MCTo == [l \in Links |-> Joins[l][3]]
=============================================================================

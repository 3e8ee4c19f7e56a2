-------------------------- MODULE MCApprovalQueue --------------------------
\* Instances of ApprovalQueue for TLC.  The sets of requests are chosen so
\* that every branch of decide is taken by some request.
EXTENDS ApprovalQueue, TLC

CONSTANTS e1, e2, r1, r2, f1, f2

Plain(p, action) ==
    [apv |-> p, action |-> action, version |-> 0, hash |-> NoRev, fix |-> NoFix,
     badReason |-> FALSE]
Pinned(p, action, v) == [Plain(p, action) EXCEPT !.version = v, !.hash = p.rev]
Modify(p, f) == [Plain(p, "modify") EXCEPT !.fix = f]

P1 == [edge |-> e1, rev |-> r1]
P2 == [edge |-> e1, rev |-> r2]
Q1 == [edge |-> e2, rev |-> r1]

\* Two revisions of one link and one of another.
MCCandidates == {P1, P2, Q1}

\* One correction names the other link.
MCNames == (f1 :> NoEdge) @@ (f2 :> e2)

\* Expectations that match and that do not.
MCRequests ==
    {Plain(P1, "approve"), Pinned(P1, "approve", 2),
     [Plain(P1, "approve") EXCEPT !.hash = r2],
     [Plain(P1, "reject") EXCEPT !.badReason = TRUE],
     Plain(P1, "hold"), Plain(P1, "modify"), Modify(P1, f2), Modify(P1, BadFix),
     Pinned(P2, "approve", 1), Modify(P2, f1), Plain(Q1, "approve")}

\* Symmetry: neither two reviewers nor two analyses differ in anything, and nothing that
\* is checked names one.
MCThreads == Permutations(Reviewers) \cup Permutations(Analyses)
============================================================================

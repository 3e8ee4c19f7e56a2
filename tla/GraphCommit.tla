---------------------------- MODULE GraphCommit ----------------------------
(***************************************************************************)
(* What the approval queue promises about the approved graph, without      *)
(* threads, statuses or idempotency keys: an edge appears or changes only  *)
(* under a grant, which a reviewer obtains with a decision that approves   *)
(* or corrects a proposal that is open and that matches what the reviewer  *)
(* expected to see; and what is put into the graph is a content staged for *)
(* the link of that proposal, corrected as the decision says.  It is       *)
(* stored under that link, or under the one the correction names, whose    *)
(* edge it then replaces.  No edge ever leaves.                            *)
(***************************************************************************)
EXTENDS Naturals

CONSTANTS Reviewers, Edges, Revisions, Fixes, Names,
          NoEdge, NoRev, NoFix, NoDecision, Requests

VARIABLES
    staged,  \* proposals ever staged
    open,    \* proposals waiting for a decision
    grant,   \* the decision under which a reviewer may change the graph
    graph

pvars == <<staged, open, grant, graph>>

Init ==
    /\ staged = {} /\ open = {}
    /\ grant = [t \in Reviewers |-> NoDecision]
    /\ graph = [e \in Edges |-> [of |-> NoEdge, rev |-> NoRev, fix |-> NoFix]]

\* Staging opens a proposal, also one that was decided before.
Stage(p) ==
    /\ staged' = staged \cup {p}
    /\ open' = open \cup {p}
    /\ UNCHANGED <<grant, graph>>

Close(p) ==
    /\ open' = open \ {p}
    /\ UNCHANGED <<staged, grant, graph>>

\* An open item is at version 1: no decision was recorded on it.
Grant(t, d) ==
    /\ grant[t] = NoDecision
    /\ d.action \in {"approve", "modify"}
    /\ d.apv \in open
    /\ d.version \in {0, 1}
    /\ d.hash \in {NoRev, d.apv.rev}
    /\ grant' = [grant EXCEPT ![t] = d]
    /\ UNCHANGED <<staged, open, graph>>

\* The grant is given up: the request failed, or had nothing new to commit.
Withdraw(t) ==
    /\ grant' = [grant EXCEPT ![t] = NoDecision]
    /\ UNCHANGED <<staged, open, graph>>

\* Approving stores the edge under the proposal's link, and so does a correction
\* that leaves the edge id alone.
Place(d) ==
    IF d.action = "modify" /\ d.fix \in Fixes /\ Names[d.fix] # NoEdge
    THEN Names[d.fix] ELSE d.apv.edge

Commit(t) ==
    /\ grant[t] # NoDecision
    /\ \E r \in Revisions :
          /\ [edge |-> grant[t].apv.edge, rev |-> r] \in staged
          /\ graph' = [graph EXCEPT ![Place(grant[t])] =
                          [of |-> grant[t].apv.edge, rev |-> r,
                           fix |-> IF grant[t].action = "modify" THEN grant[t].fix ELSE NoFix]]
    /\ grant' = [grant EXCEPT ![t] = NoDecision]
    /\ UNCHANGED <<staged, open>>

Next ==
    \/ \E e \in Edges, r \in Revisions :
          Stage([edge |-> e, rev |-> r]) \/ Close([edge |-> e, rev |-> r])
    \/ \E t \in Reviewers :
          Withdraw(t) \/ Commit(t) \/ \E d \in Requests : Grant(t, d)

Spec == Init /\ [][Next]_pvars
============================================================================

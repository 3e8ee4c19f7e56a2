------------------------ MODULE ApprovalQueueProofs ------------------------
(***************************************************************************)
(* Proofs about ApprovalQueue for any number of reviewers, analyses,       *)
(* links, revisions, corrections and requests.                             *)
(***************************************************************************)
EXTENDS ApprovalQueue, TLAPS

\* The initial state has the declared types.
LEMMA InitTypeOK == Init => TypeOK
BY BoundsAssumption DEF Init, TypeOK, Absent, Item, Statuses, Content, NoContent

\* A decision's edge is stored under some link, an approval's under its own.
LEMMA TargetType ==
    ASSUME NEW d \in Decision
    PROVE  Target(d) \in Edges /\ (d.action = "approve" => Target(d) = d.apv.edge)
<1>1. d.apv.edge \in Edges
  BY DEF Decision, Proposal
<1> QED
  BY <1>1, NamesAssumption DEF Target

\* No step of a reviewer or of an analysis leaves the declared types.
LEMMA StepTypeOK == TypeOK /\ [Next]_vars => TypeOK'
<1> SUFFICES ASSUME TypeOK, [Next]_vars PROVE TypeOK'
  OBVIOUS
<1> USE NullsAssumption, CandidatesAssumption, RequestsAssumption, BoundsAssumption
    DEF TypeOK, shared, locals, runs
<1>1. ASSUME NEW a \in Analyses, StartStaging(a) PROVE TypeOK'
  BY <1>1 DEF StartStaging
<1>2. ASSUME NEW a \in Analyses, NEW p \in Proposal, StageItem(a, p) PROVE TypeOK'
  BY <1>2 DEF StageItem, Item, Statuses
<1>3. ASSUME NEW a \in Analyses, NEW p \in Proposal, StageDelta(a, p) PROVE TypeOK'
  BY <1>3 DEF StageDelta, Proposal
<1>4. ASSUME NEW t \in Reviewers, Submit(t) PROVE TypeOK'
  BY <1>4 DEF Submit, Goto
<1>5. ASSUME NEW t \in Reviewers, ReadDecided(t) PROVE TypeOK'
  BY <1>5 DEF ReadDecided, Leave, Absent, Item, Statuses, Content, NoContent
<1>6. ASSUME NEW t \in Reviewers, ReadPending(t) PROVE TypeOK'
  BY <1>6 DEF ReadPending, Goto, Verdict, Statuses, Decision
<1>7. ASSUME NEW t \in Reviewers, FetchFails(t) PROVE TypeOK'
  BY <1>7 DEF FetchFails, Leave, Absent, Item, Statuses, Content, NoContent
<1>8. ASSUME NEW t \in Reviewers, FetchDelta(t) PROVE TypeOK'
  <2> DEFINE d == req[t]
  <2>1. d \in Requests /\ d.apv.edge \in Edges
    BY <1>8 DEF FetchDelta, Decision, Proposal
  <2>2. [of |-> d.apv.edge, rev |-> deltas[d.apv.edge], fix |-> NoFix] \in Content
    BY <2>1 DEF Content
  <2> QED
    BY <1>8, <2>2 DEF FetchDelta, Goto
<1>9. ASSUME NEW t \in Reviewers, FetchModifiedDelta(t) PROVE TypeOK'
  BY <1>9 DEF FetchModifiedDelta, Goto, Content, ModifiedDelta, Item, Decision, Proposal
<1>10. ASSUME NEW t \in Reviewers, CheckKey(t) PROVE TypeOK'
  BY <1>10 DEF CheckKey, Goto
<1>11. ASSUME NEW t \in Reviewers, ApplyDelta(t) PROVE TypeOK'
  <2>1. req[t] \in Decision /\ payload[t] \in Content /\ seen[t].version \in Nat
    BY <1>11 DEF ApplyDelta, Item
  <2>2. KeyOf(t) \in Key
    BY <1>11, <2>1 DEF KeyOf, Key, Decision
  <2>3. Target(req[t]) \in Edges
    BY <2>1, TargetType
  <2> QED
    BY <1>11, <2>1, <2>2 DEF ApplyDelta, Goto
<1>12. ASSUME NEW t \in Reviewers, WriteItem(t) PROVE TypeOK'
  <2>1. req[t] \in Decision /\ outcome[t] \in Statuses /\ seen[t].version + 1 \in Nat
    BY <1>12 DEF WriteItem, Item
  <2>2. [status |-> outcome[t], version |-> seen[t].version + 1] \in Item
    BY <2>1 DEF Item
  <2>3. items' \in [Proposal -> Item]
    BY <1>12, <2>2 DEF WriteItem
  <2>4. CASE outcome[t] = "stale"
    <3>1. Leave(t)
      BY <1>12, <2>4 DEF WriteItem
    <3> QED
      BY <1>12, <2>3, <3>1
      DEF WriteItem, Leave, Absent, Item, Statuses, Content, NoContent
  <2>5. CASE outcome[t] # "stale"
    <3>1. Goto(t, "feedback") /\ UNCHANGED <<req, seen, payload, outcome>>
      BY <1>12, <2>5 DEF WriteItem
    <3>2. pc[t] # "idle"
      BY <1>12 DEF WriteItem
    <3> QED
      BY <1>12, <2>3, <3>1, <3>2 DEF WriteItem, Goto
  <2> QED
    BY <2>4, <2>5
<1>13. ASSUME NEW t \in Reviewers, AppendFeedback(t) PROVE TypeOK'
  BY <1>13 DEF AppendFeedback, Leave, Absent, Item, Statuses, Content, NoContent, Decision
<1>14. CASE UNCHANGED vars
  BY <1>14 DEF vars
<1> QED
  BY <1>1, <1>2, <1>3, <1>4, <1>5, <1>6, <1>7, <1>8, <1>9, <1>10, <1>11, <1>12, <1>13, <1>14
  DEF Next, Decide

-----------------------------------------------------------------------------
\* A proposal once staged stays in the queue, whatever its status.
LEMMA StagedStable ==
    ASSUME TypeOK, QueueInv, [Next]_vars, NEW q \in Proposal, Staged(q)
    PROVE  Staged(q)'
<1> USE DEF TypeOK, shared, Staged
<1>1. ASSUME NEW a \in Analyses, NEW p \in Proposal, StageItem(a, p) PROVE Staged(q)'
  BY <1>1 DEF StageItem
<1>2. ASSUME NEW t \in Reviewers, WriteItem(t) PROVE Staged(q)'
  BY <1>2 DEF WriteItem, Statuses
<1>3. CASE UNCHANGED items
  BY <1>3
<1> QED
  BY <1>1, <1>2, <1>3 DEF Next, Decide, StartStaging, StageDelta, Submit, ReadDecided,
     ReadPending, FetchFails, FetchDelta, FetchModifiedDelta, CheckKey, ApplyDelta,
     AppendFeedback, vars

\* No edge ever leaves the graph.
LEMMA EdgeStable ==
    ASSUME TypeOK, QueueInv, [Next]_vars, NEW e \in Edges, HasEdge(e)
    PROVE  HasEdge(e)'
<1> USE DEF TypeOK, shared, HasEdge
<1>1. ASSUME NEW t \in Reviewers, ApplyDelta(t) PROVE HasEdge(e)'
  BY <1>1, NullsAssumption DEF ApplyDelta, QueueInv, PayloadStaged
<1>2. CASE UNCHANGED graph
  BY <1>2
<1> QED
  BY <1>1, <1>2 DEF Next, Decide, StartStaging, StageItem, StageDelta, Submit, ReadDecided,
     ReadPending, FetchFails, FetchDelta, FetchModifiedDelta, CheckKey, WriteItem,
     AppendFeedback, vars

\* QueueInv holds before anything is staged or decided.
LEMMA InitQueueInv == Init => QueueInv
BY DEF Init, QueueInv, RequestStaged, SeenUndecided, GrantCommits, PayloadStaged,
   DeltaStaged, HalfStaged, KeyHasEdge, VerdictHasEdge, Absent,
   Granted, Accepted, ApprovedByApproval, VersionTracksDecision

\* Only an approval that is not stale is recorded as approved.
LEMMA ApproveVerdict ==
    ASSUME NEW d \in Decision, NEW item, Verdict(d, item) = "approved"
    PROVE  ~IsStale(d, item) /\ d.action = "approve"
<1>1. ~IsStale(d, item)
  <2>1. IsStale(d, item) => Verdict(d, item) = "stale"
    BY DEF Verdict
  <2> QED
    BY <2>1
<1>2. d.action = "reject" => Verdict(d, item) = "rejected"
  BY <1>1 DEF Verdict
<1>3. d.action = "hold" => Verdict(d, item) = "held"
  BY <1>1 DEF Verdict
<1>4. d.action = "modify" => Verdict(d, item) = "modified_approved"
  BY <1>1 DEF Verdict
<1>5. d.action \in {"approve", "reject", "modify", "hold"}
  BY DEF Decision, Actions
<1> QED
  BY Zenon, <1>1, <1>2, <1>3, <1>4, <1>5

\* Every step keeps QueueInv.
LEMMA StepQueueInv == TypeOK /\ QueueInv /\ [Next]_vars => QueueInv'
<1> SUFFICES ASSUME TypeOK, QueueInv, [Next]_vars PROVE QueueInv'
  OBVIOUS
<1>a. \A q \in Proposal : Staged(q) => Staged(q)'
  BY StagedStable
<1>b. \A e \in Edges : HasEdge(e) => HasEdge(e)'
  BY EdgeStable
<1>c. TypeOK'
  BY StepTypeOK
<1>d. /\ \A t \in Reviewers : pc[t] # "idle" => req[t] \in Decision /\ req[t].apv \in Proposal
                                              /\ req[t].apv.edge \in Edges
      /\ \A e \in Edges, r \in Revisions : [edge |-> e, rev |-> r] \in Proposal
  BY RequestsAssumption DEF TypeOK, Decision, Proposal
<1> USE DEF TypeOK, shared, locals, runs, QueueInv, RequestStaged, SeenUndecided, GrantCommits,
            PayloadStaged, DeltaStaged, HalfStaged, KeyHasEdge, VerdictHasEdge, ApprovedByApproval,
            Granted, Accepted, VersionTracksDecision, Staged, HasEdge
<1>1. ASSUME NEW a \in Analyses, StartStaging(a) PROVE QueueInv'
  BY <1>1, <1>a, <1>b, <1>d DEF StartStaging
<1>2. ASSUME NEW a \in Analyses, NEW p \in Proposal, StageItem(a, p) PROVE QueueInv'
  BY <1>2, <1>a, <1>b, <1>d DEF StageItem
<1>3. ASSUME NEW a \in Analyses, NEW p \in Proposal, StageDelta(a, p) PROVE QueueInv'
  <2>1. VersionTracksDecision'
    BY <1>3, <1>a, <1>b, <1>d DEF StageDelta, Proposal
  <2>2. RequestStaged'
    BY <1>3, <1>a, <1>b, <1>d DEF StageDelta, Proposal
  <2>3. SeenUndecided'
    BY <1>3, <1>a, <1>b, <1>d DEF StageDelta, Proposal
  <2>4. GrantCommits'
    BY <1>3, <1>a, <1>b, <1>d DEF StageDelta, Proposal
  <2>5. PayloadStaged'
    BY <1>3, <1>a, <1>b, <1>d DEF StageDelta, Proposal
  <2>6. DeltaStaged'
    BY <1>3, <1>a, <1>b, <1>d DEF StageDelta, Proposal
  <2>7. HalfStaged'
    BY <1>3, <1>a, <1>b, <1>d DEF StageDelta, Proposal
  <2>10. ApprovedByApproval'
    BY <1>3, <1>a, <1>b, <1>d DEF StageDelta, Proposal
  <2>8. KeyHasEdge'
    BY <1>3, <1>a, <1>b, <1>d DEF StageDelta, Proposal
  <2>9. VerdictHasEdge'
    BY <1>3, <1>a, <1>b, <1>d DEF StageDelta, Proposal
  <2> QED
    BY <2>1, <2>2, <2>3, <2>4, <2>5, <2>6, <2>7, <2>8, <2>9, <2>10 DEF QueueInv
<1>4. ASSUME NEW t \in Reviewers, Submit(t) PROVE QueueInv'
  <2>1. VersionTracksDecision'
    BY <1>4, <1>a, <1>b, <1>d DEF Submit, Goto
  <2>2. RequestStaged'
    <3>1. PICK d \in Requests : items[d.apv] # Absent /\ req' = [req EXCEPT ![t] = d]
      BY <1>4 DEF Submit
    <3>2. d.apv \in Proposal
      BY RequestsAssumption DEF Decision
    <3>3. items[d.apv].status # "absent"
      BY <3>1, <3>2 DEF Item, Absent
    <3> QED
      BY <1>4, <3>1, <3>3, <1>a, <1>d DEF Submit, Goto
  <2>3. SeenUndecided'
    BY <1>4, <1>a, <1>b, <1>d DEF Submit, Goto
  <2>4. GrantCommits'
    BY <1>4, <1>a, <1>b, <1>d DEF Submit, Goto
  <2>5. PayloadStaged'
    BY <1>4, <1>a, <1>b, <1>d DEF Submit, Goto
  <2>6. DeltaStaged'
    BY <1>4, <1>a, <1>b, <1>d DEF Submit, Goto
  <2>7. HalfStaged'
    BY <1>4, <1>a, <1>b, <1>d DEF Submit, Goto
  <2>10. ApprovedByApproval'
    BY <1>4, <1>a, <1>b, <1>d DEF Submit, Goto
  <2>8. KeyHasEdge'
    BY <1>4, <1>a, <1>b, <1>d DEF Submit, Goto
  <2>9. VerdictHasEdge'
    BY <1>4, <1>a, <1>b, <1>d DEF Submit, Goto
  <2> QED
    BY <2>1, <2>2, <2>3, <2>4, <2>5, <2>6, <2>7, <2>8, <2>9, <2>10 DEF QueueInv
<1>5. ASSUME NEW t \in Reviewers, ReadDecided(t) PROVE QueueInv'
  BY <1>5, <1>a, <1>b, <1>d DEF ReadDecided, Leave
<1>6. ASSUME NEW t \in Reviewers, ReadPending(t) PROVE QueueInv'
  <2>1. VersionTracksDecision'
    BY <1>6, <1>a, <1>b, <1>d DEF ReadPending, Goto, Verdict
  <2>2. RequestStaged'
    BY <1>6, <1>a, <1>b, <1>d DEF ReadPending, Goto, Verdict
  <2>3. SeenUndecided'
    BY <1>6, <1>a, <1>b, <1>d DEF ReadPending, Goto, Verdict
  <2>4. GrantCommits'
    BY <1>6, <1>a, <1>b, <1>d DEF ReadPending, Goto, Verdict
  <2>5. PayloadStaged'
    BY <1>6, <1>a, <1>b, <1>d DEF ReadPending, Goto, Verdict
  <2>6. DeltaStaged'
    BY <1>6, <1>a, <1>b, <1>d DEF ReadPending, Goto, Verdict
  <2>7. HalfStaged'
    BY <1>6, <1>a, <1>b, <1>d DEF ReadPending, Goto, Verdict
  <2>10. ApprovedByApproval'
    BY <1>6, <1>a, <1>b, <1>d DEF ReadPending, Goto, Verdict
  <2>8. KeyHasEdge'
    BY <1>6, <1>a, <1>b, <1>d DEF ReadPending, Goto, Verdict
  <2>9. VerdictHasEdge'
    <3>1. Verdict(req[t], items[req[t].apv]) = "approved"
            => ~IsStale(req[t], items[req[t].apv]) /\ req[t].action = "approve"
      BY ApproveVerdict, <1>6, <1>d DEF ReadPending
    <3>2. outcome'[t] = "approved" => pc'[t] = "delta"
      BY <1>6, <3>1, <1>d DEF ReadPending, Goto, Commits
    <3> QED
      BY <1>6, <3>2, <1>d DEF ReadPending, Goto
  <2> QED
    BY <2>1, <2>2, <2>3, <2>4, <2>5, <2>6, <2>7, <2>8, <2>9, <2>10 DEF QueueInv
<1>7. ASSUME NEW t \in Reviewers, FetchFails(t) PROVE QueueInv'
  BY <1>7, <1>a, <1>b, <1>d DEF FetchFails, Leave
<1>8. ASSUME NEW t \in Reviewers, FetchDelta(t) PROVE QueueInv'
  BY <1>8, <1>a, <1>b, <1>d DEF FetchDelta, Goto
<1>9. ASSUME NEW t \in Reviewers, FetchModifiedDelta(t) PROVE QueueInv'
  BY <1>9, <1>a, <1>b, <1>d DEF FetchModifiedDelta, Goto
<1>10. ASSUME NEW t \in Reviewers, CheckKey(t) PROVE QueueInv'
  <2>1. VersionTracksDecision'
    BY <1>10, <1>a, <1>b, <1>d DEF CheckKey, Goto, KeyOf
  <2>2. RequestStaged'
    BY <1>10, <1>a, <1>b, <1>d DEF CheckKey, Goto, KeyOf
  <2>3. SeenUndecided'
    BY <1>10, <1>a, <1>b, <1>d DEF CheckKey, Goto, KeyOf
  <2>4. GrantCommits'
    BY <1>10, <1>a, <1>b, <1>d DEF CheckKey, Goto, KeyOf
  <2>5. PayloadStaged'
    BY <1>10, <1>a, <1>b, <1>d DEF CheckKey, Goto, KeyOf
  <2>6. DeltaStaged'
    BY <1>10, <1>a, <1>b, <1>d DEF CheckKey, Goto, KeyOf
  <2>7. HalfStaged'
    BY <1>10, <1>a, <1>b, <1>d DEF CheckKey, Goto, KeyOf
  <2>10. ApprovedByApproval'
    BY <1>10, <1>a, <1>b, <1>d DEF CheckKey, Goto, KeyOf
  <2>8. KeyHasEdge'
    BY <1>10, <1>a, <1>b, <1>d DEF CheckKey, Goto, KeyOf
  <2>9. VerdictHasEdge'
    BY <1>10, <1>a, <1>b, <1>d DEF CheckKey, Goto, KeyOf
  <2> QED
    BY <2>1, <2>2, <2>3, <2>4, <2>5, <2>6, <2>7, <2>8, <2>9, <2>10 DEF QueueInv
<1>11. ASSUME NEW t \in Reviewers, ApplyDelta(t) PROVE QueueInv'
  <2>1. VersionTracksDecision'
    BY <1>11, <1>a, <1>b, <1>d DEF ApplyDelta, Goto, KeyOf
  <2>2. RequestStaged'
    BY <1>11, <1>a, <1>b, <1>d DEF ApplyDelta, Goto, KeyOf
  <2>3. SeenUndecided'
    BY <1>11, <1>a, <1>b, <1>d DEF ApplyDelta, Goto, KeyOf
  <2>4. GrantCommits'
    BY <1>11, <1>a, <1>b, <1>d DEF ApplyDelta, Goto, KeyOf
  <2>5. PayloadStaged'
    BY <1>11, <1>a, <1>b, <1>d DEF ApplyDelta, Goto, KeyOf
  <2>6. DeltaStaged'
    BY <1>11, <1>a, <1>b, <1>d DEF ApplyDelta, Goto, KeyOf
  <2>7. HalfStaged'
    BY <1>11, <1>a, <1>b, <1>d DEF ApplyDelta, Goto, KeyOf
  <2>0. req[t].action = "approve" => HasEdge(req[t].apv.edge)'
    BY <1>11, <1>d, TargetType, NullsAssumption DEF ApplyDelta
  <2>10. ApprovedByApproval'
    BY <1>11, <1>a, <1>b, <1>d DEF ApplyDelta, Goto, KeyOf
  <2>8. KeyHasEdge'
    <3>1. \A k \in keys : k.kind = "approve" => graph'[k.apv.edge].rev # NoRev
      BY <1>b DEF Key, Proposal
    <3> QED
      BY <1>11, <2>0, <3>1 DEF ApplyDelta, KeyOf
  <2>9. VerdictHasEdge'
    <3>1. \A q \in Proposal : q.edge \in Edges
      BY DEF Proposal
    <3> QED
      BY <1>11, <2>0, <3>1, <1>b, <1>d DEF ApplyDelta, Goto
  <2> QED
    BY <2>1, <2>2, <2>3, <2>4, <2>5, <2>6, <2>7, <2>8, <2>9, <2>10 DEF QueueInv
<1>12. ASSUME NEW t \in Reviewers, WriteItem(t) PROVE QueueInv'
  <2>1. VersionTracksDecision'
    BY <1>12, <1>a, <1>b, <1>d DEF WriteItem, Goto, Leave
  <2>2. RequestStaged'
    BY <1>12, <1>a, <1>b, <1>d DEF WriteItem, Goto, Leave
  <2>3. SeenUndecided'
    BY <1>12, <1>a, <1>b, <1>d DEF WriteItem, Goto, Leave
  <2>4. GrantCommits'
    BY <1>12, <1>a, <1>b, <1>d DEF WriteItem, Goto, Leave
  <2>5. PayloadStaged'
    BY <1>12, <1>a, <1>b, <1>d DEF WriteItem, Goto, Leave
  <2>6. DeltaStaged'
    BY <1>12, <1>a, <1>b, <1>d DEF WriteItem, Goto, Leave
  <2>7. HalfStaged'
    BY <1>12, <1>a, <1>b, <1>d DEF WriteItem, Goto, Leave
  <2>10. ApprovedByApproval'
    BY <1>12, <1>a, <1>b, <1>d DEF WriteItem, Goto, Leave
  <2>8. KeyHasEdge'
    BY <1>12, <1>a, <1>b, <1>d DEF WriteItem, Goto, Leave
  <2>9. VerdictHasEdge'
    BY SMTT(30), <1>12, <1>a, <1>b, <1>d DEF WriteItem, Goto, Leave
  <2> QED
    BY <2>1, <2>2, <2>3, <2>4, <2>5, <2>6, <2>7, <2>8, <2>9, <2>10 DEF QueueInv
<1>13. ASSUME NEW t \in Reviewers, AppendFeedback(t) PROVE QueueInv'
  BY <1>13, <1>a, <1>b, <1>d DEF AppendFeedback, Leave
<1>14. CASE UNCHANGED vars
  BY <1>14, <1>a, <1>b, <1>d DEF vars
<1> QED
  BY <1>1, <1>2, <1>3, <1>4, <1>5, <1>6, <1>7, <1>8, <1>9, <1>10, <1>11, <1>12, <1>13, <1>14
  DEF Next, Decide

-----------------------------------------------------------------------------
\* The state always has the declared types.
THEOREM TypeCorrect == Spec => []TypeOK
BY InitTypeOK, StepTypeOK, PTL DEF Spec

\* QueueInv is an inductive invariant, given the types.
THEOREM QueueInvariant == Spec => []QueueInv
<1>1. TypeOK /\ QueueInv /\ [Next]_vars => QueueInv'
  BY StepQueueInv
<1> QED
  BY <1>1, InitQueueInv, TypeCorrect, PTL DEF Spec

\* However decisions, runs and re-runs interleave, an item is at version 1 while
\* it is undecided and at version 2 afterwards (ApprovalService.stage_edges and
\* decide): the version never tells two stagings apart.
THEOREM VersionCorrect == Spec => []VersionTracksDecision
<1>1. QueueInv => VersionTracksDecision
  BY DEF QueueInv
<1> QED
  BY <1>1, QueueInvariant, PTL

\* However decisions interleave, an item recorded as approved has an edge on
\* its link, also when apply_delta skipped the commit.
THEOREM ApprovedCorrect == Spec => []ApprovedEdgePresent
<1>1. QueueInv => ApprovedEdgePresent
  BY DEF QueueInv, VerdictHasEdge, HasEdge, ApprovedEdgePresent, NoContent
<1> QED
  BY <1>1, QueueInvariant, PTL

-----------------------------------------------------------------------------
\* The queue starts where GraphCommit starts.
LEMMA PromiseInit == Init => Promise!Init
BY DEF Init, Promise!Init, Absent, NoContent, Granted

\* Every step of the queue is a step of GraphCommit or leaves its state alone.
LEMMA PromiseStep == TypeOK /\ QueueInv /\ [Next]_vars => [Promise!Next]_(Promise!pvars)
<1> SUFFICES ASSUME TypeOK, QueueInv, [Next]_vars PROVE [Promise!Next]_(Promise!pvars)
  OBVIOUS
<1> DEFINE Mstaged == {p \in Proposal : items[p].status # "absent"}
           Mopen == {p \in Proposal : items[p].status = "pending"}
           Mgrant == [t \in Reviewers |-> IF Granted(t) THEN req[t] ELSE NoDecision]
<1>d. /\ \A t \in Reviewers : pc[t] # "idle" => req[t] \in Requests /\ req[t] \in Decision
                                              /\ req[t].apv \in Proposal
                                              /\ req[t].apv.edge \in Edges
      /\ \A p \in Proposal : /\ p.edge \in Edges /\ p.rev \in Revisions
                             /\ p = [edge |-> p.edge, rev |-> p.rev]
      /\ \A e \in Edges, r \in Revisions : [edge |-> e, rev |-> r] \in Proposal
  BY RequestsAssumption DEF TypeOK, Decision, Proposal
<1>s. ASSUME Mstaged' = Mstaged, Mopen' = Mopen, Mgrant' = Mgrant, graph' = graph
      PROVE  [Promise!Next]_(Promise!pvars)
  BY <1>s DEF Promise!pvars
<1> USE DEF TypeOK, shared, locals, runs
<1>1. ASSUME NEW a \in Analyses, StartStaging(a) PROVE [Promise!Next]_(Promise!pvars)
  BY <1>1, <1>s DEF StartStaging, Granted
<1>2. ASSUME NEW a \in Analyses, NEW p \in Proposal, StageItem(a, p)
      PROVE  [Promise!Next]_(Promise!pvars)
  <2>1. Mstaged' = Mstaged \cup {p}
    BY <1>2 DEF StageItem
  <2>2. Mopen' = Mopen \cup {p}
    BY <1>2 DEF StageItem
  <2>3. Mgrant' = Mgrant /\ graph' = graph
    BY <1>2 DEF StageItem, Granted
  <2>4. Promise!Stage(p)
    BY <2>1, <2>2, <2>3 DEF Promise!Stage
  <2> QED
    BY <2>4, <1>2, CandidatesAssumption, <1>d DEF StageItem, Promise!Next
<1>3. ASSUME NEW a \in Analyses, NEW p \in Proposal, StageDelta(a, p)
      PROVE  [Promise!Next]_(Promise!pvars)
  BY <1>3, <1>s DEF StageDelta, Granted
<1>4. ASSUME NEW t \in Reviewers, Submit(t) PROVE [Promise!Next]_(Promise!pvars)
  <2>1. Mgrant' = Mgrant
    BY <1>4 DEF Submit, Goto, Granted
  <2> QED
    BY <1>4, <2>1, <1>s DEF Submit
<1>5. ASSUME NEW t \in Reviewers, ReadDecided(t) PROVE [Promise!Next]_(Promise!pvars)
  <2>1. Mgrant' = Mgrant
    BY <1>5 DEF ReadDecided, Leave, Granted
  <2> QED
    BY <1>5, <2>1, <1>s DEF ReadDecided
<1>6. ASSUME NEW t \in Reviewers, ReadPending(t) PROVE [Promise!Next]_(Promise!pvars)
  <2>1. CASE Commits(req[t]) /\ ~IsStale(req[t], items[req[t].apv])
    <3>1. Mgrant' = [Mgrant EXCEPT ![t] = req[t]] /\ Mgrant[t] = NoDecision
      BY <1>6, <2>1 DEF ReadPending, Goto, Granted
    <3>2. req[t].apv \in Mopen /\ items[req[t].apv].version = 1
      BY <1>6, <1>d DEF ReadPending, QueueInv, VersionTracksDecision
    <3>3. Promise!Grant(t, req[t])
      BY <1>6, <2>1, <3>1, <3>2, <1>d DEF ReadPending, Promise!Grant, IsStale, Commits
    <3>4. req[t] \in Requests
      BY <1>6, <1>d DEF ReadPending
    <3>5. \E d \in Requests : Promise!Grant(t, d)
      BY <3>3, <3>4 DEF Promise!Grant
    <3> QED
      BY <3>5 DEF Promise!Next
  <2>2. CASE ~(Commits(req[t]) /\ ~IsStale(req[t], items[req[t].apv]))
    <3>1. Mgrant' = Mgrant
      BY <1>6, <2>2 DEF ReadPending, Goto, Granted
    <3> QED
      BY <1>6, <3>1, <1>s DEF ReadPending
  <2> QED
    BY <2>1, <2>2
<1>w. ASSUME NEW t \in Reviewers, Mgrant' = [Mgrant EXCEPT ![t] = NoDecision],
             items' = items, graph' = graph
      PROVE  [Promise!Next]_(Promise!pvars)
  BY <1>w DEF Promise!Withdraw, Promise!Next
<1>7. ASSUME NEW t \in Reviewers, FetchFails(t) PROVE [Promise!Next]_(Promise!pvars)
  <2>1. Mgrant' = [Mgrant EXCEPT ![t] = NoDecision]
    BY <1>7 DEF FetchFails, Leave, Granted
  <2> QED
    BY <1>7, <2>1, <1>w DEF FetchFails
<1>8. ASSUME NEW t \in Reviewers, FetchDelta(t) PROVE [Promise!Next]_(Promise!pvars)
  <2>1. Mgrant' = Mgrant
    BY <1>8 DEF FetchDelta, Goto, Granted
  <2> QED
    BY <1>8, <2>1, <1>s DEF FetchDelta
<1>9. ASSUME NEW t \in Reviewers, FetchModifiedDelta(t) PROVE [Promise!Next]_(Promise!pvars)
  <2>1. Mgrant' = Mgrant
    BY <1>9 DEF FetchModifiedDelta, Goto, Granted
  <2> QED
    BY <1>9, <2>1, <1>s DEF FetchModifiedDelta
<1>10. ASSUME NEW t \in Reviewers, CheckKey(t) PROVE [Promise!Next]_(Promise!pvars)
  <2>1. Mgrant' = IF KeyOf(t) \in keys THEN [Mgrant EXCEPT ![t] = NoDecision] ELSE Mgrant
    BY <1>10 DEF CheckKey, Goto, Granted
  <2> QED
    BY <1>10, <2>1, <1>w, <1>s DEF CheckKey
<1>11. ASSUME NEW t \in Reviewers, ApplyDelta(t) PROVE [Promise!Next]_(Promise!pvars)
  <2> DEFINE e == req[t].apv.edge
             r == payload[t].rev
  <2>1. Mgrant[t] = req[t] /\ req[t] # NoDecision /\ e \in Edges
    BY <1>11, <1>d, RequestsAssumption DEF ApplyDelta, Granted
  <2>2. r \in Revisions /\ [edge |-> e, rev |-> r] \in Mstaged
    BY <1>11, <1>d DEF ApplyDelta, QueueInv, PayloadStaged, Staged
  <2>3. payload[t] = [of |-> e, rev |-> r,
                      fix |-> IF req[t].action = "modify" THEN req[t].fix ELSE NoFix]
    BY <1>11 DEF ApplyDelta, QueueInv, PayloadStaged, Content
  <2>4. Mgrant' = [Mgrant EXCEPT ![t] = NoDecision]
    BY <1>11 DEF ApplyDelta, Goto, Granted
  <2>5. graph' = [graph EXCEPT ![Promise!Place(req[t])] = payload[t]]
    BY <1>11 DEF ApplyDelta, Target, Promise!Place
  <2>6. \E x \in Revisions :
           /\ [edge |-> e, rev |-> x] \in Mstaged
           /\ graph' = [graph EXCEPT ![Promise!Place(req[t])] =
                           [of |-> e, rev |-> x,
                            fix |-> IF req[t].action = "modify" THEN req[t].fix ELSE NoFix]]
    BY <2>2, <2>3, <2>5
  <2>7. Mstaged' = Mstaged /\ Mopen' = Mopen
    BY <1>11 DEF ApplyDelta
  <2>8. Promise!Commit(t)
    BY <2>1, <2>4, <2>6, <2>7 DEF Promise!Commit
  <2> QED
    BY <2>8 DEF Promise!Next
<1>12. ASSUME NEW t \in Reviewers, WriteItem(t) PROVE [Promise!Next]_(Promise!pvars)
  <2> DEFINE p == req[t].apv
  <2>1. p \in Proposal /\ items[p].status # "absent" /\ outcome[t] \notin {"absent", "pending"}
    BY <1>12, <1>d DEF WriteItem, QueueInv, RequestStaged, Staged, SeenUndecided, Accepted, Statuses
  <2>2. Mstaged' = Mstaged
    BY <1>12, <2>1 DEF WriteItem
  <2>3. Mopen' = Mopen \ {p}
    BY <1>12, <2>1 DEF WriteItem
  <2>4. Mgrant' = Mgrant
    BY <1>12 DEF WriteItem, Leave, Goto, Granted
  <2>5. graph' = graph
    BY <1>12 DEF WriteItem
  <2>6. p.edge \in Edges /\ p.rev \in Revisions /\ p = [edge |-> p.edge, rev |-> p.rev]
    BY <2>1, <1>d
  <2>7. Promise!Close([edge |-> p.edge, rev |-> p.rev])
    BY <2>2, <2>3, <2>4, <2>5, <2>6 DEF Promise!Close
  <2>8. \E e \in Edges, r \in Revisions : Promise!Close([edge |-> e, rev |-> r])
    BY <2>6, <2>7 DEF Promise!Close
  <2> QED
    BY <2>8 DEF Promise!Next
<1>13. ASSUME NEW t \in Reviewers, AppendFeedback(t) PROVE [Promise!Next]_(Promise!pvars)
  <2>1. Mgrant' = Mgrant
    BY <1>13 DEF AppendFeedback, Leave, Granted
  <2> QED
    BY <1>13, <2>1, <1>s DEF AppendFeedback
<1>14. CASE UNCHANGED vars
  BY <1>14, <1>s DEF vars, Granted
<1> QED
  BY <1>1, <1>2, <1>3, <1>4, <1>5, <1>6, <1>7, <1>8, <1>9, <1>10, <1>11, <1>12, <1>13, <1>14
  DEF Next, Decide

\* The queue implements GraphCommit: the approved graph changes only under a
\* decision granted while its proposal was open and matched the reviewer's
\* expectations, and only to a content staged for the link of that proposal,
\* stored under this link or under the one a correction names instead.
THEOREM PromiseCorrect == Spec => PromiseKept
<1>1. TypeOK /\ QueueInv /\ [Next]_vars => [Promise!Next]_(Promise!pvars)
  BY PromiseStep
<1> QED
  BY <1>1, PromiseInit, TypeCorrect, QueueInvariant, PTL DEF Spec, PromiseKept, Promise!Spec

-----------------------------------------------------------------------------
\* As long as no two decisions were in progress at once: there is one at most,
\* its item is pending until it is written, and the key it applies is new.
Alone == \A t, u \in Reviewers : pc[t] # "idle" /\ pc[u] # "idle" => t = u

StillPending ==
    \A t \in Reviewers :
        pc[t] \in {"delta", "check", "apply", "write"} => items[req[t].apv].status = "pending"

KeyFresh == \A t \in Reviewers : pc[t] = "apply" => KeyOf(t) \notin keys

SerialInv == mode = "serial" => Alone /\ StillPending /\ KeyFresh

\* Every step keeps SerialInv.
LEMMA StepSerialInv == TypeOK /\ SerialInv /\ [Next]_vars => SerialInv'
<1> SUFFICES ASSUME TypeOK, SerialInv, [Next]_vars PROVE SerialInv'
  OBVIOUS
<1>d. \A t \in Reviewers : pc[t] # "idle" => req[t].apv \in Proposal
  BY RequestsAssumption DEF TypeOK, Decision
<1> USE DEF TypeOK, shared, locals, runs, SerialInv, Alone, StillPending, KeyFresh, KeyOf
<1>1. ASSUME NEW a \in Analyses, StartStaging(a) PROVE SerialInv'
  BY <1>1 DEF StartStaging
<1>2. ASSUME NEW a \in Analyses, NEW p \in Proposal, StageItem(a, p) PROVE SerialInv'
  BY <1>2, <1>d DEF StageItem
<1>3. ASSUME NEW a \in Analyses, NEW p \in Proposal, StageDelta(a, p) PROVE SerialInv'
  BY <1>3 DEF StageDelta
<1>4. ASSUME NEW t \in Reviewers, Submit(t) PROVE SerialInv'
  <2>1. mode' = "serial" => mode = "serial" /\ \A u \in Reviewers : pc[u] = "idle"
    BY <1>4 DEF Submit
  <2> QED
    BY <1>4, <2>1 DEF Submit, Goto
<1>5. ASSUME NEW t \in Reviewers, ReadDecided(t) PROVE SerialInv'
  BY <1>5 DEF ReadDecided, Leave
<1>6. ASSUME NEW t \in Reviewers, ReadPending(t) PROVE SerialInv'
  BY <1>6 DEF ReadPending, Goto
<1>7. ASSUME NEW t \in Reviewers, FetchFails(t) PROVE SerialInv'
  BY <1>7 DEF FetchFails, Leave
<1>8. ASSUME NEW t \in Reviewers, FetchDelta(t) PROVE SerialInv'
  BY <1>8 DEF FetchDelta, Goto
<1>9. ASSUME NEW t \in Reviewers, FetchModifiedDelta(t) PROVE SerialInv'
  BY <1>9 DEF FetchModifiedDelta, Goto
<1>10. ASSUME NEW t \in Reviewers, CheckKey(t) PROVE SerialInv'
  BY <1>10 DEF CheckKey, Goto
<1>11. ASSUME NEW t \in Reviewers, ApplyDelta(t) PROVE SerialInv'
  BY <1>11 DEF ApplyDelta, Goto
<1>12. ASSUME NEW t \in Reviewers, WriteItem(t) PROVE SerialInv'
  <2> SUFFICES ASSUME mode = "serial" PROVE Alone' /\ StillPending' /\ KeyFresh'
    BY <1>12 DEF WriteItem
  <2>1. /\ pc[t] = "write" /\ \A u \in Reviewers : u # t => pc[u] = "idle" /\ pc'[u] = "idle"
        /\ pc'[t] \in {"idle", "feedback"}
    BY <1>12 DEF WriteItem, Goto, Leave
  <2> QED
    BY <2>1
<1>13. ASSUME NEW t \in Reviewers, AppendFeedback(t) PROVE SerialInv'
  BY <1>13 DEF AppendFeedback, Leave
<1>14. CASE UNCHANGED vars
  BY <1>14 DEF vars
<1> QED
  BY <1>1, <1>2, <1>3, <1>4, <1>5, <1>6, <1>7, <1>8, <1>9, <1>10, <1>11, <1>12, <1>13, <1>14
  DEF Next, Decide

\* SerialInv holds in every state, given the types.
LEMMA SerialInvariant == Spec => [](TypeOK /\ SerialInv)
<1>1. Init => TypeOK /\ SerialInv
  BY InitTypeOK DEF Init, SerialInv, Alone, StillPending, KeyFresh
<1>2. (TypeOK /\ SerialInv) /\ [Next]_vars => (TypeOK /\ SerialInv)'
  BY StepTypeOK, StepSerialInv
<1> QED
  BY <1>1, <1>2, PTL DEF Spec

\* For any number of threads: while decisions do not overlap, a decided item
\* changes only by being staged again (decide returns an item that is not
\* pending as it is, and staging overwrites whatever is there).
THEOREM ReopenCorrect == Spec => OnlyStagingReopens
<1> DEFINE Only ==
      \A p \in Proposal :
         /\ mode = "serial"
         /\ items[p].status \notin {"absent", "pending"} /\ items'[p] # items[p]
         => items'[p].status = "pending"
<1>1. TypeOK /\ SerialInv /\ [Next]_vars => Only
  <2> SUFFICES ASSUME TypeOK, SerialInv, [Next]_vars PROVE Only
    OBVIOUS
  <2>1. ASSUME NEW a \in Analyses, NEW p \in Proposal, StageItem(a, p) PROVE Only
    BY <2>1 DEF StageItem, TypeOK
  <2>2. ASSUME NEW t \in Reviewers, WriteItem(t) PROVE Only
    <3>1. \A p \in Proposal : p # req[t].apv => items'[p] = items[p]
      BY <2>2 DEF WriteItem, TypeOK
    <3>2. mode = "serial" => items[req[t].apv].status = "pending"
      BY <2>2 DEF WriteItem, SerialInv, StillPending
    <3> QED
      BY <3>1, <3>2
  <2>3. CASE UNCHANGED items
    BY <2>3
  <2> QED
    BY <2>1, <2>2, <2>3 DEF Next, Decide, StartStaging, StageDelta, Submit, ReadDecided,
       ReadPending, FetchFails, FetchDelta, FetchModifiedDelta, CheckKey, ApplyDelta,
       AppendFeedback, vars, shared
<1>2. OnlyStagingReopens <=> [][Only]_vars
  BY DEF OnlyStagingReopens
<1> HIDE DEF Only
<1> QED
  BY <1>1, <1>2, SerialInvariant, PTL DEF Spec

\* For any number of threads: while decisions do not overlap, the graph changes
\* only under a key it has not seen (MemoryGraphBackend.apply_delta), so at most
\* once for each key.
THEOREM FreshKeyCorrect == Spec => FreshKeyPerCommit
<1> DEFINE Fresh == mode = "serial" /\ graph' # graph => keys' # keys
<1>1. TypeOK /\ SerialInv /\ [Next]_vars => Fresh
  <2> SUFFICES ASSUME TypeOK, SerialInv, [Next]_vars PROVE Fresh
    OBVIOUS
  <2>1. ASSUME NEW t \in Reviewers, ApplyDelta(t) PROVE Fresh
    BY <2>1 DEF ApplyDelta, SerialInv, KeyFresh
  <2>2. CASE UNCHANGED graph
    BY <2>2
  <2> QED
    BY <2>1, <2>2 DEF Next, Decide, StartStaging, StageItem, StageDelta, Submit, ReadDecided,
       ReadPending, FetchFails, FetchDelta, FetchModifiedDelta, CheckKey, WriteItem,
       AppendFeedback, vars, shared
<1>2. FreshKeyPerCommit <=> [][Fresh]_vars
  BY DEF FreshKeyPerCommit
<1> HIDE DEF Fresh
<1> QED
  BY <1>1, <1>2, SerialInvariant, PTL DEF Spec
=============================================================================

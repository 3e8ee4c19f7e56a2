--------------------------- MODULE ApprovalQueue ---------------------------
(***************************************************************************)
(* The approval queue of one worker process: ApprovalService together      *)
(* with the in-memory graph it commits to.  Endpoints run in a thread      *)
(* pool and nothing in the service takes a lock, so the steps of several   *)
(* reviewers deciding and of several analysis runs staging interleave      *)
(* freely; an action stands for the code between two accesses to the       *)
(* shared dictionaries.                                                    *)
(*                                                                         *)
(* A proposal is the content of one candidate edge: the link it is about   *)
(* (edge_id) and the revision of its evidence.  Its hash is its approval   *)
(* id, so a changed source yields a new approval item for the same link,   *)
(* while the graph delta is named after the link alone.  A correction may  *)
(* set any field of the edge, its id included: the corrected edge is then  *)
(* written under the link the correction names.                            *)
(*                                                                         *)
(* Audit, persistence and restart belong to DecisionCommand.                *)
(***************************************************************************)
EXTENDS Naturals, FiniteSets

CONSTANTS
    Reviewers,   \* request threads that run a decision
    Analyses,    \* threads that run an analysis or a replay
    Edges,       \* links between two nodes: edge ids
    Revisions,   \* contents the evidence of a link may have
    Candidates,  \* the proposals the analysed artifacts give rise to
    Fixes,       \* corrections that pass the edge contract
    Names,       \* the edge id a correction sets, NoEdge for none
    BadFix,      \* a correction the edge contract refuses
    NoEdge, NoRev, NoFix, NoDecision,
    Requests,    \* the decisions reviewers may send
    MaxRequests, \* bound: decisions sent in a behaviour
    MaxRuns      \* bound: analyses started in a behaviour

Proposal == [edge: Edges, rev: Revisions]

Actions == {"approve", "reject", "modify", "hold"}

Statuses == {"pending", "approved", "rejected", "modified_approved", "held", "stale"}

\* A decision.  version = 0 and hash = NoRev: no expectation was sent.
\* badReason: the reason code is not one feedback events allow.
Decision == [apv: Proposal, action: Actions, version: Nat,
             hash: Revisions \cup {NoRev}, fix: Fixes \cup {NoFix, BadFix},
             badReason: BOOLEAN]

ASSUME NullsAssumption ==
    /\ NoRev \notin Revisions /\ NoEdge \notin Edges
    /\ NoFix \notin Fixes /\ BadFix \notin Fixes /\ BadFix # NoFix
ASSUME NamesAssumption == Names \in [Fixes -> Edges \cup {NoEdge}]
ASSUME CandidatesAssumption == Candidates \subseteq Proposal
ASSUME RequestsAssumption == Requests \subseteq Decision /\ NoDecision \notin Requests
ASSUME BoundsAssumption == MaxRequests \in Nat /\ MaxRuns \in Nat

VARIABLES
    items,     \* approval items by proposal; status "absent": no such id
    deltas,    \* delta_<edge_id>: the revision its payload was taken from
    modified,  \* delta_<edge_id>_modified_v<version>
    graph,     \* the approved edge stored under each link
    keys,      \* the graph's idempotency keys
    feedback,  \* feedback events recorded for each approval item
    pc, req, seen, payload, outcome,   \* a reviewer thread's locals
    todo, half,                        \* an analysis thread's locals
    mode,      \* history: "overlapped" once two decisions were in progress at once
    sent, started                      \* the two bounds' counters

shared == <<items, deltas, modified, graph, keys, feedback>>
locals == <<pc, req, seen, payload, outcome>>
runs   == <<todo, half>>
vars   == <<shared, locals, runs, mode, sent, started>>

Absent == [status |-> "absent", version |-> 0]
Item   == [status: Statuses \cup {"absent"}, version: Nat]

\* What an edge payload says: the proposal it was made from and the correction
\* made to it; rev = NoRev: no such edge.
Content   == [of: Edges \cup {NoEdge}, rev: Revisions \cup {NoRev}, fix: Fixes \cup {NoFix}]
NoContent == [of |-> NoEdge, rev |-> NoRev, fix |-> NoFix]

Key == [apv: Proposal, version: Nat, kind: Actions]

ModifiedDelta == [edge: Edges, version: Nat, content: Content]

TypeOK ==
    /\ items \in [Proposal -> Item]
    /\ deltas \in [Edges -> Revisions \cup {NoRev}]
    /\ modified \subseteq ModifiedDelta
    /\ graph \in [Edges -> Content]
    /\ keys \subseteq Key
    /\ feedback \in [Proposal -> Nat]
    /\ pc \in [Reviewers -> {"idle", "decide", "delta", "check", "apply",
                             "write", "feedback"}]
    /\ req \in [Reviewers -> Requests \cup {NoDecision}]
    /\ \A t \in Reviewers : pc[t] # "idle" => req[t] \in Requests
    /\ seen \in [Reviewers -> Item]
    /\ payload \in [Reviewers -> Content]
    /\ outcome \in [Reviewers -> Statuses]
    /\ todo \in [Analyses -> SUBSET Candidates]
    /\ half \in [Analyses -> SUBSET Candidates]
    /\ mode \in {"serial", "overlapped"}
    /\ sent \in 0..MaxRequests
    /\ started \in 0..MaxRuns

Init ==
    /\ items = [p \in Proposal |-> Absent]
    /\ deltas = [e \in Edges |-> NoRev]
    /\ modified = {}
    /\ graph = [e \in Edges |-> NoContent]
    /\ keys = {}
    /\ feedback = [p \in Proposal |-> 0]
    /\ pc = [t \in Reviewers |-> "idle"]
    /\ req = [t \in Reviewers |-> NoDecision]
    /\ seen = [t \in Reviewers |-> Absent]
    /\ payload = [t \in Reviewers |-> NoContent]
    /\ outcome = [t \in Reviewers |-> "pending"]
    /\ todo = [a \in Analyses |-> {}]
    /\ half = [a \in Analyses |-> {}]
    /\ mode = "serial"
    /\ sent = 0
    /\ started = 0

-----------------------------------------------------------------------------
(* Staging: the last stage of an analysis or a replay.                       *)

\* The candidate edges of one run: at most one content for each link.
OnePerLink(links) == \A p, q \in links : p.edge = q.edge => p = q

\* A run has linked its source snapshot and is about to stage the edges.
StartStaging(a) ==
    /\ started < MaxRuns
    /\ todo[a] = {} /\ half[a] = {}
    /\ \E links \in SUBSET Candidates :
          /\ links # {} /\ OnePerLink(links)
          /\ todo' = [todo EXCEPT ![a] = links]
    /\ started' = started + 1
    /\ UNCHANGED <<shared, locals, half, mode, sent>>

\* The item goes into the queue first, whatever was under its id ...
StageItem(a, p) ==
    /\ p \in todo[a] /\ half[a] = {}
    /\ items' = [items EXCEPT ![p] = [status |-> "pending", version |-> 1]]
    /\ todo' = [todo EXCEPT ![a] = @ \ {p}]
    /\ half' = [half EXCEPT ![a] = {p}]
    /\ UNCHANGED <<deltas, modified, graph, keys, feedback, locals, mode, sent, started>>

\* ... and its delta second, under the name every revision of the link shares.
StageDelta(a, p) ==
    /\ p \in half[a]
    /\ deltas' = [deltas EXCEPT ![p.edge] = p.rev]
    /\ half' = [half EXCEPT ![a] = {}]
    /\ UNCHANGED <<items, modified, graph, keys, feedback, locals, todo, mode, sent, started>>

-----------------------------------------------------------------------------
(* Deciding: the body of ApprovalService.decide, step by step.               *)

\* The thread leaves decide, by its return or by an exception.
Leave(t) ==
    /\ pc' = [pc EXCEPT ![t] = "idle"]
    /\ req' = [req EXCEPT ![t] = NoDecision]
    /\ seen' = [seen EXCEPT ![t] = Absent]
    /\ payload' = [payload EXCEPT ![t] = NoContent]
    /\ outcome' = [outcome EXCEPT ![t] = "pending"]

Goto(t, label) == pc' = [pc EXCEPT ![t] = label]

\* A request for a known approval id reaches the service.
Submit(t) ==
    /\ sent < MaxRequests
    /\ pc[t] = "idle"
    /\ \E d \in Requests :
          /\ items[d.apv] # Absent
          /\ req' = [req EXCEPT ![t] = d]
    /\ Goto(t, "decide")
    /\ mode' = IF \E u \in Reviewers : pc[u] # "idle" THEN "overlapped" ELSE mode
    /\ sent' = sent + 1
    /\ UNCHANGED <<shared, seen, payload, outcome, runs, started>>

\* Mutant: only the proposal hash is compared.
IsStale_HashOnly(d, item) == d.hash # NoRev /\ d.hash # d.apv.rev

\* _is_stale_decision: the expectations sent do not match the item read.
IsStale(d, item) ==
    \/ d.version # 0 /\ d.version # item.version
    \/ d.hash # NoRev /\ d.hash # d.apv.rev

\* Only these two ways of deciding touch the graph.
Commits(d) == d.action = "approve" \/ (d.action = "modify" /\ d.fix # NoFix)

Verdict(d, item) ==
    IF IsStale(d, item) THEN "stale"
    ELSE CASE d.action = "approve" -> "approved"
           [] d.action = "reject"  -> "rejected"
           [] d.action = "hold"    -> "held"
           [] OTHER                -> "modified_approved"

\* decide returns an item that is not pending as it is.
ReadDecided(t) ==
    /\ pc[t] = "decide"
    /\ items[req[t].apv].status # "pending"
    /\ Leave(t)
    /\ UNCHANGED <<shared, runs, mode, sent, started>>

\* Mutant: the check that the item is pending is gone.
ReadPending_AnyStatus(t) ==
    LET d == req[t]
        item == items[d.apv]
    IN  /\ pc[t] = "decide"
        /\ seen' = [seen EXCEPT ![t] = item]
        /\ outcome' = [outcome EXCEPT ![t] = Verdict(d, item)]
        /\ Goto(t, IF Commits(d) /\ ~IsStale(d, item) THEN "delta" ELSE "write")
        /\ UNCHANGED <<shared, req, payload, runs, mode, sent, started>>

\* A pending item: the branch is chosen from the copy read here.
ReadPending(t) ==
    LET d == req[t]
        item == items[d.apv]
    IN  /\ pc[t] = "decide"
        /\ item.status = "pending"
        /\ seen' = [seen EXCEPT ![t] = item]
        /\ outcome' = [outcome EXCEPT ![t] = Verdict(d, item)]
        /\ Goto(t, IF Commits(d) /\ ~IsStale(d, item) THEN "delta" ELSE "write")
        /\ UNCHANGED <<shared, req, payload, runs, mode, sent, started>>

\* The delta the item refers to is not there yet, or the correction does not
\* make a valid edge: the request ends in an exception.
FetchFails(t) ==
    LET d == req[t] IN
    /\ pc[t] = "delta"
    /\ deltas[d.apv.edge] = NoRev \/ (d.action = "modify" /\ d.fix = BadFix)
    /\ Leave(t)
    /\ UNCHANGED <<shared, runs, mode, sent, started>>

FetchDelta(t) ==
    LET d == req[t]
        current == [of |-> d.apv.edge, rev |-> deltas[d.apv.edge], fix |-> NoFix]
    IN  /\ pc[t] = "delta"
        /\ deltas[d.apv.edge] # NoRev
        /\ d.action = "approve"
        /\ payload' = [payload EXCEPT ![t] = current]
        /\ Goto(t, "check")
        /\ UNCHANGED <<shared, req, seen, outcome, runs, mode, sent, started>>

\* The modified delta is built from the delta the item refers to and stored
\* under the link and the version of the item, whatever link its edge names.
FetchModifiedDelta(t) ==
    LET d == req[t]
        v == seen[t].version
        corrected == [of |-> d.apv.edge, rev |-> deltas[d.apv.edge], fix |-> d.fix]
    IN  /\ pc[t] = "delta"
        /\ deltas[d.apv.edge] # NoRev
        /\ d.action = "modify" /\ d.fix \in Fixes
        /\ payload' = [payload EXCEPT ![t] = corrected]
        /\ modified' = {m \in modified : <<m.edge, m.version>> # <<d.apv.edge, v>>}
                         \cup {[edge |-> d.apv.edge, version |-> v, content |-> corrected]}
        /\ Goto(t, "check")
        /\ UNCHANGED <<items, deltas, graph, keys, feedback, req, seen, outcome, runs, mode, sent, started>>

\* "<approval id>:<version>", with ":modify" for a modification.
KeyOf(t) == [apv |-> req[t].apv, version |-> seen[t].version, kind |-> req[t].action]

\* Mutant: the key is recorded when it is checked, before the edge is written.
CheckKey_Records(t) ==
    /\ pc[t] = "check"
    /\ Goto(t, IF KeyOf(t) \in keys THEN "write" ELSE "apply")
    /\ keys' = keys \cup {KeyOf(t)}
    /\ UNCHANGED <<items, deltas, modified, graph, feedback>>
    /\ UNCHANGED <<req, seen, payload, outcome, runs, mode, sent, started>>

\* Mutant: keys are not looked up.
CheckKey_Never(t) ==
    /\ pc[t] = "check"
    /\ Goto(t, "apply")
    /\ UNCHANGED <<shared, req, seen, payload, outcome, runs, mode, sent, started>>

\* MemoryGraphBackend.apply_delta returns at once for a key it has seen.
CheckKey(t) ==
    /\ pc[t] = "check"
    /\ Goto(t, IF KeyOf(t) \in keys THEN "write" ELSE "apply")
    /\ UNCHANGED <<shared, req, seen, payload, outcome, runs, mode, sent, started>>

\* The link under which a decision's edge is stored: the edge's own id, which a
\* correction replaces when it names another.
Target(d) ==
    IF d.action = "modify" /\ d.fix \in Fixes /\ Names[d.fix] # NoEdge
    THEN Names[d.fix] ELSE d.apv.edge

\* The edge replaces whatever is under its id, another link's edge included.
ApplyDelta(t) ==
    /\ pc[t] = "apply"
    /\ graph' = [graph EXCEPT ![Target(req[t])] = payload[t]]
    /\ keys' = keys \cup {KeyOf(t)}
    /\ Goto(t, "write")
    /\ UNCHANGED <<items, deltas, modified, feedback, req, seen, payload, outcome, runs, mode, sent, started>>

\* Mutant: the version is not advanced.
WriteItem_SameVersion(t) ==
    /\ pc[t] = "write"
    /\ items' = [items EXCEPT ![req[t].apv] =
                    [status |-> outcome[t], version |-> seen[t].version]]
    /\ IF outcome[t] = "stale"
       THEN Leave(t)
       ELSE Goto(t, "feedback") /\ UNCHANGED <<req, seen, payload, outcome>>
    /\ UNCHANGED <<deltas, modified, graph, keys, feedback, runs, mode, sent, started>>

\* The copy read in ReadPending, updated, replaces whatever is there now.
WriteItem(t) ==
    /\ pc[t] = "write"
    /\ items' = [items EXCEPT ![req[t].apv] =
                    [status |-> outcome[t], version |-> seen[t].version + 1]]
    /\ IF outcome[t] = "stale"
       THEN Leave(t)
       ELSE Goto(t, "feedback") /\ UNCHANGED <<req, seen, payload, outcome>>
    /\ UNCHANGED <<deltas, modified, graph, keys, feedback, runs, mode, sent, started>>

\* The feedback event is built last: a reason code it does not allow raises.
AppendFeedback(t) ==
    /\ pc[t] = "feedback"
    /\ feedback' = IF req[t].badReason THEN feedback
                   ELSE [feedback EXCEPT ![req[t].apv] = @ + 1]
    /\ Leave(t)
    /\ UNCHANGED <<items, deltas, modified, graph, keys, runs, mode, sent, started>>

-----------------------------------------------------------------------------
Decide(t) ==
    \/ ReadDecided(t) \/ ReadPending(t)
    \/ FetchFails(t) \/ FetchDelta(t) \/ FetchModifiedDelta(t)
    \/ CheckKey(t) \/ ApplyDelta(t)
    \/ WriteItem(t) \/ AppendFeedback(t)

Next ==
    \/ \E a \in Analyses : StartStaging(a)
    \/ \E a \in Analyses, p \in Proposal : StageItem(a, p) \/ StageDelta(a, p)
    \/ \E t \in Reviewers : Submit(t) \/ Decide(t)

Spec == Init /\ [][Next]_vars

-----------------------------------------------------------------------------
(* Properties                                                                *)

\* An item's version tells decided from undecided and nothing more: staging
\* writes 1 and a decision 2, so no item ever reaches version 3 and every
\* staging looks the same to a reviewer's expected_version and to the
\* idempotency key made from it.
VersionTracksDecision ==
    \A p \in Proposal :
        /\ items[p].status = "absent"  => items[p].version = 0
        /\ items[p].status = "pending" => items[p].version = 1
        /\ items[p].status \notin {"absent", "pending"} => items[p].version = 2

\* An approved item has an edge on its link, also when its commit was skipped
\* because the key had been seen and whatever other threads did meanwhile.
ApprovedEdgePresent ==
    \A p \in Proposal : items[p].status = "approved" => graph[p.edge] # NoContent

\* Threads that hold a decision accepted for the graph and not yet applied.
Granted(t) == pc[t] \in {"delta", "check", "apply"}

\* The queue keeps the promise of GraphCommit.
Promise == INSTANCE GraphCommit WITH
    staged <- {p \in Proposal : items[p].status # "absent"},
    open   <- {p \in Proposal : items[p].status = "pending"},
    grant  <- [t \in Reviewers |-> IF Granted(t) THEN req[t] ELSE NoDecision]

PromiseKept == Promise!Spec

\* As long as no two decisions were in progress at once, a decided item changes
\* only when a later run stages it again.
OnlyStagingReopens ==
    [][\A p \in Proposal :
         /\ mode = "serial"
         /\ items[p].status \notin {"absent", "pending"} /\ items'[p] # items[p]
         => items'[p].status = "pending"]_vars

\* "graph commit is idempotent": as long as no two decisions were in progress at
\* once, the graph changes at most once for a key, however often the proposal
\* was staged again and decided.
FreshKeyPerCommit == [][mode = "serial" /\ graph' # graph => keys' # keys]_vars

\* The inductive invariant behind VersionTracksDecision, ApprovedEdgePresent
\* and PromiseKept: what the locals of a thread still say about the shared
\* state after other threads have run.
Staged(p)   == items[p].status # "absent"
HasEdge(e)  == graph[e].rev # NoRev
Accepted(t) == pc[t] \in {"delta", "check", "apply", "write", "feedback"}

RequestStaged == \A t \in Reviewers : pc[t] # "idle" => Staged(req[t].apv)

SeenUndecided ==
    \A t \in Reviewers : Accepted(t) => seen[t].version = 1 /\ outcome[t] # "pending"

GrantCommits == \A t \in Reviewers : Granted(t) => Commits(req[t])

PayloadStaged ==
    \A t \in Reviewers : pc[t] \in {"check", "apply"} =>
        /\ payload[t].rev \in Revisions
        /\ payload[t].of = req[t].apv.edge
        /\ Staged([edge |-> req[t].apv.edge, rev |-> payload[t].rev])
        /\ payload[t].fix = IF req[t].action = "modify" THEN req[t].fix ELSE NoFix

DeltaStaged == \A e \in Edges : deltas[e] # NoRev => Staged([edge |-> e, rev |-> deltas[e]])

HalfStaged == \A a \in Analyses : \A p \in half[a] : Staged(p)

\* The key of a modification says nothing of its link: the correction may have
\* named another one.
KeyHasEdge == \A k \in keys : k.kind = "approve" => HasEdge(k.apv.edge)

ApprovedByApproval ==
    \A t \in Reviewers : Accepted(t) /\ outcome[t] = "approved" => req[t].action = "approve"

VerdictHasEdge ==
    /\ \A t \in Reviewers :
          pc[t] \in {"write", "feedback"} /\ outcome[t] = "approved" => HasEdge(req[t].apv.edge)
    /\ \A p \in Proposal : items[p].status = "approved" => HasEdge(p.edge)

QueueInv ==
    /\ VersionTracksDecision /\ RequestStaged /\ SeenUndecided /\ GrantCommits
    /\ PayloadStaged /\ DeltaStaged /\ HalfStaged /\ KeyHasEdge
    /\ ApprovedByApproval /\ VerdictHasEdge

-----------------------------------------------------------------------------
(* What the design documents say and the code does not do                    *)

\* "stale approval is not committed": a decision that pins the hash of the
\* proposal it reviewed commits that proposal, at least while nothing is being
\* staged.
StaleNotCommitted ==
    [][\A t \in Reviewers :
         /\ pc[t] = "apply" /\ pc'[t] = "write" /\ req[t].hash # NoRev
         /\ \A a \in Analyses : todo[a] = {} /\ half[a] = {}
         => graph'[Target(req[t])].rev = req[t].hash]_vars
=============================================================================

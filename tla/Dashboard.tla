----------------------------- MODULE Dashboard -----------------------------
(***************************************************************************)
(* What the pages show of one project: the work queue, the counts and the  *)
(* health of the dashboard (dashboard/service.py) and the graph page       *)
(* (graph/projection.py, api/routes/graph.py).  Nothing of it is stored:   *)
(* each request computes it from the registries, and some of these outlive *)
(* a restart while others do not.                                          *)
(*                                                                         *)
(* The registries change as in the modules that own them, told shorter: an *)
(* analysis stages its links, then registers and stores its findings; a    *)
(* decision commits a link to the graph, then marks the item and stores    *)
(* the queue; a triage is one step.  The links the sources hold come and   *)
(* go between two analyses.  The graph page reads the nodes, then the      *)
(* links, then the queue, and other requests run in between; it shows as   *)
(* many nodes as the request's limit lets it, in an order of its own, and  *)
(* the links between these.  Every decision has the same reason, other     *)
(* than a security concern.  A source cursor is kept for each scenario;    *)
(* the analyses here are of scenarios of their own, so that none replaces  *)
(* the cursor of another.                                                  *)
(***************************************************************************)
EXTENDS FindingRules, Sequences, Integers

CONSTANTS
    Readers,    \* requests for the graph page
    Order,      \* the order of the nodes by their type and id
    Limits,     \* how many nodes a request asks for
    MaxShown,   \* and the most it gets
    Starts,     \* bound: what the sources may hold at first
    Freshness,  \* what becomes of the sources of an analysis that goes through
    Triages,    \* statuses a reviewer gives a finding, other than open
    MaxRuns,    \* bound: analyses in a behaviour
    MaxEdits,   \* bound: links the sources gain or lose
    MaxTriages, \* bound: triages
    MaxFeedback, \* bound: decisions
    MaxCrashes  \* bound: restarts

ASSUME DashboardAssumption ==
    /\ Starts \subseteq SUBSET Links
    /\ Freshness \subseteq {"fresh", "warning", "failed"}
    /\ "open" \notin Triages
    /\ IsFiniteSet(Nodes)
    /\ Order \in [Nodes -> Nat] /\ \A x, y \in Nodes : Order[x] = Order[y] => x = y
    /\ Limits \subseteq Int /\ MaxShown \in Nat \ {0}
    /\ \A n \in {MaxRuns, MaxEdits, MaxTriages, MaxFeedback, MaxCrashes} : n \in Nat

RunStatus == {"running", "succeeded", "failed"}
ItemStatus == {"none", "pending", "approved", "rejected"}

VARIABLES
    source,   \* the links the sources hold
    mem,      \* the registries
    disk,     \* what the store has of them
    analyses, \* the results held in memory: what was linked and found
    run,      \* the run in progress
    deciding, \* links committed whose item is still pending
    reader,
    settled,  \* history: findings triaged since they were last found
    torn,     \* history: a process stopped between an analysis's staging and its end
    edits, triages, crashes

dashboardVars == <<source, mem, disk, analyses, run, deciding, reader, settled, torn,
          edits, triages, crashes>>

AllFindings == UNION {Findings(links) : links \in SUBSET Links}

Empty == [nodes |-> {}, edges |-> {}, items |-> [l \in Links |-> "none"],
          found |-> [f \in {} |-> "open"], runs |-> <<>>, cursors |-> <<>>, feedback |-> 0]

Idle == [pc |-> "idle", links |-> {}]
NoView == [pc |-> "idle", nodes |-> {}, edges |-> {}, live |-> {}, decided |-> {}]

DashboardTypeOK ==
    /\ source \subseteq Links
    /\ \A m \in {mem, disk} :
          /\ m.nodes \subseteq Nodes /\ m.edges \subseteq Links
          /\ m.items \in [Links -> ItemStatus]
          /\ DOMAIN m.found \subseteq AllFindings
          /\ \A f \in DOMAIN m.found : m.found[f] \in Triages \cup {"open"}
          /\ m.runs \in Seq(RunStatus) /\ Len(m.runs) <= MaxRuns
          /\ m.cursors \in Seq(Freshness) /\ Len(m.cursors) <= Len(m.runs)
          /\ m.feedback \in 0..MaxFeedback
    /\ analyses \in Seq([links : SUBSET Links, findings : SUBSET AllFindings])
    /\ run \in [pc : {"idle", "fetch", "staged"}, links : SUBSET Links]
    /\ deciding \subseteq Links
    /\ reader \in [Readers -> [pc : {"idle", "nodes", "edges"}, nodes : SUBSET Nodes,
                              edges : SUBSET Links, live : SUBSET Links,
                              decided : SUBSET Links]]
    /\ settled \subseteq AllFindings /\ torn \in BOOLEAN
    /\ edits \in 0..MaxEdits /\ triages \in 0..MaxTriages /\ crashes \in 0..MaxCrashes

DashboardInit ==
    /\ source \in Starts
    /\ mem = Empty /\ disk = Empty /\ analyses = <<>> /\ run = Idle /\ deciding = {}
    /\ reader = [r \in Readers |-> NoView]
    /\ settled = {} /\ torn = FALSE /\ edits = 0 /\ triages = 0 /\ crashes = 0

-----------------------------------------------------------------------------
(* What the pages compute                                                    *)

\* The proposals the graph page shows as pending links, if their nodes are known.
PendingLinks == {l \in Links : mem.items[l] = "pending"}

\* The links between the given nodes.
Joined(nodes, links) == {l \in links : From[l] \in nodes /\ To[l] \in nodes}

Known(links) == Joined(mem.nodes, links)

\* Nodes that a result in memory has an urgent finding about, whatever became of it.
Risky ==
    {x \in Nodes : \E i \in DOMAIN analyses : \E f \in analyses[i].findings :
                     x \in f.nodes /\ Severity(f) \in {"critical", "high"}}

\* A page is computed from what was read for it: nodes, approved and proposed links.
PageOf(nodes, approved, pending) ==
    [nodes |-> nodes, links |-> Joined(nodes, approved \cup pending), pending |-> pending,
     risky |-> Risky]

\* Mutant: only approved links make a node's degree.
Touching_Approved(x, v) == {l \in v.links \ v.pending : x \in {From[l], To[l]}}

\* The links that make a node's degree; without any the node is an orphan.
Touching(x, v) == {l \in v.links : x \in {From[l], To[l]}}

\* Orphans come first, then nodes at risk, then those with proposals.
Group(x, v) ==
    LET touching == Touching(x, v)
    IN  (IF touching = {} THEN 0 ELSE 4) + (IF x \in v.risky THEN 0 ELSE 2)
            + (IF touching \cap v.pending # {} THEN 0 ELSE 1)

\* The nodes of s that are sorted before x.
Sooner(x, s, v) ==
    LET group == Group(x, v)
    IN  {y \in s \ {x} : \/ Group(y, v) < group
                         \/ Order[y] < Order[x] /\ Group(y, v) = group}

\* A limit outside 1..MaxShown is moved to its nearer end.
CappedLimit(n) == IF n < 1 THEN 1 ELSE IF n > MaxShown THEN MaxShown ELSE n

\* What a page is about in its modes for open proposals, for orphans and for everything,
\* and the first of it.
Candidates(mode, v) ==
    CASE mode = "pending" -> {x \in v.nodes : Touching(x, v) \cap v.pending # {}}
      [] mode = "orphans" -> {x \in v.nodes : Touching(x, v) = {}}
      [] mode = "full" -> v.nodes

SelectedNodes(mode, v, n) ==
    LET all == Candidates(mode, v)
    IN  {x \in all : Cardinality(Sooner(x, all, v)) < CappedLimit(n)}

\* The links between selected nodes.
Visible(mode, v, n) == Joined(SelectedNodes(mode, v, n), v.links)

\* What the page says of itself.
Truncated(mode, v, n) == Cardinality(SelectedNodes(mode, v, n)) < Cardinality(v.nodes)

\* Mutant: the results in memory speak for themselves.
ProjectFindings_OfResults ==
    LET held == UNION {analyses[i].findings : i \in DOMAIN analyses}
        known == {f \in DOMAIN mem.found :
                    f.nodes \cap mem.nodes # {} \/ Known(f.links \cap mem.edges) # {}}
    IN  [f \in held \cup known |-> IF f \in held THEN "open" ELSE mem.found[f]]

\* Findings of the results in memory and of the registry, the latter's status first; a
\* finding is the project's if one of its nodes or edges is in the graph.
ProjectFindings ==
    LET held == UNION {analyses[i].findings : i \in DOMAIN analyses}
        known == {f \in DOMAIN mem.found :
                    f.nodes \cap mem.nodes # {} \/ Known(f.links \cap mem.edges) # {}}
    IN  [f \in held \cup known |-> IF f \in DOMAIN mem.found THEN mem.found[f] ELSE "open"]

OpenFindings == {f \in DOMAIN ProjectFindings : ProjectFindings[f] = "open"}

\* The eval gate over the feedback: a dataset needs two cases.
GatePassed == mem.feedback >= 2

\* Links are proposed with a confidence of 0.8.
Risk(l) == IF Relation[l] \in {"conflicts_with", "supersedes"} THEN "high" ELSE "medium"

Entry(type, of, priority) == [type |-> type, of |-> of, priority |-> priority]

\* The open entries of the work queue.
OpenQueue ==
    {Entry("finding", f, Severity(f)) : f \in OpenFindings}
    \cup {Entry("approval", l, Risk(l)) : l \in PendingLinks}
    \cup {Entry("failed_run", i, "critical") :
            i \in {j \in DOMAIN mem.runs : mem.runs[j] = "failed"}}
    \cup {Entry("source_warning", i, IF mem.cursors[i] = "failed" THEN "high" ELSE "medium") :
            i \in {j \in DOMAIN mem.cursors : mem.cursors[j] # "fresh"}}
    \cup (IF GatePassed THEN {} ELSE {Entry("eval_gate", "current", "high")})

Open(severity) == {f \in OpenFindings : Severity(f) = severity}

Last(s) == s[Len(s)]

\* Mutant: the last source cursor is not asked.
Health_NoSources ==
    CASE mem.runs = <<>> -> "unknown"
      [] mem.runs # <<>> /\ (Last(mem.runs) = "failed" \/ Open("critical") # {}) -> "blocked"
      [] OTHER ->
            IF Open("high") # {} \/ PendingLinks # {} \/ ~GatePassed
            THEN "attention_required" ELSE "healthy"

\* The health of the first page, from the counts, the latest run, the latest source
\* cursor and the gate.
Health ==
    CASE mem.runs = <<>> -> "unknown"
      [] mem.runs # <<>> /\ (Last(mem.runs) = "failed" \/ Open("critical") # {}) -> "blocked"
      [] OTHER ->
            IF \/ Open("high") # {} \/ PendingLinks # {}
               \/ mem.cursors # <<>> /\ Last(mem.cursors) # "fresh"
               \/ ~GatePassed
            THEN "attention_required" ELSE "healthy"

-----------------------------------------------------------------------------
(* What other requests do                                                    *)

\* The sources gain or lose a link.
Edit(l) ==
    /\ edits < MaxEdits /\ edits' = edits + 1
    /\ source' = IF l \in source THEN source \ {l} ELSE source \cup {l}
    /\ UNCHANGED <<mem, disk, analyses, run, deciding, reader, settled, torn, triages, crashes>>

BeginRun ==
    /\ run.pc = "idle" /\ Len(mem.runs) < MaxRuns
    /\ run' = [pc |-> "fetch", links |-> source]
    /\ mem' = [mem EXCEPT !.runs = Append(@, "running")]
    /\ UNCHANGED <<source, disk, analyses, deciding, reader, settled, torn, edits, triages,
                   crashes>>

\* The run fails at its sources and is stored as failed.
FailRun ==
    /\ run.pc = "fetch" /\ run' = Idle
    /\ mem' = [mem EXCEPT !.runs[Len(mem.runs)] = "failed"]
    /\ disk' = [disk EXCEPT !.runs = Append(@, "failed")]
    /\ UNCHANGED <<source, analyses, deciding, reader, settled, torn, edits, triages, crashes>>

\* All nodes enter the graph, and every link of the candidate graph the queue.
Stage ==
    /\ run.pc = "fetch" /\ run' = [run EXCEPT !.pc = "staged"]
    /\ mem' = [mem EXCEPT !.nodes = Nodes,
                  !.items = [l \in Links |-> IF l \in run.links THEN "pending" ELSE @[l]]]
    /\ UNCHANGED <<source, disk, analyses, deciding, reader, settled, torn, edits, triages,
                   crashes>>

\* What was found, in a registry that forgets nothing; found again is open again.
Registered(registry, links) ==
    [f \in DOMAIN registry \cup Findings(links) |->
        IF f \in Findings(links) THEN "open" ELSE registry[f]]

\* The result is registered and stored, with the queue, the edges and the cursor.
FinishRun ==
    /\ run.pc = "staged" /\ run' = Idle
    /\ \E fresh \in Freshness :
          mem' = [mem EXCEPT !.runs[Len(mem.runs)] = "succeeded",
                             !.cursors = Append(@, fresh),
                             !.found = Registered(@, run.links)]
    /\ disk' = mem'
    /\ analyses' = Append(analyses, [links |-> run.links, findings |-> Findings(run.links)])
    /\ settled' = settled \ Findings(run.links)
    /\ UNCHANGED <<source, deciding, reader, torn, edits, triages, crashes>>

Triage(f, status) ==
    /\ triages < MaxTriages /\ triages' = triages + 1
    /\ f \in DOMAIN mem.found
    /\ mem' = [mem EXCEPT !.found[f] = status]
    /\ disk' = [disk EXCEPT !.found = mem'.found, !.items = mem.items, !.edges = mem.edges,
                            !.feedback = mem.feedback]
    /\ settled' = IF status = "open" THEN settled \ {f} ELSE settled \cup {f}
    /\ UNCHANGED <<source, analyses, run, deciding, reader, torn, edits, crashes>>

\* An approval reaches the graph.
Commit(l) ==
    /\ mem.items[l] = "pending" /\ l \notin deciding
    /\ mem.feedback + Cardinality(deciding) < MaxFeedback
    /\ mem' = [mem EXCEPT !.edges = @ \cup {l}]
    /\ deciding' = deciding \cup {l}
    /\ UNCHANGED <<source, disk, analyses, run, reader, settled, torn, edits, triages, crashes>>

\* The item is marked, the feedback recorded and the queue stored.
Mark(l, status) ==
    /\ mem' = [mem EXCEPT !.items[l] = status, !.feedback = @ + 1]
    /\ disk' = [disk EXCEPT !.items = mem'.items, !.edges = mem.edges,
                            !.feedback = mem'.feedback]
    /\ reader' = [r \in Readers |->
                    IF reader[r].pc = "idle" THEN NoView
                    ELSE [reader[r] EXCEPT !.decided = @ \cup {l}]]
    /\ UNCHANGED <<source, analyses, run, settled, torn, edits, triages, crashes>>

Approved(l) ==
    /\ l \in deciding /\ deciding' = deciding \ {l}
    /\ Mark(l, "approved")

Reject(l) ==
    /\ mem.items[l] = "pending" /\ l \notin deciding
    /\ mem.feedback + Cardinality(deciding) < MaxFeedback
    /\ UNCHANGED deciding
    /\ Mark(l, "rejected")

\* The process stops; results, and what was not stored, are gone.
Restart ==
    /\ crashes < MaxCrashes /\ crashes' = crashes + 1
    /\ mem' = disk /\ analyses' = <<>> /\ run' = Idle /\ deciding' = {}
    /\ reader' = [r \in Readers |-> NoView]
    /\ torn' = (torn \/ run.pc = "staged")
    /\ UNCHANGED <<source, disk, settled, edits, triages>>

-----------------------------------------------------------------------------
(* The graph page                                                            *)

Live == Known(mem.edges \cup PendingLinks)

\* The request comes, and the nodes are read.
ReadNodes(r) ==
    /\ reader[r].pc = "idle"
    /\ reader' = [reader EXCEPT ![r] =
                    [NoView EXCEPT !.pc = "nodes", !.nodes = mem.nodes, !.live = Live]]
    /\ UNCHANGED <<source, mem, disk, analyses, run, deciding, settled, torn, edits, triages,
                   crashes>>

\* The approved links are read.
ReadEdges(r) ==
    /\ reader[r].pc = "nodes"
    /\ reader' = [reader EXCEPT ![r].pc = "edges", ![r].edges = mem.edges]
    /\ UNCHANGED <<source, mem, disk, analyses, run, deciding, settled, torn, edits, triages,
                   crashes>>

\* Mutant: a link is shown as approved only if the queue says so as well.
Page_Marked(r) ==
    PageOf(reader[r].nodes, {l \in reader[r].edges : mem.items[l] = "approved"}, PendingLinks)

\* The page when the queue and the results are read now.
Page(r) == PageOf(reader[r].nodes, reader[r].edges, PendingLinks)

\* The queue is read and the page answered.
Show(r) ==
    /\ reader[r].pc = "edges"
    /\ reader' = [reader EXCEPT ![r] = NoView]
    /\ UNCHANGED <<source, mem, disk, analyses, run, deciding, settled, torn, edits, triages,
                   crashes>>

DashboardNext ==
    \/ BeginRun \/ FailRun \/ Stage \/ FinishRun \/ Restart
    \/ \E l \in Links : Edit(l) \/ Commit(l) \/ Approved(l) \/ Reject(l)
    \/ \E f \in DOMAIN mem.found, status \in Triages \cup {"open"} : Triage(f, status)
    \/ \E r \in Readers : ReadNodes(r) \/ ReadEdges(r) \/ Show(r)

DashboardSpec == DashboardInit /\ [][DashboardNext]_dashboardVars

-----------------------------------------------------------------------------
(* Properties                                                                *)

\* A project shown as healthy has nothing urgent in its work queue: what is open is a
\* finding below high, a failed run with a later one, or a warning of a source that was
\* read again since.
HealthyIsQuiet ==
    Health = "healthy" =>
        \A e \in OpenQueue :
            \/ e.type = "finding" /\ e.priority \notin {"critical", "high"}
            \/ e.type = "failed_run" /\ e.of < Len(mem.runs)
            \/ e.type = "source_warning" /\ e.of < Len(mem.cursors)

\* The queue has every finding of the last analysis as open unless a reviewer gave it
\* another status since, and none that a reviewer did, over later analyses and restarts.
QueueFollowsTriage ==
    /\ OpenFindings \cap settled = {}
    /\ analyses # <<>> => Last(analyses).findings \ settled \subseteq OpenFindings

\* Every proposal that waits in the work queue has its link on a graph page of open
\* proposals that is read at once, unless these have more end nodes than the request's
\* limit, and then the page is full; or a process stopped before an analysis had stored
\* its nodes.
ProposalHasLink ==
    LET v == PageOf(mem.nodes, mem.edges, PendingLinks)
        ends == {From[l] : l \in PendingLinks} \cup {To[l] : l \in PendingLinks}
    IN  ~torn =>
            \A n \in Limits :
                \/ PendingLinks \subseteq Visible("pending", v, n)
                \/ /\ Cardinality(ends) > CappedLimit(n)
                   /\ Cardinality(SelectedNodes("pending", v, n)) = CappedLimit(n)

\* A link that was approved or proposed when the page was requested is on the page, or
\* was decided while it was read; or there are more nodes than the request's limit and
\* the page says that it is truncated.
LinksAccounted ==
    \A r \in Readers, n \in Limits :
        LET v == Page(r)
        IN  reader[r].pc = "edges" =>
                \/ reader[r].live \subseteq Visible("full", v, n) \cup reader[r].decided
                \/ Truncated("full", v, n) /\ Cardinality(v.nodes) > CappedLimit(n)

\* When an analysis differs from an earlier one by verification links it has in addition,
\* it finds nothing the earlier one did not.
VerifyingHelps ==
    \A i, j \in DOMAIN analyses :
        /\ i < j /\ analyses[i].links \subseteq analyses[j].links
        /\ \A l \in analyses[j].links \ analyses[i].links : Relation[l] = "verifies"
        => analyses[j].findings \subseteq analyses[i].findings
=============================================================================

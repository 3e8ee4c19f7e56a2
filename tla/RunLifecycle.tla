---------------------------- MODULE RunLifecycle ----------------------------
(***************************************************************************)
(* Ingestion, analysis and replay runs (workflows/analysis_graph.py), the  *)
(* record of them in the trace repository and the audit trail, the         *)
(* triage of their findings and the approval of their links, what of all   *)
(* this reaches the state store and what a restart brings back             *)
(* (api/state.py, api/routes/runs.py, debug/traces.py, debug/replay.py).   *)
(*                                                                         *)
(* A run records its start in memory and in the store, goes through its    *)
(* stages and ends: its results enter the registries and are then stored   *)
(* collection by collection, the pass over the approval queue last.  A     *)
(* stage that raises ends the run as failed.  Requests run in threads of   *)
(* their own; the store may raise between any two collections and the      *)
(* process stop at any step.  Stages meet what other requests see at three *)
(* places only, so a step takes a run from one of these to the next.       *)
(*                                                                         *)
(* What a scenario's sources hold is a constant: the fetch is SourcePaging, *)
(* the model calls are ModelGateway, decisions other than approvals are    *)
(* ApprovalQueue, and the writing of one collection row by row is          *)
(* DecisionCommand.                                                        *)
(***************************************************************************)
EXTENDS Naturals, Sequences, FiniteSets

CONSTANTS
    RunIds,             \* ids of runs, which clients may choose themselves
    Scenarios, Nodes, Links, Findings,
    NodesOf, LinksOf, FindingsOf, \* what an analysis of a scenario finds
    Source,             \* the source node of a link
    Threads,
    Triages,            \* statuses a reviewer gives a finding, other than open
    NoRun, NoScenario, NoFinding,
    MaxCalls,           \* bound: requests in a behaviour
    MaxCrashes          \* bound: restarts in a behaviour

ASSUME RunAssumption ==
    /\ NodesOf \in [Scenarios -> SUBSET Nodes]
    /\ LinksOf \in [Scenarios -> SUBSET Links]
    /\ FindingsOf \in [Scenarios -> SUBSET Findings]
    /\ Source \in [Links -> Nodes]
    /\ \A s \in Scenarios : \A l \in LinksOf[s] : Source[l] \in NodesOf[s]
    /\ NoRun \notin RunIds /\ NoScenario \notin Scenarios /\ NoFinding \notin Findings
    /\ Triages \cap {"none", "open"} = {}
    /\ MaxCalls \in Nat /\ MaxCrashes \in Nat

RunKind == {"ingestion", "analysis", "replay"}

\* The stages in three stretches: source_fetch, normalize and mask_chunk; extract_nodes,
\* link_edges, llm_assisted_reasoning and detect_findings; stage_approval.
Stretch == {"sources", "reasoning", "staging"}

RunStatus == {"none", "running", "succeeded", "failed"}

\* The last step a run has started; those before it have succeeded.
StepStatus == {"none", "running", "succeeded", "failed"}

FindingStatus == {"none", "open"} \cup Triages
RunEvent == [what: {"started", "completed", "failed"}, run: RunIds]

VARIABLES
    mem,      \* the registries in memory
    disk,     \* the collections of the state store
    analyses, \* the runs whose result is held in memory, for replays
    thread,   \* the request threads
    told,     \* the last answered request for a run, with its outcome
    settled,  \* the triage clients were told of a finding
    uses,     \* history: how many requests a run id was used for
    raced,    \* history: findings on which two requests overlapped
    torn,     \* history: a replay, or an analysis whose nodes were not stored
    calls, crashes

vars == <<mem, disk, analyses, thread, told, settled, uses, raced, torn, calls, crashes>>

Book == [runs: [RunIds -> RunStatus], steps: [RunIds -> StepStatus],
         events: SUBSET RunEvent, nodes: SUBSET Nodes,
         items: [Links -> {"none", "pending", "approved"}], edges: SUBSET Links,
         findings: [Findings -> FindingStatus], replays: SUBSET RunIds]

Empty == [runs |-> [r \in RunIds |-> "none"], steps |-> [r \in RunIds |-> "none"],
          events |-> {}, nodes |-> {}, items |-> [l \in Links |-> "none"], edges |-> {},
          findings |-> [f \in Findings |-> "none"], replays |-> {}]

\* What the store keeps, as requests write it.
Collection == {"run", "run now", "completed", "events of run", "nodes", "findings", "finding",
               "replay", "queue", "edges"}

\* A request: where it is, the collections it has still to store, and what it will
\* answer.
Thread == [pc: {"idle", "started", "persist"} \cup Stretch,
           kind: RunKind \cup {"triage", "approve"}, run: RunIds \cup {NoRun},
           scenario: Scenarios \cup {NoScenario}, finding: Findings \cup {NoFinding},
           todo: Seq(Collection), answer: RunStatus \cup Triages]

Request(kind) == [pc |-> "persist", kind |-> kind, run |-> NoRun, scenario |-> NoScenario,
                  finding |-> NoFinding, todo |-> <<>>, answer |-> "none"]

Idle == [Request("triage") EXCEPT !.pc = "idle"]

TypeOK ==
    /\ mem \in Book /\ disk \in Book
    /\ analyses \subseteq RunIds
    /\ thread \in [Threads -> Thread]
    /\ told \in [RunIds -> Thread] /\ settled \in [Findings -> FindingStatus]
    /\ uses \in [RunIds -> 0..MaxCalls] /\ raced \subseteq Findings /\ torn \in BOOLEAN
    /\ calls \in 0..MaxCalls /\ crashes \in 0..MaxCrashes

Init ==
    /\ mem = Empty /\ disk = Empty /\ analyses = {}
    /\ thread = [t \in Threads |-> Idle]
    /\ told = [r \in RunIds |-> Idle] /\ settled = Empty.findings
    /\ uses = [r \in RunIds |-> 0] /\ raced = {} /\ torn = FALSE
    /\ calls = 0 /\ crashes = 0

At(t, label) == thread[t].pc = label

Event(what, r) == [what |-> what, run |-> r]

\* The findings a request is about to write.
Writes(q) ==
    CASE q.kind = "analysis" /\ q.pc # "idle" -> FindingsOf[q.scenario]
      [] q.kind = "triage" /\ q.pc # "idle" -> {q.finding}
      [] OTHER -> {}

\* An analysis whose nodes are not in the store yet, and may never be.
Unsaved(t) ==
    /\ thread[t].kind = "analysis" /\ thread[t].pc \in Stretch \cup {"persist"}
    /\ ~ NodesOf[thread[t].scenario] \subseteq disk.nodes

\* Request q arrives; what was told of the findings it writes is no longer the last word.
Receive(t, q) ==
    /\ At(t, "idle") /\ calls < MaxCalls /\ calls' = calls + 1
    /\ thread' = [thread EXCEPT ![t] = q]
    /\ raced' = raced \cup (Writes(q) \cap UNION {Writes(thread[u]) : u \in Threads})
    /\ settled' = [f \in Findings |-> IF f \in Writes(q) THEN "none" ELSE settled[f]]

-----------------------------------------------------------------------------
(* A run                                                                     *)

\* The run_started event.  A replay needs the result of a run of this process; what an
\* ingestion fetches reaches none of the state here.
Begin(t, kind, r, s) ==
    /\ Receive(t, [Request(kind) EXCEPT !.pc = "started", !.run = r, !.scenario = s])
    /\ kind = "replay" => analyses # {}
    /\ mem' = [mem EXCEPT !.events = @ \cup {Event("started", r)}]
    /\ uses' = [uses EXCEPT ![r] = @ + 1]
    /\ torn' = (torn \/ kind = "replay")
    /\ UNCHANGED <<disk, analyses, told, crashes>>

\* The event is stored and the run created, or started over under a used id.
Create(t) ==
    /\ At(t, "started")
    /\ disk' = [disk EXCEPT !.events = @ \cup {Event("started", thread[t].run)}]
    /\ mem' = [mem EXCEPT !.runs[thread[t].run] = "running",
                          !.steps[thread[t].run] = "running"]
    /\ thread' = [thread EXCEPT ![t].pc = "sources"]
    /\ UNCHANGED <<analyses, told, settled, uses, raced, torn, calls, crashes>>

\* Nodes are staged before the model reviews them.
StageNodes(t) ==
    LET q == thread[t] IN
    /\ At(t, "sources") /\ q.kind # "ingestion"
    /\ mem' = [mem EXCEPT !.nodes = @ \cup NodesOf[q.scenario]]
    /\ thread' = [thread EXCEPT ![t].pc = "reasoning"]
    /\ UNCHANGED <<disk, analyses, told, settled, uses, raced, torn, calls, crashes>>

\* Every link of the scenario gets a pending proposal, whatever became of an earlier one.
StageApproval(t) ==
    /\ At(t, "reasoning")
    /\ mem' = [mem EXCEPT !.items = [l \in Links |->
                  IF l \in LinksOf[thread[t].scenario] THEN "pending" ELSE @[l]]]
    /\ thread' = [thread EXCEPT ![t].pc = "staging"]
    /\ UNCHANGED <<disk, analyses, told, settled, uses, raced, torn, calls, crashes>>

\* Mutants: what an analysis stores leaves its findings, or its nodes, out.
Order_NoFindings(kind) ==
    CASE kind = "ingestion" -> <<"run", "queue", "edges">>
      [] kind = "analysis" -> <<"run", "nodes", "queue", "edges">>
      [] kind = "replay" -> <<"completed", "run", "replay">>

Order_NoNodes(kind) ==
    CASE kind = "ingestion" -> <<"run", "queue", "edges">>
      [] kind = "analysis" -> <<"run", "findings", "queue", "edges">>
      [] kind = "replay" -> <<"completed", "run", "replay">>

\* The collections a finished run stores, in the order it does.
Order(kind) ==
    CASE kind = "ingestion" -> <<"run", "queue", "edges">>
      [] kind = "analysis" ->
            <<"run", "nodes", "findings", "queue", "edges">>
      [] kind = "replay" -> <<"completed", "run", "replay">>

\* Mutant: a replay's findings enter the registry like an analysis's.
Detected_Replays(m, q) ==
    IF q.kind = "ingestion" THEN m
    ELSE [m EXCEPT !.findings = [f \in Findings |->
                        IF f \in FindingsOf[q.scenario] THEN "open" ELSE @[f]]]

\* The findings of an analysis replace those of the same rule and nodes.
Detected(m, q) ==
    IF q.kind # "analysis" THEN m
    ELSE [m EXCEPT !.findings = [f \in Findings |->
                        IF f \in FindingsOf[q.scenario] THEN "open" ELSE @[f]]]

\* The last stage ends: the run has succeeded, its result enters the registries and
\* its end is recorded.
Complete(t) ==
    LET q == thread[t] IN
    /\ At(t, IF q.kind = "ingestion" THEN "sources" ELSE "staging")
    /\ mem' = [Detected(mem, q) EXCEPT !.steps[q.run] = "succeeded",
                                       !.runs[q.run] = "succeeded",
                                       !.events = @ \cup {Event("completed", q.run)}]
    /\ analyses' = analyses \cup (IF q.kind = "ingestion" THEN {} ELSE {q.run})
    /\ thread' = [thread EXCEPT ![t] = [q EXCEPT !.pc = "persist", !.todo = Order(q.kind),
                                            !.answer = "succeeded"]]
    /\ UNCHANGED <<disk, told, settled, uses, raced, torn, calls, crashes>>

\* How a stretch that raises leaves the step it has come to: a masking violation fails
\* it, other errors leave it running; the retrieval between two stages may raise when
\* the first has succeeded; staging approvals meets nothing that raises.
Left(pc) ==
    CASE pc = "sources" -> {"running", "failed"}
      [] pc = "reasoning" -> {"running", "succeeded"}
      [] OTHER -> {}

\* Mutant: only a masking violation ends the run, as it does in the stage itself.
FailStage_MaskingOnly(t) ==
    LET q == thread[t] IN
    /\ \E left \in Left(q.pc) :
          mem' = [mem EXCEPT !.steps[q.run] = left,
                             !.runs[q.run] = IF left = "failed" THEN "failed" ELSE @,
                             !.events = @ \cup {Event("failed", q.run)}]
    /\ thread' = [thread EXCEPT ![t] = [q EXCEPT !.pc = "persist", !.answer = "failed",
                            !.todo = <<"run now", "events of run">>]]
    /\ UNCHANGED <<disk, analyses, told, settled, uses, raced, torn, calls, crashes>>

\* A stage raises: the run is failed, and what memory says of it now is stored.
FailStage(t) ==
    LET q == thread[t] IN
    /\ \E left \in Left(q.pc) :
          mem' = [mem EXCEPT !.steps[q.run] = left, !.runs[q.run] = "failed",
                             !.events = @ \cup {Event("failed", q.run)}]
    /\ thread' = [thread EXCEPT ![t] = [q EXCEPT !.pc = "persist", !.answer = "failed",
                            !.todo = <<"run now", "events of run">>]]
    /\ UNCHANGED <<disk, analyses, told, settled, uses, raced, torn, calls, crashes>>

-----------------------------------------------------------------------------
(* Triage, approval, the store, and restarts                                 *)

\* A reviewer's status for a finding, in memory and then as a row of its own.
Triage(t, f, status) ==
    /\ mem.findings[f] # "none"
    /\ Receive(t, [Request("triage") EXCEPT !.finding = f, !.answer = status,
                         !.todo = <<"finding", "queue", "edges">>])
    /\ mem' = [mem EXCEPT !.findings[f] = status]
    /\ UNCHANGED <<disk, analyses, told, uses, torn, crashes>>

Approve(t, l) ==
    /\ mem.items[l] = "pending"
    /\ Receive(t, [Request("approve") EXCEPT !.todo = <<"queue", "edges">>])
    /\ mem' = [mem EXCEPT !.items[l] = "approved", !.edges = @ \cup {l}]
    /\ UNCHANGED <<disk, analyses, told, uses, torn, crashes>>

\* The store once request q has written one collection: a finished run writes the copy
\* it holds, a failed one what memory says now.
Stored(c, q) ==
    CASE c = "run" -> [disk EXCEPT !.runs[q.run] = "succeeded",
                                   !.steps[q.run] = "succeeded"]
      [] c = "run now" -> [disk EXCEPT !.runs[q.run] = mem.runs[q.run],
                                       !.steps[q.run] = mem.steps[q.run]]
      [] c = "completed" -> [disk EXCEPT !.events = @ \cup {Event("completed", q.run)}]
      [] c = "events of run" ->
            [disk EXCEPT !.events = @ \cup {e \in mem.events : e.run = q.run}]
      [] c = "nodes" -> [disk EXCEPT !.nodes = @ \cup NodesOf[q.scenario]]
      [] c = "findings" -> [disk EXCEPT !.findings = [f \in Findings |->
                                IF f \in FindingsOf[q.scenario] THEN "open" ELSE @[f]]]
      [] c = "finding" -> [disk EXCEPT !.findings[q.finding] = q.answer]
      [] c = "replay" -> [disk EXCEPT !.replays = @ \cup {q.run}]
      [] c = "queue" -> [disk EXCEPT !.items = mem.items, !.events = @ \cup mem.events]
      [] c = "edges" -> [disk EXCEPT !.edges = @ \cup mem.edges]

\* Every edge is stored under the project of its source node.
Closed(m) == \A l \in m.edges : Source[l] \in m.nodes

Persist(t) ==
    LET c == Head(thread[t].todo) IN
    /\ At(t, "persist") /\ thread[t].todo # <<>>
    /\ c = "edges" => Closed(mem)
    /\ disk' = Stored(c, thread[t])
    /\ thread' = [thread EXCEPT ![t].todo = Tail(@)]
    /\ mem' = IF c = "replay" THEN [mem EXCEPT !.replays = @ \cup {thread[t].run}] ELSE mem
    /\ UNCHANGED <<analyses, told, settled, uses, raced, torn, calls, crashes>>

\* An edge without its source node raises: status 500.
PersistRaises(t) ==
    /\ At(t, "persist") /\ thread[t].todo # <<>>
    /\ Head(thread[t].todo) = "edges" /\ ~Closed(mem)
    /\ thread' = [thread EXCEPT ![t] = Idle]
    /\ UNCHANGED <<mem, disk, analyses, told, settled, uses, raced, torn, calls, crashes>>

\* The store raises: status 500.
Break(t) ==
    /\ thread[t].pc \in {"started", "persist"}
    /\ thread' = [thread EXCEPT ![t] = Idle]
    /\ torn' = (torn \/ Unsaved(t))
    /\ UNCHANGED <<mem, disk, analyses, told, settled, uses, raced, calls, crashes>>

Answer(t) ==
    /\ At(t, "persist") /\ thread[t].todo = <<>>
    /\ told' = [r \in RunIds |-> IF r = thread[t].run THEN thread[t] ELSE told[r]]
    /\ settled' = [f \in Findings |->
                      IF f = thread[t].finding THEN thread[t].answer ELSE settled[f]]
    /\ thread' = [thread EXCEPT ![t] = Idle]
    /\ UNCHANGED <<mem, disk, analyses, uses, raced, torn, calls, crashes>>

\* The process stops and restores what it can; results are not stored.
Restart ==
    /\ crashes < MaxCrashes /\ crashes' = crashes + 1
    /\ mem' = disk /\ analyses' = {}
    /\ thread' = [t \in Threads |-> Idle]
    /\ torn' = (torn \/ \E t \in Threads : Unsaved(t))
    /\ UNCHANGED <<disk, told, settled, uses, raced, calls>>

Work(t) ==
    \/ Create(t) \/ StageNodes(t) \/ StageApproval(t) \/ Complete(t) \/ FailStage(t)
    \/ Persist(t) \/ PersistRaises(t) \/ Answer(t)

Next ==
    \/ Restart
    \/ \E t \in Threads :
          \/ Work(t) \/ Break(t)
          \/ \E r \in RunIds :
                \/ Begin(t, "ingestion", r, NoScenario)
                \/ \E kind \in {"analysis", "replay"}, s \in Scenarios : Begin(t, kind, r, s)
          \/ \E f \in Findings, status \in Triages : Triage(t, f, status)
          \/ \E l \in Links : Approve(t, l)

Spec == Init /\ [][Next]_vars

-----------------------------------------------------------------------------
(* Properties                                                                *)

Once(r) == uses[r] <= 1

\* A client that was told how a run ended finds it so in the store, over restarts and
\* whatever other requests do: the run's row, how far its steps came, its two events and,
\* for a success, the nodes and findings of an analysis or the diff of a replay.  A run
\* id used twice is left out.
ToldRunStored ==
    \A r \in RunIds : told[r].answer # "none" /\ Once(r) =>
        LET q == told[r] IN
        /\ disk.runs[r] = q.answer /\ disk.steps[r] # "none"
        /\ Event("started", r) \in disk.events
        /\ q.answer = "failed" => Event("failed", r) \in disk.events
        /\ q.answer = "succeeded" =>
              /\ disk.steps[r] = "succeeded" /\ Event("completed", r) \in disk.events
              /\ q.kind = "analysis" =>
                    /\ NodesOf[q.scenario] \subseteq disk.nodes
                    /\ \A f \in FindingsOf[q.scenario] : disk.findings[f] # "none"
              /\ q.kind = "replay" => r \in disk.replays

\* The store never says of a run that it is still running, so that after a restart no
\* run waits for a process that is gone, and knows of no run without its start.
StoredRunEnded ==
    \A r \in RunIds : disk.runs[r] # "none" =>
        /\ Event("started", r) \in disk.events
        /\ Once(r) => disk.runs[r] \in {"succeeded", "failed"}

\* A reviewer's triage stands in memory and in the store until the finding is triaged
\* again or a new analysis of its scenario starts: replays, failures, restarts and other
\* requests leave it alone.  Requests that overlap on the finding may break this.
TriageStands ==
    \A f \in Findings \ raced : settled[f] # "none" =>
        mem.findings[f] = settled[f] /\ disk.findings[f] = settled[f]

\* An approved link has its source node in memory, so that no later command fails on it
\* while it stores the edges.  In the store it has it too, once the analyses in flight
\* have stored their nodes.  Replays, and analyses that were stopped before that, are
\* what breaks this.
EdgesClosed ==
    ~torn => Closed(mem) /\ (Closed(disk) \/ \E t \in Threads : Unsaved(t))

\* A run that memory shows as running is being run: whatever its stages raise, none is
\* left running for good, and a restart brings none back.
RunningIsRun ==
    \A r \in RunIds : mem.runs[r] = "running" /\ Once(r) =>
        \E t \in Threads : thread[t].pc \in Stretch /\ thread[t].run = r
=============================================================================

------------------------- MODULE RunLifecycleProofs -------------------------
(***************************************************************************)
(* Proofs about RunLifecycle for any runs, scenarios, findings, links,     *)
(* threads, requests and restarts, and, at the end, about SchedulerLease,  *)
(* under which periodic runs start, for any number of workers, any         *)
(* interval, time to live, clock skew and delay.                           *)
(*                                                                         *)
(* The two share no state.  Of RunLifecycle, four invariants are proved on *)
(* top of each other's types: the shape of a request at each place; what a *)
(* run has left in the store; who writes a finding; where the source node  *)
(* of a link is.                                                           *)
(***************************************************************************)
EXTENDS RunLifecycle, SchedulerLease, TLAPS


-----------------------------------------------------------------------------
(* What a request looks like at each place                                   *)

\* The collections a request has still to store.
Pend(q) == {q.todo[i] : i \in DOMAIN q.todo}

\* The requests that store collection c.
Stores(c, q) ==
    /\ c \in Collection
    /\ c \in {"run now", "events of run"} => q.kind \in RunKind /\ q.answer = "failed"
    /\ c = "run" => q.kind \in RunKind /\ q.answer = "succeeded"
    /\ c \in {"nodes", "findings"} => q.kind = "analysis" /\ q.answer = "succeeded"
    /\ c \in {"completed", "replay"} => q.kind = "replay" /\ q.answer = "succeeded"
    /\ c = "finding" => q.kind = "triage"

Shaped(q) ==
    /\ q.pc = "idle" => q = Idle
    /\ IF q.kind \in RunKind
       THEN q.run \in RunIds /\ q.finding = NoFinding /\ q.pc # "idle"
       ELSE q.run = NoRun /\ q.pc \in {"idle", "persist"}
    /\ q.kind \in {"analysis", "replay"} => q.scenario \in Scenarios
    /\ q.pc \in {"reasoning", "staging"} => q.kind \in {"analysis", "replay"}
    /\ q.pc \in {"started"} \cup Stretch => q.answer = "none"
    /\ q.pc = "persist" /\ q.kind \in RunKind => q.answer \in {"succeeded", "failed"}
    /\ q.pc = "persist" /\ q.kind = "triage" => q.finding \in Findings /\ q.answer \in Triages
    /\ q.kind = "approve" => q.finding = NoFinding
    /\ q.pc = "persist" => \A c \in Pend(q) : Stores(c, q)

\* Every use of a run id is a request.
ShapeInv ==
    /\ TypeOK /\ \A r \in RunIds : uses[r] <= calls
    /\ \A t \in Threads : Shaped(thread[t])

-----------------------------------------------------------------------------
(* What a run has left in the store                                          *)

\* With registries m and store d.  What does not depend on whether the run's id is used
\* again.
Recorded(q, m, d) ==
    LET r == q.run IN
    q.kind \in RunKind =>
        /\ q.pc # "started" => Event("started", r) \in d.events
        /\ q.pc = "persist" /\ q.answer = "failed" =>
              /\ Event("failed", r) \in m.events
              /\ "events of run" \in Pend(q) \/ Event("failed", r) \in d.events
        /\ q.pc = "persist" /\ q.answer = "succeeded" =>
              /\ Event("completed", r) \in m.events
              /\ \/ "queue" \in Pend(q) \/ "completed" \in Pend(q)
                 \/ Event("completed", r) \in d.events
              /\ q.kind = "analysis" =>
                    /\ "nodes" \in Pend(q) \/ NodesOf[q.scenario] \subseteq d.nodes
                    /\ \/ "findings" \in Pend(q)
                       \/ \A f \in FindingsOf[q.scenario] : d.findings[f] # "none"
              /\ q.kind = "replay" => "replay" \in Pend(q) \/ r \in d.replays

\* The rows of a run whose id is used once.
OwnRows(q, m, d) ==
    LET r == q.run IN
    q.kind \in RunKind /\ q.pc = "persist" =>
        /\ q.answer = "failed" =>
              /\ m.runs[r] = "failed" /\ m.steps[r] # "none"
              /\ "run now" \in Pend(q) \/ (d.runs[r] = "failed" /\ d.steps[r] # "none")
        /\ q.answer = "succeeded" =>
              "run" \in Pend(q) \/ (d.runs[r] = "succeeded" /\ d.steps[r] = "succeeded")

\* A run id used once has one request, which was not answered.
OneRequest ==
    \A r \in RunIds :
        /\ uses[r] = 0 => told[r].answer = "none" /\ \A t \in Threads : thread[t].run # r
        /\ Once(r) => \A t \in Threads : thread[t].run = r =>
              /\ told[r].answer = "none" /\ OwnRows(thread[t], mem, disk)
              /\ \A u \in Threads : thread[u].run = r => u = t

\* What clients were told is of runs, whose requests were well formed.
ToldShaped ==
    \A r \in RunIds : told[r].answer # "none" => told[r].kind \in RunKind /\ Shaped(told[r])

RunInv ==
    /\ \A t \in Threads : Recorded(thread[t], mem, disk)
    /\ OneRequest /\ ToldShaped /\ ToldRunStored /\ StoredRunEnded /\ RunningIsRun

-----------------------------------------------------------------------------
(* What requests that do not overlap leave of a finding                      *)

\* A triage of finding f has put its status in registry m and will put it in store d.
OwnTriage(f, q, m, d) ==
    q.kind = "triage" =>
        m.findings[f] = q.answer /\ ("finding" \in Pend(q) \/ d.findings[f] = q.answer)

\* A finding that was not raced is written by one request at a time, and while it is
\* nothing is settled of it.
OneWriter ==
    \A f \in Findings \ raced : \A t \in Threads : f \in Writes(thread[t]) =>
        /\ settled[f] = "none" /\ OwnTriage(f, thread[t], mem, disk)
        /\ \A u \in Threads : f \in Writes(thread[u]) => u = t

TriageInv == TriageStands /\ OneWriter

-----------------------------------------------------------------------------
(* Where the source nodes of the links are                                   *)

\* The links that registry m and store d know anything of.
Linked(m, d) ==
    {l \in Links : m.items[l] # "none" \/ d.items[l] # "none"} \cup m.edges \cup d.edges

\* An analysis past its last stage that may raise will store the node.
Carries(q, n) ==
    /\ q.kind = "analysis" /\ n \in NodesOf[q.scenario]
    /\ q.pc = "staging" \/ (q.pc = "persist" /\ q.answer = "succeeded")

\* Without replays, and with no analysis stopped early, every link has its source node.
Rooted ==
    ~torn => \A l \in Linked(mem, disk) :
        /\ Source[l] \in mem.nodes
        /\ Source[l] \in disk.nodes \/ \E t \in Threads : Carries(thread[t], Source[l])

\* A replay is counted from its start, and an analysis has staged the nodes of its links.
Staged(q) ==
    /\ q.kind = "replay" => torn
    /\ q.kind = "analysis" /\ q.pc = "reasoning" => NodesOf[q.scenario] \subseteq mem.nodes

LinkInv == Rooted /\ \A t \in Threads : Staged(thread[t])


-----------------------------------------------------------------------------
(* What each step writes                                                     *)

LEMMA BookFields ==
    ASSUME NEW b \in Book
    PROVE  /\ b.runs \in [RunIds -> RunStatus] /\ b.steps \in [RunIds -> StepStatus]
           /\ b.events \subseteq RunEvent /\ b.nodes \subseteq Nodes
           /\ b.items \in [Links -> {"none", "pending", "approved"}] /\ b.edges \subseteq Links
           /\ b.findings \in [Findings -> FindingStatus] /\ b.replays \subseteq RunIds
BY DEF Book

\* The parts of a registry that most steps leave alone.
SameRows(b, c)  == b.runs = c.runs /\ b.steps = c.steps
SameLinks(b, c) == b.items = c.items /\ b.edges = c.edges
SameRest(b, c)  == b.nodes = c.nodes /\ b.findings = c.findings /\ b.replays = c.replays

\* Request q has become request p of the same kind, at another place.
Moved(q, p, place, answer) ==
    /\ p \in Thread /\ p.pc = place /\ p.answer = answer
    /\ p.kind = q.kind /\ p.run = q.run /\ p.scenario = q.scenario /\ p.finding = q.finding

Becomes(t, p) == thread' = [thread EXCEPT ![t] = p]

LEMMA IdleThread ==
    /\ Idle \in Thread /\ Idle.pc = "idle" /\ Idle.kind = "triage"
    /\ Idle.run = NoRun /\ Idle.finding = NoFinding /\ Idle.answer = "none" /\ Shaped(Idle)
<1>1. Idle = [pc |-> "idle", kind |-> "triage", run |-> NoRun, scenario |-> NoScenario,
              finding |-> NoFinding, todo |-> <<>>, answer |-> "none"]
  BY DEF Idle, Request
<1>2. <<>> \in Seq(Collection)
  OBVIOUS
<1> HIDE DEF Idle
<1>3. Idle \in Thread
  BY <1>1, <1>2 DEF Thread, RunStatus, RunKind
<1> QED
  BY <1>1, <1>3 DEF Shaped, RunKind, Stretch

\* A request that goes on, and one that has its collections to store.
LEMMA MovesOn ==
    ASSUME NEW q \in Thread, NEW place \in {"persist"} \cup Stretch
    PROVE  /\ Moved(q, [q EXCEPT !.pc = place], place, q.answer)
           /\ [q EXCEPT !.pc = place].todo = q.todo
BY DEF Moved, Thread, Stretch

LEMMA MovesToStore ==
    ASSUME NEW q \in Thread, NEW s \in Seq(Collection), NEW a \in RunStatus
    PROVE  LET p == [q EXCEPT !.pc = "persist", !.todo = s, !.answer = a]
           IN  Moved(q, p, "persist", a) /\ p.todo = s
BY DEF Moved, Thread

LEMMA EventTyped ==
    ASSUME NEW r \in RunIds, NEW w \in {"started", "completed", "failed"}
    PROVE  Event(w, r) \in RunEvent
BY DEF Event, RunEvent

\* Request p arrives.
LEMMA ReceiveWrites ==
    ASSUME ShapeInv, NEW t \in Threads, NEW p, Receive(t, p)
    PROVE  /\ thread[t] = Idle /\ Becomes(t, p)
           /\ raced' = raced \cup (Writes(p) \cap UNION {Writes(thread[u]) : u \in Threads})
           /\ settled' = [f \in Findings |-> IF f \in Writes(p) THEN "none" ELSE settled[f]]
           /\ settled' \in [Findings -> FindingStatus] /\ calls' \in 0..MaxCalls
<1>1. Shaped(thread[t]) /\ thread[t].pc = "idle"
  BY DEF ShapeInv, Receive, At
<1>2. \A f \in Findings : settled[f] \in FindingStatus /\ "none" \in FindingStatus
  BY DEF ShapeInv, TypeOK, FindingStatus
<1>3. calls \in Nat /\ MaxCalls \in Nat
  BY RunAssumption DEF ShapeInv, TypeOK
<1>4. /\ settled' = [f \in Findings |-> IF f \in Writes(p) THEN "none" ELSE settled[f]]
      /\ calls' = calls + 1 /\ calls < MaxCalls
  BY DEF Receive
<1> QED
  BY <1>1, <1>2, <1>3, <1>4 DEF Shaped, Receive, Becomes

LEMMA BeginWrites ==
    ASSUME ShapeInv, NEW t \in Threads, NEW kind \in RunKind, NEW r \in RunIds,
           NEW s \in Scenarios \cup {NoScenario}, Begin(t, kind, r, s)
    PROVE  /\ \E p \in Thread :
                 /\ Receive(t, p) /\ p.pc = "started" /\ p.kind = kind /\ p.run = r
                 /\ p.scenario = s /\ p.finding = NoFinding /\ p.answer = "none"
           /\ mem'.events = mem.events \cup {Event("started", r)} /\ mem' \in Book
           /\ SameRows(mem', mem) /\ SameLinks(mem', mem) /\ SameRest(mem', mem)
           /\ uses' = [uses EXCEPT ![r] = uses[r] + 1] /\ uses[r] \in Nat
           /\ torn' = (torn \/ kind = "replay")
           /\ UNCHANGED <<disk, analyses, told, crashes>>
<1> DEFINE p == [Request(kind) EXCEPT !.pc = "started", !.run = r, !.scenario = s]
<1>1. /\ Request(kind) \in Thread /\ Request(kind).kind = kind
      /\ Request(kind).finding = NoFinding /\ Request(kind).answer = "none"
  <2>1. <<>> \in Seq(Collection)
    OBVIOUS
  <2> QED
    BY <2>1 DEF Request, Thread, RunStatus
<1>2. Receive(t, p)
  BY DEF Begin
<1>3. p.pc = "started" /\ p.kind = kind /\ p.run = r /\ p.scenario = s
      /\ p.finding = NoFinding /\ p.answer = "none"
  BY <1>1 DEF Thread
<1>4. p \in Thread
  BY <1>1 DEF Thread
<1> HIDE DEF p
<1>5. mem \in Book /\ mem' = [mem EXCEPT !.events = mem.events \cup {Event("started", r)}]
  BY DEF Begin, ShapeInv, TypeOK
<1>6. mem.events \cup {Event("started", r)} \subseteq RunEvent
  BY <1>5, BookFields, EventTyped
<1>7. mem' \in Book
  BY <1>5, <1>6 DEF Book
<1>8. SameRows(mem', mem) /\ SameLinks(mem', mem) /\ SameRest(mem', mem)
      /\ mem'.events = mem.events \cup {Event("started", r)}
  BY <1>5 DEF SameRows, SameLinks, SameRest, Book
<1>9. uses[r] \in Nat
  BY DEF ShapeInv, TypeOK
<1>10. /\ uses' = [uses EXCEPT ![r] = uses[r] + 1] /\ torn' = (torn \/ kind = "replay")
       /\ UNCHANGED <<disk, analyses, told, crashes>>
  BY DEF Begin
<1> QED
  BY <1>2, <1>3, <1>4, <1>7, <1>8, <1>9, <1>10

LEMMA CreateWrites ==
    ASSUME ShapeInv, NEW t \in Threads, Create(t)
    PROVE  LET q == thread[t]
               r == q.run
           IN  /\ q.kind \in RunKind /\ r \in RunIds /\ q.pc = "started"
               /\ mem'.runs = [mem.runs EXCEPT ![r] = "running"]
               /\ mem'.steps = [mem.steps EXCEPT ![r] = "running"]
               /\ mem'.events = mem.events /\ SameLinks(mem', mem) /\ SameRest(mem', mem)
               /\ disk'.events = disk.events \cup {Event("started", r)}
               /\ SameRows(disk', disk) /\ SameLinks(disk', disk) /\ SameRest(disk', disk)
               /\ \E p \in Thread : Becomes(t, p) /\ Moved(q, p, "sources", q.answer)
               /\ mem' \in Book /\ disk' \in Book
               /\ UNCHANGED <<analyses, told, settled, uses, raced, torn, calls, crashes>>
<1> DEFINE q == thread[t]
<1>1. q \in Thread /\ Shaped(q) /\ q.pc = "started" /\ mem \in Book /\ disk \in Book
  BY DEF ShapeInv, TypeOK, Create, At
<1>2. q.kind \in RunKind /\ q.run \in RunIds
  BY <1>1 DEF Shaped
<1>3. Event("started", q.run) \in RunEvent
  BY <1>2, EventTyped
<1>4. /\ disk' = [disk EXCEPT !.events = disk.events \cup {Event("started", q.run)}]
      /\ mem' = [mem EXCEPT !.runs[q.run] = "running", !.steps[q.run] = "running"]
      /\ thread' = [thread EXCEPT ![t] = [q EXCEPT !.pc = "sources"]]
      /\ UNCHANGED <<analyses, told, settled, uses, raced, torn, calls, crashes>>
  BY DEF Create
<1> HIDE DEF q
<1>5. mem' = [mem EXCEPT !.runs = [mem.runs EXCEPT ![q.run] = "running"],
                         !.steps = [mem.steps EXCEPT ![q.run] = "running"]]
  BY <1>4, <1>1 DEF Book
<1>6. mem' \in Book
  <2>1. [mem.runs EXCEPT ![q.run] = "running"] \in [RunIds -> RunStatus]
    BY <1>1, <1>2, BookFields DEF RunStatus
  <2>2. [mem.steps EXCEPT ![q.run] = "running"] \in [RunIds -> StepStatus]
    BY <1>1, <1>2, BookFields DEF StepStatus
  <2> QED
    BY <1>1, <1>5, <2>1, <2>2 DEF Book
<1>7. disk' \in Book
  BY <1>1, <1>3, <1>4 DEF Book
<1>8. Moved(q, [q EXCEPT !.pc = "sources"], "sources", q.answer)
  BY <1>1, MovesOn DEF Stretch
<1>9. \E p \in Thread : Becomes(t, p) /\ Moved(q, p, "sources", q.answer)
  BY <1>4, <1>8 DEF Becomes, Moved
<1> QED
  BY <1>1, <1>2, <1>4, <1>5, <1>6, <1>7, <1>9 DEF Book, q, SameRows, SameLinks, SameRest

LEMMA StageNodesWrites ==
    ASSUME ShapeInv, NEW t \in Threads, StageNodes(t)
    PROVE  LET q == thread[t]
           IN  /\ q.kind \in {"analysis", "replay"} /\ q.pc = "sources"
               /\ q.scenario \in Scenarios
               /\ mem'.nodes = mem.nodes \cup NodesOf[q.scenario]
               /\ SameRows(mem', mem) /\ SameLinks(mem', mem) /\ mem'.events = mem.events
               /\ mem'.findings = mem.findings /\ mem'.replays = mem.replays
               /\ \E p \in Thread : Becomes(t, p) /\ Moved(q, p, "reasoning", q.answer)
               /\ mem' \in Book
               /\ UNCHANGED <<disk, analyses, told, settled, uses, raced, torn, calls, crashes>>
<1> DEFINE q == thread[t]
<1>1. q \in Thread /\ Shaped(q) /\ q.pc = "sources" /\ mem \in Book /\ q.kind # "ingestion"
  BY DEF ShapeInv, TypeOK, StageNodes, At
<1>2. q.kind \in {"analysis", "replay"} /\ q.scenario \in Scenarios
  BY <1>1 DEF Shaped, RunKind
<1>3. mem.nodes \cup NodesOf[q.scenario] \subseteq Nodes
  BY <1>1, <1>2, BookFields, RunAssumption
<1>4. /\ mem' = [mem EXCEPT !.nodes = mem.nodes \cup NodesOf[q.scenario]]
      /\ thread' = [thread EXCEPT ![t] = [q EXCEPT !.pc = "reasoning"]]
      /\ UNCHANGED <<disk, analyses, told, settled, uses, raced, torn, calls, crashes>>
  BY DEF StageNodes
<1> HIDE DEF q
<1>5. mem' \in Book
  BY <1>1, <1>3, <1>4 DEF Book
<1>6. Moved(q, [q EXCEPT !.pc = "reasoning"], "reasoning", q.answer)
  BY <1>1, MovesOn DEF Stretch
<1>7. \E p \in Thread : Becomes(t, p) /\ Moved(q, p, "reasoning", q.answer)
  BY <1>4, <1>6 DEF Becomes, Moved
<1> QED
  BY <1>1, <1>2, <1>4, <1>5, <1>7 DEF Book, q, SameRows, SameLinks

LEMMA StageApprovalWrites ==
    ASSUME ShapeInv, NEW t \in Threads, StageApproval(t)
    PROVE  LET q == thread[t]
           IN  /\ q.kind \in {"analysis", "replay"} /\ q.pc = "reasoning"
               /\ q.scenario \in Scenarios
               /\ mem'.items = [l \in Links |-> IF l \in LinksOf[q.scenario] THEN "pending"
                                                ELSE mem.items[l]]
               /\ SameRows(mem', mem) /\ SameRest(mem', mem) /\ mem'.events = mem.events
               /\ mem'.edges = mem.edges
               /\ \E p \in Thread : Becomes(t, p) /\ Moved(q, p, "staging", q.answer)
               /\ mem' \in Book
               /\ UNCHANGED <<disk, analyses, told, settled, uses, raced, torn, calls, crashes>>
<1> DEFINE q == thread[t]
           items == [l \in Links |-> IF l \in LinksOf[q.scenario] THEN "pending"
                                     ELSE mem.items[l]]
<1>1. q \in Thread /\ Shaped(q) /\ q.pc = "reasoning" /\ mem \in Book
  BY DEF ShapeInv, TypeOK, StageApproval, At
<1>2. q.kind \in {"analysis", "replay"} /\ q.scenario \in Scenarios
  BY <1>1 DEF Shaped, RunKind
<1>3. items \in [Links -> {"none", "pending", "approved"}]
  BY <1>1, BookFields
<1>4. /\ mem' = [mem EXCEPT !.items = items]
      /\ thread' = [thread EXCEPT ![t] = [q EXCEPT !.pc = "staging"]]
      /\ UNCHANGED <<disk, analyses, told, settled, uses, raced, torn, calls, crashes>>
  BY DEF StageApproval
<1> HIDE DEF q
<1>0. mem'.items = items
  BY <1>1, <1>4 DEF Book
<1> HIDE DEF items
<1>5. mem' \in Book
  BY <1>1, <1>3, <1>4 DEF Book
<1>6. Moved(q, [q EXCEPT !.pc = "staging"], "staging", q.answer)
  BY <1>1, MovesOn DEF Stretch
<1>7. \E p \in Thread : Becomes(t, p) /\ Moved(q, p, "staging", q.answer)
  BY <1>4, <1>6 DEF Becomes, Moved
<1>8. SameRows(mem', mem) /\ SameRest(mem', mem) /\ mem'.events = mem.events
      /\ mem'.edges = mem.edges
  BY <1>1, <1>4 DEF Book, SameRows, SameRest
<1> QED
  BY <1>0, <1>1, <1>2, <1>4, <1>5, <1>7, <1>8 DEF q, items

LEMMA TwoToStore ==
    ASSUME NEW a \in Collection, NEW b \in Collection, NEW q, q.todo = <<a, b>>
    PROVE  q.todo \in Seq(Collection) /\ Pend(q) = {a, b}
<1>1. DOMAIN q.todo = {1, 2}
  OBVIOUS
<1> QED
  BY <1>1 DEF Pend

LEMMA ThreeToStore ==
    ASSUME NEW a \in Collection, NEW b \in Collection, NEW c \in Collection,
           NEW q, q.todo = <<a, b, c>>
    PROVE  q.todo \in Seq(Collection) /\ Pend(q) = {a, b, c}
<1>1. DOMAIN q.todo = {1, 2, 3}
  OBVIOUS
<1> QED
  BY <1>1 DEF Pend

LEMMA FiveToStore ==
    ASSUME NEW a \in Collection, NEW b \in Collection, NEW c \in Collection,
           NEW d \in Collection, NEW e \in Collection, NEW q, q.todo = <<a, b, c, d, e>>
    PROVE  q.todo \in Seq(Collection) /\ Pend(q) = {a, b, c, d, e}
<1>1. DOMAIN q.todo = {1, 2, 3, 4, 5}
  OBVIOUS
<1> QED
  BY <1>1 DEF Pend

LEMMA OrderPend ==
    ASSUME NEW q, q.todo = Order(q.kind), q.kind \in RunKind
    PROVE  /\ Order(q.kind) \in Seq(Collection)
           /\ q.kind = "ingestion" => Pend(q) = {"run", "queue", "edges"}
           /\ q.kind = "analysis" => Pend(q) = {"run", "nodes", "findings", "queue", "edges"}
           /\ q.kind = "replay" => Pend(q) = {"completed", "run", "replay"}
<1>0. /\ "run" \in Collection /\ "nodes" \in Collection /\ "findings" \in Collection
      /\ "queue" \in Collection /\ "edges" \in Collection /\ "completed" \in Collection
      /\ "replay" \in Collection
  BY DEF Collection
<1>1. CASE q.kind = "ingestion"
  <2>1. q.todo = <<"run", "queue", "edges">> /\ Order(q.kind) = q.todo
    BY <1>1 DEF Order
  <2>2. q.todo \in Seq(Collection) /\ Pend(q) = {"run", "queue", "edges"}
    BY <1>0, <2>1, ThreeToStore, Zenon
  <2> QED
    BY <1>1, <2>1, <2>2, Zenon
<1>2. CASE q.kind = "analysis"
  <2>1. q.todo = <<"run", "nodes", "findings", "queue", "edges">> /\ Order(q.kind) = q.todo
    BY <1>2 DEF Order
  <2>2. q.todo \in Seq(Collection) /\ Pend(q) = {"run", "nodes", "findings", "queue", "edges"}
    <3>1. PICK a \in Collection, b \in Collection, c \in Collection, d \in Collection,
               e \in Collection :
             /\ a = "run" /\ b = "nodes" /\ c = "findings" /\ d = "queue" /\ e = "edges"
             /\ q.todo = <<a, b, c, d, e>>
      BY <1>0, <2>1, Zenon
    <3>2. q.todo \in Seq(Collection) /\ Pend(q) = {a, b, c, d, e}
      BY <3>1, FiveToStore
    <3> QED
      BY <3>1, <3>2
  <2> QED
    BY <1>2, <2>1, <2>2, Zenon
<1>3. CASE q.kind = "replay"
  <2>1. q.todo = <<"completed", "run", "replay">> /\ Order(q.kind) = q.todo
    BY <1>3 DEF Order
  <2>2. q.todo \in Seq(Collection) /\ Pend(q) = {"completed", "run", "replay"}
    BY <1>0, <2>1, ThreeToStore, Zenon
  <2> QED
    BY <1>3, <2>1, <2>2, Zenon
<1> QED
  BY <1>1, <1>2, <1>3 DEF RunKind

LEMMA CompleteWrites ==
    ASSUME ShapeInv, NEW t \in Threads, Complete(t)
    PROVE  LET q == thread[t]
               r == q.run
           IN  /\ q.kind \in RunKind /\ r \in RunIds
               /\ q.pc = IF q.kind = "ingestion" THEN "sources" ELSE "staging"
               /\ mem'.runs = [mem.runs EXCEPT ![r] = "succeeded"]
               /\ mem'.steps = [mem.steps EXCEPT ![r] = "succeeded"]
               /\ mem'.events = mem.events \cup {Event("completed", r)}
               /\ q.kind # "analysis" => mem'.findings = mem.findings
               /\ q.kind = "analysis" =>
                     mem'.findings = [f \in Findings |->
                        IF f \in FindingsOf[q.scenario] THEN "open" ELSE mem.findings[f]]
               /\ SameLinks(mem', mem) /\ mem'.nodes = mem.nodes
               /\ mem'.replays = mem.replays /\ analyses' \subseteq RunIds
               /\ \E p \in Thread : /\ Becomes(t, p) /\ Moved(q, p, "persist", "succeeded")
                                    /\ p.todo = Order(q.kind)
               /\ mem' \in Book
               /\ UNCHANGED <<disk, told, settled, uses, raced, torn, calls, crashes>>
<1> DEFINE q == thread[t]
           m == Detected(mem, q)
           found == [f \in Findings |-> IF f \in FindingsOf[q.scenario] THEN "open"
                                        ELSE mem.findings[f]]
<1>1. q \in Thread /\ Shaped(q) /\ mem \in Book /\ analyses \subseteq RunIds
      /\ q.pc = IF q.kind = "ingestion" THEN "sources" ELSE "staging"
  BY DEF ShapeInv, TypeOK, Complete, At
<1>2. q.kind \in RunKind /\ q.run \in RunIds
  BY <1>1 DEF Shaped
<1>3. /\ mem' = [m EXCEPT !.steps[q.run] = "succeeded", !.runs[q.run] = "succeeded",
                          !.events = m.events \cup {Event("completed", q.run)}]
      /\ analyses' = analyses \cup (IF q.kind = "ingestion" THEN {} ELSE {q.run})
      /\ thread' = [thread EXCEPT ![t] = [q EXCEPT !.pc = "persist", !.todo = Order(q.kind),
                                              !.answer = "succeeded"]]
      /\ UNCHANGED <<disk, told, settled, uses, raced, torn, calls, crashes>>
  BY DEF Complete
<1> HIDE DEF q
<1>4. found \in [Findings -> FindingStatus]
  BY <1>1, BookFields DEF FindingStatus
<1>5. m = IF q.kind = "analysis" THEN [mem EXCEPT !.findings = found] ELSE mem
  BY DEF Detected
<1> HIDE DEF found, m
<1>6. /\ m \in Book /\ m.runs = mem.runs /\ m.steps = mem.steps /\ m.events = mem.events
      /\ SameLinks(m, mem) /\ m.nodes = mem.nodes /\ m.replays = mem.replays
      /\ m.findings = IF q.kind = "analysis" THEN found ELSE mem.findings
  BY <1>1, <1>4, <1>5 DEF Book, SameLinks
<1>7. mem' = [m EXCEPT !.steps = [m.steps EXCEPT ![q.run] = "succeeded"],
                       !.runs = [m.runs EXCEPT ![q.run] = "succeeded"],
                       !.events = m.events \cup {Event("completed", q.run)}]
  BY <1>3, <1>6 DEF Book
<1>8. mem' \in Book
  <2>1. [m.runs EXCEPT ![q.run] = "succeeded"] \in [RunIds -> RunStatus]
    BY <1>6, <1>2, BookFields DEF RunStatus
  <2>2. [m.steps EXCEPT ![q.run] = "succeeded"] \in [RunIds -> StepStatus]
    BY <1>6, <1>2, BookFields DEF StepStatus
  <2>3. m.events \cup {Event("completed", q.run)} \subseteq RunEvent
    BY <1>6, <1>2, BookFields, EventTyped
  <2> QED
    BY <1>6, <1>7, <2>1, <2>2, <2>3 DEF Book
<1>9. /\ mem'.runs = [mem.runs EXCEPT ![q.run] = "succeeded"]
      /\ mem'.steps = [mem.steps EXCEPT ![q.run] = "succeeded"]
      /\ mem'.events = mem.events \cup {Event("completed", q.run)}
      /\ mem'.findings = IF q.kind = "analysis" THEN found ELSE mem.findings
      /\ SameLinks(mem', mem) /\ mem'.nodes = mem.nodes /\ mem'.replays = mem.replays
  BY <1>6, <1>7 DEF Book, SameLinks
<1>10. \E p \in Thread : /\ Becomes(t, p) /\ Moved(q, p, "persist", "succeeded")
                         /\ p.todo = Order(q.kind)
  <2> DEFINE p == [q EXCEPT !.pc = "persist", !.todo = Order(q.kind), !.answer = "succeeded"]
  <2>1. Order(q.kind) \in Seq(Collection)
    <3> DEFINE x == [todo |-> Order(q.kind), kind |-> q.kind]
    <3>1. x.todo = Order(x.kind) /\ x.kind = q.kind
      OBVIOUS
    <3> HIDE DEF x
    <3> QED
      BY <1>2, <3>1, OrderPend
  <2>2. Moved(q, p, "persist", "succeeded") /\ p.todo = Order(q.kind)
    BY <2>1, <1>1, MovesToStore DEF RunStatus
  <2> HIDE DEF p
  <2> QED
    BY <1>3, <2>2 DEF Becomes, Moved, p
<1>11. analyses' \subseteq RunIds
  BY <1>1, <1>2, <1>3
<1>12. UNCHANGED <<disk, told, settled, uses, raced, torn, calls, crashes>>
  BY <1>3
<1> QED
  BY <1>1, <1>2, <1>8, <1>9, <1>10, <1>11, <1>12 DEF q, found

LEMMA FailStageWrites ==
    ASSUME ShapeInv, NEW t \in Threads, FailStage(t)
    PROVE  LET q == thread[t]
               r == q.run
           IN  /\ q.kind \in RunKind /\ r \in RunIds /\ q.pc \in {"sources", "reasoning"}
               /\ mem'.runs = [mem.runs EXCEPT ![r] = "failed"]
               /\ \E left \in {"running", "failed", "succeeded"} :
                     mem'.steps = [mem.steps EXCEPT ![r] = left]
               /\ mem'.events = mem.events \cup {Event("failed", r)}
               /\ SameLinks(mem', mem) /\ SameRest(mem', mem)
               /\ \E p \in Thread : /\ Becomes(t, p) /\ Moved(q, p, "persist", "failed")
                                    /\ Pend(p) = {"run now", "events of run"}
               /\ mem' \in Book
               /\ UNCHANGED <<disk, analyses, told, settled, uses, raced, torn, calls, crashes>>
<1> DEFINE q == thread[t]
<1>1. q \in Thread /\ Shaped(q) /\ mem \in Book
  BY DEF ShapeInv, TypeOK
<1>2. PICK left \in Left(q.pc) :
         mem' = [mem EXCEPT !.steps[q.run] = left, !.runs[q.run] = "failed",
                            !.events = mem.events \cup {Event("failed", q.run)}]
  BY DEF FailStage
<1>3. /\ thread' = [thread EXCEPT ![t] = [q EXCEPT !.pc = "persist", !.answer = "failed",
                                              !.todo = <<"run now", "events of run">>]]
      /\ UNCHANGED <<disk, analyses, told, settled, uses, raced, torn, calls, crashes>>
  BY DEF FailStage
<1> HIDE DEF q
<1>4. q.pc \in {"sources", "reasoning"} /\ left \in {"running", "failed", "succeeded"}
  BY <1>2 DEF Left
<1>5. q.kind \in RunKind /\ q.run \in RunIds
  BY <1>1, <1>4 DEF Shaped
<1>7. mem' = [mem EXCEPT !.steps = [mem.steps EXCEPT ![q.run] = left],
                         !.runs = [mem.runs EXCEPT ![q.run] = "failed"],
                         !.events = mem.events \cup {Event("failed", q.run)}]
  BY <1>1, <1>2 DEF Book
<1>8. mem' \in Book
  <2>1. [mem.runs EXCEPT ![q.run] = "failed"] \in [RunIds -> RunStatus]
    BY <1>1, <1>5, BookFields DEF RunStatus
  <2>2. [mem.steps EXCEPT ![q.run] = left] \in [RunIds -> StepStatus]
    BY <1>1, <1>4, <1>5, BookFields DEF StepStatus
  <2>3. mem.events \cup {Event("failed", q.run)} \subseteq RunEvent
    BY <1>1, <1>5, BookFields, EventTyped
  <2> QED
    BY <1>1, <1>7, <2>1, <2>2, <2>3 DEF Book
<1>9. /\ mem'.runs = [mem.runs EXCEPT ![q.run] = "failed"]
      /\ mem'.steps = [mem.steps EXCEPT ![q.run] = left]
      /\ mem'.events = mem.events \cup {Event("failed", q.run)}
      /\ SameLinks(mem', mem) /\ SameRest(mem', mem)
  BY <1>1, <1>7 DEF Book, SameLinks, SameRest
<1>10. \E p \in Thread : /\ Becomes(t, p) /\ Moved(q, p, "persist", "failed")
                         /\ Pend(p) = {"run now", "events of run"}
  <2> DEFINE s == <<"run now", "events of run">>
             p == [q EXCEPT !.pc = "persist", !.todo = s, !.answer = "failed"]
  <2>1. Becomes(t, p)
    BY <1>1, <1>3 DEF Becomes, Thread
  <2>2. s \in Seq(Collection)
    BY DEF Collection
  <2>3. Moved(q, p, "persist", "failed") /\ p.todo = s
    BY <2>2, <1>1, MovesToStore DEF RunStatus
  <2> HIDE DEF p
  <2>4. Pend(p) = {"run now", "events of run"}
    BY <2>3, TwoToStore, Zenon DEF Collection
  <2> QED
    BY <2>1, <2>3, <2>4 DEF Moved
<1>11. UNCHANGED <<disk, analyses, told, settled, uses, raced, torn, calls, crashes>>
  BY <1>3
<1> QED
  BY <1>4, <1>5, <1>8, <1>9, <1>10, <1>11 DEF q

\* What the triage of a finding stores.
TriageRows == {"finding", "queue", "edges"}

LEMMA TriageArrives ==
    ASSUME ShapeInv, NEW t \in Threads, NEW f \in Findings, NEW status \in Triages,
           Triage(t, f, status)
    PROVE  \E p \in Thread :
              /\ Receive(t, p) /\ p.pc = "persist" /\ p.kind = "triage" /\ p.run = NoRun
              /\ p.finding = f /\ p.answer = status /\ Pend(p) = TriageRows
<1> DEFINE s == <<"finding", "queue", "edges">>
           p == [Request("triage") EXCEPT !.finding = f, !.answer = status, !.todo = s]
<1>1. /\ Request("triage") \in Thread /\ Request("triage").kind = "triage"
      /\ Request("triage").run = NoRun /\ Request("triage").pc = "persist"
  <2>1. <<>> \in Seq(Collection)
    OBVIOUS
  <2> QED
    BY <2>1 DEF Request, Thread, RunStatus
<1>2. Receive(t, p)
  BY DEF Triage
<1>3. s \in Seq(Collection)
  BY DEF Collection
<1>4. /\ p.pc = "persist" /\ p.kind = "triage" /\ p.run = NoRun
      /\ p.finding = f /\ p.answer = status /\ p.todo = s
  BY <1>1 DEF Thread
<1>5. p \in Thread
  BY <1>1, <1>3 DEF Thread
<1> HIDE DEF p
<1>6. Pend(p) = TriageRows
  <2>1. "finding" \in Collection /\ "queue" \in Collection /\ "edges" \in Collection
    BY DEF Collection
  <2>2. p.todo = <<"finding", "queue", "edges">>
    BY <1>4
  <2>3. Pend(p) = {"finding", "queue", "edges"}
    BY <2>1, <2>2, ThreeToStore, Zenon
  <2> QED
    BY <2>3 DEF TriageRows
<1> HIDE DEF s
<1> QED
  BY <1>2, <1>4, <1>5, <1>6

LEMMA TriageWrites ==
    ASSUME ShapeInv, NEW t \in Threads, NEW f \in Findings, NEW status \in Triages,
           Triage(t, f, status)
    PROVE  /\ mem.findings[f] # "none"
           /\ mem'.findings = [mem.findings EXCEPT ![f] = status] /\ mem'.events = mem.events
           /\ SameRows(mem', mem) /\ SameLinks(mem', mem) /\ mem'.nodes = mem.nodes
           /\ mem'.replays = mem.replays /\ mem' \in Book
           /\ UNCHANGED <<disk, analyses, told, uses, torn, crashes>>
<1>7. /\ mem \in Book /\ mem.findings[f] # "none"
      /\ mem' = [mem EXCEPT !.findings = [mem.findings EXCEPT ![f] = status]]
  BY DEF Triage, ShapeInv, TypeOK, Book
<1>8. [mem.findings EXCEPT ![f] = status] \in [Findings -> FindingStatus]
  BY <1>7, BookFields DEF FindingStatus
<1>9. mem' \in Book
  BY <1>7, <1>8 DEF Book
<1>10. /\ SameRows(mem', mem) /\ SameLinks(mem', mem) /\ mem'.nodes = mem.nodes
       /\ mem'.replays = mem.replays /\ mem'.events = mem.events
       /\ mem'.findings = [mem.findings EXCEPT ![f] = status]
  BY <1>7 DEF SameRows, SameLinks, Book
<1>11. UNCHANGED <<disk, analyses, told, uses, torn, crashes>>
  BY DEF Triage
<1> QED
  BY <1>7, <1>9, <1>10, <1>11

LEMMA ApproveWrites ==
    ASSUME ShapeInv, NEW t \in Threads, NEW l \in Links, Approve(t, l)
    PROVE  /\ mem.items[l] = "pending"
           /\ \E p \in Thread :
                 /\ Receive(t, p) /\ p.pc = "persist" /\ p.kind = "approve" /\ p.run = NoRun
                 /\ p.finding = NoFinding /\ p.answer = "none" /\ Pend(p) = {"queue", "edges"}
           /\ mem'.items = [mem.items EXCEPT ![l] = "approved"]
           /\ mem'.edges = mem.edges \cup {l} /\ mem'.events = mem.events
           /\ SameRows(mem', mem) /\ SameRest(mem', mem) /\ mem' \in Book
           /\ UNCHANGED <<disk, analyses, told, uses, torn, crashes>>
<1> DEFINE s == <<"queue", "edges">>
           p == [Request("approve") EXCEPT !.todo = s]
<1>1. /\ Request("approve") \in Thread /\ Request("approve").kind = "approve"
      /\ Request("approve").run = NoRun /\ Request("approve").pc = "persist"
      /\ Request("approve").finding = NoFinding /\ Request("approve").answer = "none"
  <2>1. <<>> \in Seq(Collection)
    OBVIOUS
  <2> QED
    BY <2>1 DEF Request, Thread, RunStatus
<1>2. Receive(t, p)
  BY DEF Approve
<1>3. s \in Seq(Collection)
  BY DEF Collection
<1>4. /\ p.pc = "persist" /\ p.kind = "approve" /\ p.run = NoRun
      /\ p.finding = NoFinding /\ p.answer = "none" /\ p.todo = s
  BY <1>1 DEF Thread
<1>5. p \in Thread
  BY <1>1, <1>3 DEF Thread
<1> HIDE DEF p
<1>6. Pend(p) = {"queue", "edges"}
  BY <1>4, TwoToStore, Zenon DEF Collection
<1> HIDE DEF s
<1>7. /\ mem \in Book /\ mem.items[l] = "pending"
      /\ mem' = [mem EXCEPT !.items = [mem.items EXCEPT ![l] = "approved"],
                            !.edges = mem.edges \cup {l}]
  BY DEF Approve, ShapeInv, TypeOK, Book
<1>8. [mem.items EXCEPT ![l] = "approved"] \in [Links -> {"none", "pending", "approved"}]
  BY <1>7, BookFields
<1>9. mem' \in Book
  BY <1>7, <1>8 DEF Book
<1>10. /\ SameRows(mem', mem) /\ SameRest(mem', mem) /\ mem'.events = mem.events
       /\ mem'.items = [mem.items EXCEPT ![l] = "approved"] /\ mem'.edges = mem.edges \cup {l}
  BY <1>7 DEF SameRows, SameRest, Book
<1>11. UNCHANGED <<disk, analyses, told, uses, torn, crashes>>
  BY DEF Approve
<1> QED
  BY <1>2, <1>4, <1>5, <1>6, <1>7, <1>9, <1>10, <1>11

\* What is left to store after the first collection.
LEMMA RestToStore ==
    ASSUME NEW q, q.todo \in Seq(Collection), q.todo # <<>>, NEW p, p.todo = Tail(q.todo)
    PROVE  /\ Head(q.todo) \in Collection /\ p.todo \in Seq(Collection)
           /\ Pend(q) = {Head(q.todo)} \cup Pend(p)
<1> DEFINE s == q.todo
<1>1. s \in Seq(Collection) /\ s # <<>> /\ Len(s) \in Nat /\ Len(s) > 0
      /\ Head(s) = s[1] /\ Head(s) \in Collection /\ Tail(s) \in Seq(Collection)
      /\ Len(Tail(s)) = Len(s) - 1 /\ \A i \in 1..Len(Tail(s)) : Tail(s)[i] = s[i + 1]
  OBVIOUS
<1>2. DOMAIN s = 1..Len(s) /\ DOMAIN Tail(s) = 1..Len(Tail(s))
  BY <1>1
<1> HIDE DEF s
<1>3. {s[i] : i \in DOMAIN s} = {s[1]} \cup {Tail(s)[i] : i \in DOMAIN Tail(s)}
  <2>1. \A i \in 1..Len(s) : i = 1 \/ (i - 1 \in 1..Len(Tail(s)) /\ s[i] = Tail(s)[i - 1])
    BY <1>1
  <2>2. \A i \in 1..Len(Tail(s)) : i + 1 \in 1..Len(s)
    BY <1>1
  <2>3. \A x \in {s[i] : i \in DOMAIN s} : x \in {s[1]} \cup {Tail(s)[i] : i \in DOMAIN Tail(s)}
    BY <1>2, <2>1
  <2>4. 1 \in 1..Len(s)
    BY <1>1
  <2>5. \A x \in {Tail(s)[i] : i \in DOMAIN Tail(s)} : x \in {s[i] : i \in DOMAIN s}
    BY <1>1, <1>2, <2>2
  <2> QED
    BY <1>2, <2>3, <2>4, <2>5
<1> QED
  BY <1>1, <1>3 DEF Pend, s

\* Storing collection c of request q makes the store d, field by field.
Wrote(c, q, d) ==
    LET r == q.run IN
    /\ d.runs = IF c = "run" THEN [disk.runs EXCEPT ![r] = "succeeded"]
                ELSE IF c = "run now" THEN [disk.runs EXCEPT ![r] = mem.runs[r]]
                ELSE disk.runs
    /\ d.steps = IF c = "run" THEN [disk.steps EXCEPT ![r] = "succeeded"]
                 ELSE IF c = "run now" THEN [disk.steps EXCEPT ![r] = mem.steps[r]]
                 ELSE disk.steps
    /\ d.events = disk.events \cup
          (IF c = "completed" THEN {Event("completed", r)}
           ELSE IF c = "events of run" THEN {e \in mem.events : e.run = r}
           ELSE IF c = "queue" THEN mem.events ELSE {})
    /\ d.nodes = disk.nodes \cup (IF c = "nodes" THEN NodesOf[q.scenario] ELSE {})
    /\ d.findings = IF c = "findings"
                    THEN [f \in Findings |-> IF f \in FindingsOf[q.scenario] THEN "open"
                                             ELSE disk.findings[f]]
                    ELSE IF c = "finding"
                    THEN [disk.findings EXCEPT ![q.finding] = q.answer]
                    ELSE disk.findings
    /\ d.replays = disk.replays \cup (IF c = "replay" THEN {r} ELSE {})
    /\ d.items = IF c = "queue" THEN mem.items ELSE disk.items
    /\ d.edges = disk.edges \cup (IF c = "edges" THEN mem.edges ELSE {})

LEMMA StoredFields ==
    ASSUME disk \in Book, mem \in Book, NEW q \in Thread, NEW c \in Collection, Stores(c, q),
           Shaped(q), q.pc = "persist", NEW d, d = Stored(c, q)
    PROVE  Wrote(c, q, d) /\ d \in Book
<1> USE DEF Wrote
<1> DEFINE r == q.run
<1>1. CASE c = "run"
  <2>1. r \in RunIds
    BY <1>1 DEF Stores, Shaped
  <2>2. d = [disk EXCEPT !.runs = [disk.runs EXCEPT ![r] = "succeeded"],
                         !.steps = [disk.steps EXCEPT ![r] = "succeeded"]]
    BY <1>1 DEF Stored, Book
  <2>3. /\ [disk.runs EXCEPT ![r] = "succeeded"] \in [RunIds -> RunStatus]
        /\ [disk.steps EXCEPT ![r] = "succeeded"] \in [RunIds -> StepStatus]
    BY <2>1, BookFields DEF RunStatus, StepStatus
  <2> QED
    BY <1>1, <2>2, <2>3 DEF Book
<1>2. CASE c = "run now"
  <2>1. r \in RunIds
    BY <1>2 DEF Stores, Shaped
  <2>2. d = [disk EXCEPT !.runs = [disk.runs EXCEPT ![r] = mem.runs[r]],
                         !.steps = [disk.steps EXCEPT ![r] = mem.steps[r]]]
    BY <1>2 DEF Stored, Book
  <2>3. /\ [disk.runs EXCEPT ![r] = mem.runs[r]] \in [RunIds -> RunStatus]
        /\ [disk.steps EXCEPT ![r] = mem.steps[r]] \in [RunIds -> StepStatus]
    BY <2>1, BookFields
  <2> QED
    BY <1>2, <2>2, <2>3 DEF Book
<1>3. CASE c = "completed"
  <2>1. r \in RunIds
    BY <1>3 DEF Stores, Shaped, RunKind
  <2>2. disk.events \cup {Event("completed", r)} \subseteq RunEvent
    BY <2>1, BookFields, EventTyped
  <2>3. d = [disk EXCEPT !.events = disk.events \cup {Event("completed", r)}]
    BY <1>3 DEF Stored
  <2> QED
    BY <1>3, <2>2, <2>3 DEF Book
<1>4. CASE c = "events of run"
  <2>1. d = [disk EXCEPT !.events = disk.events \cup {e \in mem.events : e.run = r}]
    BY <1>4 DEF Stored
  <2>2. disk.events \cup {e \in mem.events : e.run = r} \subseteq RunEvent
    BY BookFields
  <2> QED
    BY <1>4, <2>1, <2>2 DEF Book
<1>5. CASE c = "nodes"
  <2>1. d = [disk EXCEPT !.nodes = disk.nodes \cup NodesOf[q.scenario]]
    BY <1>5 DEF Stored
  <2>2. disk.nodes \cup NodesOf[q.scenario] \subseteq Nodes
    BY <1>5, BookFields, RunAssumption DEF Stores, Shaped
  <2> QED
    BY <1>5, <2>1, <2>2 DEF Book
<1>6. CASE c = "findings"
  <2> DEFINE found == [f \in Findings |-> IF f \in FindingsOf[q.scenario] THEN "open"
                                          ELSE disk.findings[f]]
  <2>1. d = [disk EXCEPT !.findings = found]
    BY <1>6 DEF Stored
  <2>2. found \in [Findings -> FindingStatus]
    BY BookFields DEF FindingStatus
  <2> HIDE DEF found
  <2>3. d \in Book /\ d.findings = found /\ SameRows(d, disk) /\ SameLinks(d, disk)
        /\ d.nodes = disk.nodes /\ d.replays = disk.replays /\ d.events = disk.events
    BY <2>1, <2>2 DEF Book, SameRows, SameLinks
  <2> QED
    BY <1>6, <2>3 DEF SameRows, SameLinks, found
<1>7. CASE c = "finding"
  <2>1. q.finding \in Findings /\ q.answer \in FindingStatus
    BY <1>7 DEF Stores, Shaped, FindingStatus
  <2>2. d = [disk EXCEPT !.findings = [disk.findings EXCEPT ![q.finding] = q.answer]]
    BY <1>7 DEF Stored, Book
  <2>3. [disk.findings EXCEPT ![q.finding] = q.answer] \in [Findings -> FindingStatus]
    BY <2>1, BookFields
  <2> QED
    BY <1>7, <2>2, <2>3 DEF Book
<1>8. CASE c = "replay"
  <2>1. d = [disk EXCEPT !.replays = disk.replays \cup {r}]
    BY <1>8 DEF Stored
  <2>2. r \in RunIds
    BY <1>8 DEF Stores, Shaped, RunKind
  <2>3. disk.replays \cup {r} \subseteq RunIds
    BY <2>2, BookFields
  <2> QED
    BY <1>8, <2>1, <2>3 DEF Book
<1>9. CASE c = "queue"
  <2>1. d = [disk EXCEPT !.items = mem.items, !.events = disk.events \cup mem.events]
    BY <1>9 DEF Stored
  <2>2. disk.events \cup mem.events \subseteq RunEvent
    BY BookFields
  <2> QED
    BY <1>9, <2>1, <2>2 DEF Book
<1>10. CASE c = "edges"
  <2>1. d = [disk EXCEPT !.edges = disk.edges \cup mem.edges]
    BY <1>10 DEF Stored
  <2>2. disk.edges \cup mem.edges \subseteq Links
    BY BookFields
  <2> QED
    BY <1>10, <2>1, <2>2 DEF Book
<1> QED
  BY <1>1, <1>2, <1>3, <1>4, <1>5, <1>6, <1>7, <1>8, <1>9, <1>10 DEF Collection

LEMMA PersistWrites ==
    ASSUME ShapeInv, NEW t \in Threads, Persist(t)
    PROVE  LET q == thread[t]
           IN  /\ q.pc = "persist"
               /\ \E c \in Collection, p \in Thread :
                     /\ c = Head(q.todo) /\ Stores(c, q) /\ Pend(q) = {c} \cup Pend(p)
                     /\ Becomes(t, p) /\ Moved(q, p, "persist", q.answer)
                     /\ c = "edges" => Closed(mem)
                     /\ disk' = Stored(c, q)
                     /\ mem'.replays = mem.replays \cup (IF c = "replay" THEN {q.run} ELSE {})
               /\ SameRows(mem', mem) /\ SameLinks(mem', mem) /\ mem'.nodes = mem.nodes
               /\ mem'.findings = mem.findings /\ mem'.events = mem.events
               /\ mem' \in Book /\ disk' \in Book
               /\ UNCHANGED <<analyses, told, settled, uses, raced, torn, calls, crashes>>
<1> DEFINE q == thread[t]
           c == Head(q.todo)
           p == [q EXCEPT !.todo = Tail(q.todo)]
<1>1. q \in Thread /\ Shaped(q) /\ q.pc = "persist" /\ mem \in Book /\ disk \in Book
  BY DEF ShapeInv, TypeOK, Persist, At
<1>2. /\ q.todo # <<>> /\ (c = "edges" => Closed(mem)) /\ disk' = Stored(c, q)
      /\ mem' = IF c = "replay" THEN [mem EXCEPT !.replays = mem.replays \cup {q.run}] ELSE mem
      /\ UNCHANGED <<analyses, told, settled, uses, raced, torn, calls, crashes>>
  BY DEF Persist
<1>3. Becomes(t, p)
  BY <1>1 DEF Persist, Becomes, Thread
<1> HIDE DEF q
<1>4. q.todo \in Seq(Collection)
  BY <1>1 DEF Thread
<1>5. p.todo = Tail(q.todo)
  BY <1>1 DEF Thread
<1> HIDE DEF p
<1>6. c \in Collection /\ p.todo \in Seq(Collection) /\ Pend(q) = {c} \cup Pend(p)
  BY <1>2, <1>4, <1>5, RestToStore
<1> HIDE DEF c
<1>7. Stores(c, q)
  BY <1>1, <1>6 DEF Shaped
<1>8. Moved(q, p, "persist", q.answer)
  BY <1>1, <1>5, <1>6 DEF Moved, Thread, p
<1>9. disk' \in Book
  BY <1>1, <1>2, <1>6, <1>7, StoredFields
<1>10. /\ mem' \in Book /\ SameRows(mem', mem) /\ SameLinks(mem', mem) /\ mem'.nodes = mem.nodes
       /\ mem'.findings = mem.findings /\ mem'.events = mem.events
       /\ mem'.replays = mem.replays \cup (IF c = "replay" THEN {q.run} ELSE {})
  <2>1. CASE c = "replay"
    <3>1. q.run \in RunIds
      BY <2>1, <1>7, <1>1 DEF Stores, Shaped, RunKind
    <3>2. mem.replays \cup {q.run} \subseteq RunIds
      BY <3>1, <1>1, BookFields
    <3>3. mem' = [mem EXCEPT !.replays = mem.replays \cup {q.run}]
      BY <2>1, <1>2
    <3> QED
      BY <1>1, <2>1, <3>2, <3>3 DEF Book, SameRows, SameLinks
  <2>2. CASE c # "replay"
    BY <2>2, <1>1, <1>2 DEF SameRows, SameLinks
  <2> QED
    BY <2>1, <2>2
<1>11. \E d \in Collection, s \in Thread :
          /\ d = Head(q.todo) /\ Stores(d, q) /\ Pend(q) = {d} \cup Pend(s)
          /\ Becomes(t, s) /\ Moved(q, s, "persist", q.answer)
          /\ d = "edges" => Closed(mem)
          /\ disk' = Stored(d, q)
          /\ mem'.replays = mem.replays \cup (IF d = "replay" THEN {q.run} ELSE {})
  BY <1>2, <1>3, <1>6, <1>7, <1>8, <1>10 DEF Moved, c
<1> QED
  BY <1>1, <1>2, <1>9, <1>10, <1>11 DEF q

\* Every step leaves the registries and the requests well formed.
LEMMA ShapeInit == Init => ShapeInv
<1> SUFFICES ASSUME Init PROVE ShapeInv
  OBVIOUS
<1>1. Empty \in Book
  BY DEF Empty, Book, RunStatus, StepStatus, FindingStatus
<1>2. settled \in [Findings -> FindingStatus]
  BY DEF Init, Empty, FindingStatus
<1>3. thread \in [Threads -> Thread] /\ \A t \in Threads : Shaped(thread[t])
  BY IdleThread DEF Init
<1>4. told \in [RunIds -> Thread]
  BY IdleThread DEF Init
<1>5. MaxCalls \in Nat /\ MaxCrashes \in Nat
  BY RunAssumption
<1>6. /\ uses \in [RunIds -> 0..MaxCalls] /\ \A r \in RunIds : uses[r] <= calls
  BY <1>5 DEF Init
<1>7. calls \in 0..MaxCalls /\ crashes \in 0..MaxCrashes
  BY <1>5 DEF Init
<1>8. mem \in Book /\ disk \in Book /\ analyses \subseteq RunIds
      /\ raced \subseteq Findings /\ torn \in BOOLEAN
  BY <1>1 DEF Init
<1> QED
  BY <1>2, <1>3, <1>4, <1>6, <1>7, <1>8 DEF ShapeInv, TypeOK

\* A request that goes on keeps its shape.
LEMMA ShapeMoves ==
    ASSUME ShapeInv, NEW t \in Threads, NEW p \in Thread, Becomes(t, p), Shaped(p)
    PROVE  thread' \in [Threads -> Thread] /\ \A u \in Threads : Shaped(thread'[u])
BY DEF ShapeInv, TypeOK, Becomes

\* What a request that moves on still has to be is what it was.
LEMMA MovedShape ==
    ASSUME NEW q \in Thread, Shaped(q), q.kind \in RunKind,
           NEW p \in Thread, NEW place \in Stretch \cup {"persist"}, NEW a, Moved(q, p, place, a),
           place \in {"reasoning", "staging"} => q.kind \in {"analysis", "replay"},
           place \in Stretch => a = "none",
           place = "persist" => a \in {"succeeded", "failed"} /\ \A c \in Pend(p) : Stores(c, p)
    PROVE  Shaped(p)
BY DEF Shaped, Moved, RunKind, Stretch

LEMMA FailedShape ==
    ASSUME NEW p, p.kind \in RunKind, p.answer = "failed",
           Pend(p) = {"run now", "events of run"}
    PROVE  \A c \in Pend(p) : Stores(c, p)
BY DEF Stores, Collection

LEMMA CompletedShape ==
    ASSUME NEW p, p.kind \in RunKind, p.answer = "succeeded", p.todo = Order(p.kind)
    PROVE  \A c \in Pend(p) : Stores(c, p)
<1>1. CASE p.kind = "ingestion"
  <2>1. Pend(p) = {"run", "queue", "edges"}
    BY <1>1, OrderPend
  <2> QED
    BY <1>1, <2>1 DEF Stores, Collection
<1>2. CASE p.kind = "analysis"
  <2>1. Pend(p) = {"run", "nodes", "findings", "queue", "edges"}
    BY <1>2, OrderPend
  <2> QED
    BY <1>2, <2>1 DEF Stores, Collection
<1>3. CASE p.kind = "replay"
  <2>1. Pend(p) = {"completed", "run", "replay"}
    BY <1>3, OrderPend
  <2> QED
    BY <1>3, <2>1 DEF Stores, Collection
<1> QED
  BY <1>1, <1>2, <1>3 DEF RunKind

LEMMA ShapeStep == ShapeInv /\ [Next]_vars => ShapeInv'
<1> SUFFICES ASSUME ShapeInv, [Next]_vars PROVE ShapeInv'
  OBVIOUS
<1>0. /\ mem \in Book /\ disk \in Book /\ analyses \subseteq RunIds
      /\ thread \in [Threads -> Thread] /\ told \in [RunIds -> Thread]
      /\ settled \in [Findings -> FindingStatus] /\ uses \in [RunIds -> 0..MaxCalls]
      /\ raced \subseteq Findings /\ torn \in BOOLEAN /\ calls \in 0..MaxCalls
      /\ crashes \in 0..MaxCrashes /\ MaxCalls \in Nat /\ MaxCrashes \in Nat
      /\ \A r \in RunIds : uses[r] <= calls
      /\ \A t \in Threads : Shaped(thread[t])
  BY RunAssumption DEF ShapeInv, TypeOK
<1>1. ASSUME Restart PROVE ShapeInv'
  <2>1. /\ mem' = disk /\ analyses' = {} /\ thread' = [t \in Threads |-> Idle]
        /\ torn' = (torn \/ \E t \in Threads : Unsaved(t))
        /\ UNCHANGED <<disk, told, settled, uses, raced, calls>>
    BY <1>1 DEF Restart
  <2>2. crashes' \in 0..MaxCrashes
    BY <1>0, <1>1 DEF Restart
  <2>3. thread' \in [Threads -> Thread] /\ \A t \in Threads : Shaped(thread'[t])
    BY <2>1, IdleThread
  <2> QED
    BY <1>0, <2>1, <2>2, <2>3 DEF ShapeInv, TypeOK, Shaped
<1>2. ASSUME NEW t \in Threads, Work(t) \/ Break(t) PROVE ShapeInv'
  <2>0. thread[t] \in Thread /\ Shaped(thread[t])
    BY <1>0
  <2>1. CASE Create(t)
    <3>1. PICK p \in Thread :
             Becomes(t, p) /\ Moved(thread[t], p, "sources", thread[t].answer)
      BY <2>1, CreateWrites
    <3>2. /\ mem' \in Book /\ disk' \in Book
          /\ UNCHANGED <<analyses, told, settled, uses, raced, torn, calls, crashes>>
          /\ thread[t].kind \in RunKind /\ thread[t].pc = "started"
      BY <2>1, CreateWrites
    <3>3. Shaped(p)
      BY <2>0, <3>1, <3>2, MovedShape DEF Shaped, Stretch
    <3> QED
      BY <1>0, <3>1, <3>2, <3>3, ShapeMoves DEF ShapeInv, TypeOK
  <2>2. CASE StageNodes(t)
    <3>1. PICK p \in Thread :
             Becomes(t, p) /\ Moved(thread[t], p, "reasoning", thread[t].answer)
      BY <2>2, StageNodesWrites
    <3>2. /\ mem' \in Book
          /\ UNCHANGED <<disk, analyses, told, settled, uses, raced, torn, calls, crashes>>
          /\ thread[t].kind \in {"analysis", "replay"} /\ thread[t].pc = "sources"
      BY <2>2, StageNodesWrites
    <3>3. thread[t].answer = "none"
      BY <2>0, <3>2 DEF Shaped, Stretch
    <3>4. Shaped(p)
      BY <2>0, <3>1, <3>2, <3>3, MovedShape DEF RunKind, Stretch
    <3> QED
      BY <1>0, <3>1, <3>2, <3>4, ShapeMoves DEF ShapeInv, TypeOK
  <2>3. CASE StageApproval(t)
    <3>1. PICK p \in Thread :
             Becomes(t, p) /\ Moved(thread[t], p, "staging", thread[t].answer)
      BY <2>3, StageApprovalWrites
    <3>2. /\ mem' \in Book
          /\ UNCHANGED <<disk, analyses, told, settled, uses, raced, torn, calls, crashes>>
          /\ thread[t].kind \in {"analysis", "replay"} /\ thread[t].pc = "reasoning"
      BY <2>3, StageApprovalWrites
    <3>3. thread[t].answer = "none"
      BY <2>0, <3>2 DEF Shaped, Stretch
    <3>4. Shaped(p)
      BY <2>0, <3>1, <3>2, <3>3, MovedShape DEF RunKind, Stretch
    <3> QED
      BY <1>0, <3>1, <3>2, <3>4, ShapeMoves DEF ShapeInv, TypeOK
  <2>4. CASE Complete(t)
    <3>1. PICK p \in Thread : /\ Becomes(t, p) /\ Moved(thread[t], p, "persist", "succeeded")
                              /\ p.todo = Order(thread[t].kind)
      BY <2>4, CompleteWrites
    <3>2. /\ mem' \in Book /\ analyses' \subseteq RunIds /\ thread[t].kind \in RunKind
          /\ UNCHANGED <<disk, told, settled, uses, raced, torn, calls, crashes>>
      BY <2>4, CompleteWrites
    <3>3. \A c \in Pend(p) : Stores(c, p)
      BY <3>1, <3>2, CompletedShape DEF Moved
    <3>4. Shaped(p)
      BY <2>0, <3>1, <3>2, <3>3, MovedShape DEF Stretch
    <3> QED
      BY <1>0, <3>1, <3>2, <3>4, ShapeMoves DEF ShapeInv, TypeOK
  <2>5. CASE FailStage(t)
    <3>1. PICK p \in Thread : /\ Becomes(t, p) /\ Moved(thread[t], p, "persist", "failed")
                              /\ Pend(p) = {"run now", "events of run"}
      BY <2>5, FailStageWrites
    <3>2. /\ mem' \in Book /\ thread[t].kind \in RunKind
          /\ UNCHANGED <<disk, analyses, told, settled, uses, raced, torn, calls, crashes>>
      BY <2>5, FailStageWrites
    <3>3. \A c \in Pend(p) : Stores(c, p)
      BY <3>1, <3>2, FailedShape DEF Moved
    <3>4. Shaped(p)
      BY <2>0, <3>1, <3>2, <3>3, MovedShape DEF Stretch
    <3> QED
      BY <1>0, <3>1, <3>2, <3>4, ShapeMoves DEF ShapeInv, TypeOK
  <2>6. CASE Persist(t)
    <3>1. PICK c \in Collection, p \in Thread :
             /\ Pend(thread[t]) = {c} \cup Pend(p) /\ Becomes(t, p)
             /\ Moved(thread[t], p, "persist", thread[t].answer)
      BY <2>6, PersistWrites
    <3>2. /\ mem' \in Book /\ disk' \in Book /\ thread[t].pc = "persist"
          /\ UNCHANGED <<analyses, told, settled, uses, raced, torn, calls, crashes>>
      BY <2>6, PersistWrites
    <3>3. \A d \in Pend(p) : Stores(d, thread[t])
      BY <2>0, <3>1, <3>2 DEF Shaped
    <3>4. \A d : Stores(d, thread[t]) => Stores(d, p)
      BY <3>1 DEF Moved, Stores
    <3>5. Shaped(p)
      BY <2>0, <3>1, <3>2, <3>3, <3>4 DEF Shaped, Moved, Stretch
    <3> QED
      BY <1>0, <3>1, <3>2, <3>5, ShapeMoves DEF ShapeInv, TypeOK
  <2>7. CASE PersistRaises(t) \/ Break(t) \/ Answer(t)
    <3>1. Becomes(t, Idle) /\ UNCHANGED <<mem, disk, analyses, uses, raced, calls, crashes>>
      BY <2>7 DEF PersistRaises, Break, Answer, Becomes
    <3>2. torn' \in BOOLEAN
      BY <1>0, <2>7 DEF PersistRaises, Break, Answer
    <3>3. told' \in [RunIds -> Thread]
      BY <1>0, <2>0, <2>7 DEF PersistRaises, Break, Answer
    <3>4. settled' \in [Findings -> FindingStatus]
      <4>1. CASE Answer(t)
        <5>1. /\ thread[t].pc = "persist"
              /\ settled' = [f \in Findings |->
                    IF f = thread[t].finding THEN thread[t].answer ELSE settled[f]]
          BY <4>1 DEF Answer, At
        <5>2. thread[t].finding \in Findings => thread[t].answer \in FindingStatus
          <6>1. NoFinding \notin Findings
            BY RunAssumption
          <6> QED
            BY <2>0, <5>1, <6>1 DEF Shaped, FindingStatus, Thread
        <5> QED
          BY <1>0, <5>1, <5>2
      <4> QED
        BY <1>0, <2>7, <4>1 DEF PersistRaises, Break
    <3> QED
      BY <1>0, <3>1, <3>2, <3>3, <3>4, IdleThread, ShapeMoves DEF ShapeInv, TypeOK
  <2> QED
    BY <1>2, <2>1, <2>2, <2>3, <2>4, <2>5, <2>6, <2>7 DEF Work
<1>3. ASSUME NEW t \in Threads, NEW kind \in RunKind, NEW r \in RunIds,
             NEW s \in Scenarios \cup {NoScenario}, Begin(t, kind, r, s),
             kind # "ingestion" => s \in Scenarios
      PROVE  ShapeInv'
  <2>1. PICK p \in Thread :
           /\ Receive(t, p) /\ p.pc = "started" /\ p.kind = kind /\ p.run = r
           /\ p.scenario = s /\ p.finding = NoFinding /\ p.answer = "none"
    BY <1>3, BeginWrites
  <2>2. /\ mem' \in Book /\ UNCHANGED <<disk, analyses, told, crashes>>
        /\ uses' = [uses EXCEPT ![r] = uses[r] + 1] /\ torn' = (torn \/ kind = "replay")
    BY <1>3, BeginWrites
  <2>3. /\ Becomes(t, p) /\ settled' \in [Findings -> FindingStatus] /\ calls' \in 0..MaxCalls
        /\ raced' = raced \cup (Writes(p) \cap UNION {Writes(thread[u]) : u \in Threads})
    BY <2>1, ReceiveWrites
  <2>4. Shaped(p)
    BY <1>3, <2>1 DEF Shaped, RunKind, Stretch
  <2>5. calls' = calls + 1
    BY <2>1 DEF Receive
  <2>6. uses' \in [RunIds -> 0..MaxCalls] /\ \A x \in RunIds : uses'[x] <= calls'
    BY <1>0, <2>2, <2>3, <2>5
  <2>7. raced' \subseteq Findings
    <3>1. Writes(p) \subseteq Findings
      <4>1. CASE kind = "analysis"
        BY <1>3, <2>1, <4>1, RunAssumption DEF Writes
      <4>2. CASE kind # "analysis"
        BY <2>1, <4>2 DEF Writes, RunKind
      <4> QED
        BY <4>1, <4>2
    <3> QED
      BY <1>0, <2>3, <3>1
  <2> QED
    BY <1>0, <2>2, <2>3, <2>4, <2>6, <2>7, ShapeMoves DEF ShapeInv, TypeOK
<1>4. ASSUME NEW t \in Threads, NEW f \in Findings, NEW status \in Triages,
             Triage(t, f, status)
      PROVE  ShapeInv'
  <2>1. PICK p \in Thread :
           /\ Receive(t, p) /\ p.pc = "persist" /\ p.kind = "triage" /\ p.run = NoRun
           /\ p.finding = f /\ p.answer = status /\ Pend(p) = TriageRows
    BY <1>4, TriageArrives
  <2>2. mem' \in Book /\ UNCHANGED <<disk, analyses, told, uses, torn, crashes>>
    BY <1>4, TriageWrites
  <2>3. /\ Becomes(t, p) /\ settled' \in [Findings -> FindingStatus] /\ calls' \in 0..MaxCalls
        /\ raced' = raced \cup (Writes(p) \cap UNION {Writes(thread[u]) : u \in Threads})
    BY <2>1, ReceiveWrites
  <2>4. Shaped(p)
    BY <1>4, <2>1 DEF Shaped, RunKind, Stretch, Stores, Collection, TriageRows
  <2>5. calls' = calls + 1
    BY <2>1 DEF Receive
  <2>6. \A x \in RunIds : uses'[x] <= calls'
    BY <1>0, <2>2, <2>5
  <2>7. raced' \subseteq Findings
    BY <1>0, <1>4, <2>1, <2>3 DEF Writes
  <2> QED
    BY <1>0, <2>2, <2>3, <2>4, <2>6, <2>7, ShapeMoves DEF ShapeInv, TypeOK
<1>5. ASSUME NEW t \in Threads, NEW l \in Links, Approve(t, l) PROVE ShapeInv'
  <2>1. PICK p \in Thread :
           /\ Receive(t, p) /\ p.pc = "persist" /\ p.kind = "approve" /\ p.run = NoRun
           /\ p.finding = NoFinding /\ p.answer = "none" /\ Pend(p) = {"queue", "edges"}
    BY <1>5, ApproveWrites
  <2>2. mem' \in Book /\ UNCHANGED <<disk, analyses, told, uses, torn, crashes>>
    BY <1>5, ApproveWrites
  <2>3. /\ Becomes(t, p) /\ settled' \in [Findings -> FindingStatus] /\ calls' \in 0..MaxCalls
        /\ raced' = raced \cup (Writes(p) \cap UNION {Writes(thread[u]) : u \in Threads})
    BY <2>1, ReceiveWrites
  <2>4. Shaped(p)
    BY <2>1 DEF Shaped, RunKind, Stretch, Stores, Collection
  <2>5. calls' = calls + 1
    BY <2>1 DEF Receive
  <2>6. \A x \in RunIds : uses'[x] <= calls'
    BY <1>0, <2>2, <2>5
  <2>7. raced' \subseteq Findings
    BY <1>0, <2>1, <2>3 DEF Writes
  <2> QED
    BY <1>0, <2>2, <2>3, <2>4, <2>6, <2>7, ShapeMoves DEF ShapeInv, TypeOK
<1>6. CASE UNCHANGED vars
  <2>1. /\ UNCHANGED <<mem, disk, analyses, told, settled, uses, raced, torn, calls, crashes>>
        /\ thread' = thread
    BY <1>6 DEF vars
  <2>2. \A t \in Threads : Shaped(thread'[t])
    BY <1>0, <2>1
  <2> QED
    BY <1>0, <2>1, <2>2 DEF ShapeInv, TypeOK
<1> QED
  BY <1>1, <1>2, <1>3, <1>4, <1>5, <1>6 DEF Next, RunKind

-----------------------------------------------------------------------------
(* What a step of one request leaves of the others                           *)

\* A step of thread t.
Acts(t) ==
    \/ Work(t) \/ Break(t)
    \/ \E kind \in RunKind, r \in RunIds, s \in Scenarios \cup {NoScenario} :
          (kind # "ingestion" => s \in Scenarios) /\ Begin(t, kind, r, s)
    \/ \E f \in Findings, status \in Triages : Triage(t, f, status)
    \/ \E l \in Links : Approve(t, l)

LEMMA NextActs == Next => Restart \/ \E t \in Threads : Acts(t)
BY DEF Next, Acts, RunKind

\* What is in the store stays there.
Grows(d, e) ==
    /\ d.events \subseteq e.events /\ d.nodes \subseteq e.nodes /\ d.replays \subseteq e.replays
    /\ \A f \in Findings : d.findings[f] # "none" => e.findings[f] # "none"

\* The rows of other runs.
RowsKept(t) ==
    \A r \in RunIds : r # thread[t].run =>
        /\ mem'.runs[r] = mem.runs[r] /\ mem'.steps[r] = mem.steps[r]
        /\ disk'.runs[r] = disk.runs[r] /\ disk'.steps[r] = disk.steps[r]

LEMMA StoredGrows ==
    ASSUME disk \in Book, mem \in Book, NEW q \in Thread, NEW c \in Collection, Stores(c, q),
           Shaped(q), q.pc = "persist", NEW d, d = Stored(c, q)
    PROVE  /\ Grows(disk, d)
           /\ \A r \in RunIds : r # q.run =>
                 d.runs[r] = disk.runs[r] /\ d.steps[r] = disk.steps[r]
<1>0. Wrote(c, q, d)
  BY StoredFields
<1>1. /\ disk.events \subseteq d.events /\ disk.nodes \subseteq d.nodes
      /\ disk.replays \subseteq d.replays
  BY <1>0 DEF Wrote
<1>2. \A r \in RunIds : r # q.run =>
         d.runs[r] = disk.runs[r] /\ d.steps[r] = disk.steps[r]
  <2>1. /\ d.runs = IF c = "run" THEN [disk.runs EXCEPT ![q.run] = "succeeded"]
                    ELSE IF c = "run now" THEN [disk.runs EXCEPT ![q.run] = mem.runs[q.run]]
                    ELSE disk.runs
        /\ d.steps = IF c = "run" THEN [disk.steps EXCEPT ![q.run] = "succeeded"]
                     ELSE IF c = "run now" THEN [disk.steps EXCEPT ![q.run] = mem.steps[q.run]]
                     ELSE disk.steps
    BY <1>0 DEF Wrote
  <2>2. disk.runs \in [RunIds -> RunStatus] /\ disk.steps \in [RunIds -> StepStatus]
    BY BookFields
  <2> QED
    BY <2>1, <2>2
<1>3. ASSUME NEW f \in Findings, disk.findings[f] # "none" PROVE d.findings[f] # "none"
  <2>1. CASE c = "findings"
    <3>1. d.findings = [g \in Findings |-> IF g \in FindingsOf[q.scenario] THEN "open"
                                           ELSE disk.findings[g]]
      BY <1>0, <2>1 DEF Wrote
    <3> QED
      BY <1>3, <3>1
  <2>2. CASE c = "finding"
    <3>1. d.findings = [disk.findings EXCEPT ![q.finding] = q.answer]
      BY <1>0, <2>2 DEF Wrote
    <3>2. q.answer # "none"
      <4>1. Triages \cap {"none", "open"} = {}
        BY RunAssumption
      <4> QED
        BY <2>2, <4>1 DEF Stores, Shaped
    <3> QED
      BY <1>3, <3>1, <3>2, BookFields
  <2>3. CASE c \notin {"finding", "findings"}
    <3>1. d.findings = disk.findings
      BY <1>0, <2>3 DEF Wrote
    <3> QED
      BY <1>3, <3>1
  <2> QED
    BY <2>1, <2>2, <2>3
<1> QED
  BY <1>1, <1>2, <1>3 DEF Grows

LEMMA ActorKeeps ==
    ASSUME ShapeInv, NEW t \in Threads, Acts(t)
    PROVE  mem.events \subseteq mem'.events /\ Grows(disk, disk') /\ RowsKept(t)
<1>0. mem \in Book /\ disk \in Book /\ thread[t] \in Thread /\ Shaped(thread[t])
  BY DEF ShapeInv, TypeOK
<1>1. mem.runs \in [RunIds -> RunStatus] /\ mem.steps \in [RunIds -> StepStatus]
  BY <1>0, BookFields
<1>2. CASE Create(t)
  BY <1>1, <1>2, CreateWrites DEF Grows, RowsKept, SameRows, SameRest
<1>3. CASE StageNodes(t)
  BY <1>3, StageNodesWrites DEF Grows, RowsKept, SameRows
<1>4. CASE StageApproval(t)
  BY <1>4, StageApprovalWrites DEF Grows, RowsKept, SameRows
<1>5. CASE Complete(t)
  <2>1. /\ mem.events \subseteq mem'.events /\ disk' = disk
        /\ mem'.runs = [mem.runs EXCEPT ![thread[t].run] = "succeeded"]
        /\ mem'.steps = [mem.steps EXCEPT ![thread[t].run] = "succeeded"]
    BY <1>5, CompleteWrites
  <2> QED
    BY <1>1, <2>1 DEF Grows, RowsKept
<1>6. CASE FailStage(t)
  <2>1. /\ mem.events \subseteq mem'.events /\ disk' = disk
        /\ mem'.runs = [mem.runs EXCEPT ![thread[t].run] = "failed"]
    BY <1>6, FailStageWrites
  <2>2. \E left \in {"running", "failed", "succeeded"} :
           mem'.steps = [mem.steps EXCEPT ![thread[t].run] = left]
    BY <1>6, FailStageWrites
  <2> QED
    BY <1>1, <2>1, <2>2 DEF Grows, RowsKept
<1>7. CASE Persist(t)
  <2>1. PICK c \in Collection : Stores(c, thread[t]) /\ disk' = Stored(c, thread[t])
    BY <1>7, PersistWrites
  <2>2. thread[t].pc = "persist" /\ SameRows(mem', mem) /\ mem'.events = mem.events
    BY <1>7, PersistWrites
  <2>3. /\ Grows(disk, disk')
        /\ \A r \in RunIds : r # thread[t].run =>
              disk'.runs[r] = disk.runs[r] /\ disk'.steps[r] = disk.steps[r]
    BY <1>0, <2>1, <2>2, StoredGrows
  <2> QED
    BY <2>2, <2>3 DEF RowsKept, SameRows
<1>8. CASE PersistRaises(t) \/ Break(t) \/ Answer(t)
  BY <1>8 DEF PersistRaises, Break, Answer, Grows, RowsKept
<1>9. CASE \E kind \in RunKind, r \in RunIds, s \in Scenarios \cup {NoScenario} :
              (kind # "ingestion" => s \in Scenarios) /\ Begin(t, kind, r, s)
  <2>1. PICK kind \in RunKind, r \in RunIds, s \in Scenarios \cup {NoScenario} :
           Begin(t, kind, r, s)
    BY <1>9
  <2>2. SameRows(mem', mem) /\ disk' = disk /\ mem.events \subseteq mem'.events
    BY <2>1, BeginWrites
  <2> QED
    BY <2>2 DEF Grows, RowsKept, SameRows
<1>10. CASE \E f \in Findings, status \in Triages : Triage(t, f, status)
  <2>1. SameRows(mem', mem) /\ disk' = disk /\ mem.events \subseteq mem'.events
    BY <1>10, TriageWrites
  <2> QED
    BY <2>1 DEF Grows, RowsKept, SameRows
<1>11. CASE \E l \in Links : Approve(t, l)
  <2>1. SameRows(mem', mem) /\ disk' = disk /\ mem.events \subseteq mem'.events
    BY <1>11, ApproveWrites
  <2> QED
    BY <2>1 DEF Grows, RowsKept, SameRows
<1> QED
  BY <1>2, <1>3, <1>4, <1>5, <1>6, <1>7, <1>8, <1>9, <1>10, <1>11 DEF Acts, Work

\* What a request has recorded stays recorded.
LEMMA RecordedKept ==
    ASSUME NEW q, Shaped(q), NEW m, NEW d, NEW n, NEW e, m.events \subseteq n.events,
           Grows(d, e), Recorded(q, m, d)
    PROVE  Recorded(q, n, e)
<1>1. q.kind = "analysis" => FindingsOf[q.scenario] \subseteq Findings
  BY RunAssumption DEF Shaped
<1>2. q.kind = "analysis" /\ (\A f \in FindingsOf[q.scenario] : d.findings[f] # "none")
         => \A f \in FindingsOf[q.scenario] : e.findings[f] # "none"
  BY <1>1 DEF Grows
<1>3. NodesOf[q.scenario] \subseteq d.nodes => NodesOf[q.scenario] \subseteq e.nodes
  BY DEF Grows
<1>4. \A x : x \in d.events => x \in e.events
  BY DEF Grows
<1>5. \A x : x \in m.events => x \in n.events
  OBVIOUS
<1>6. \A x : x \in d.replays => x \in e.replays
  BY DEF Grows
<1> QED
  BY <1>2, <1>3, <1>4, <1>5, <1>6, Zenon DEF Recorded

-----------------------------------------------------------------------------
(* What runs have left in the store                                          *)

\* A collection stored leaves what is recorded of its request.
LEMMA PersistRecords ==
    ASSUME disk \in Book, mem \in Book, NEW q \in Thread, NEW c \in Collection, Stores(c, q),
           Shaped(q), q.pc = "persist", NEW d, d = Stored(c, q), NEW p \in Thread,
           Moved(q, p, "persist", q.answer), Pend(q) = {c} \cup Pend(p),
           Recorded(q, mem, disk), NEW m, mem.events \subseteq m.events
    PROVE  Recorded(p, m, d)
<1>1. Wrote(c, q, d) /\ Grows(disk, d)
  BY StoredFields, StoredGrows
<1>2. Recorded(q, m, d)
  BY <1>1, RecordedKept
<1>3. /\ p.kind = q.kind /\ p.run = q.run /\ p.scenario = q.scenario
      /\ p.answer = q.answer /\ p.pc = "persist" /\ \A x \in Pend(q) : x = c \/ x \in Pend(p)
  BY DEF Moved
<1>4. q.kind \in RunKind /\ q.answer = "failed" /\ c = "events of run"
         => Event("failed", q.run) \in d.events
  <2>1. q.kind \in RunKind /\ q.answer = "failed" => Event("failed", q.run) \in mem.events
    BY DEF Recorded
  <2>2. Event("failed", q.run).run = q.run
    BY DEF Event
  <2> QED
    BY <1>1, <2>1, <2>2 DEF Wrote
<1>5. q.kind \in RunKind /\ q.answer = "succeeded" /\ c \in {"queue", "completed"}
         => Event("completed", q.run) \in d.events
  <2>1. q.kind \in RunKind /\ q.answer = "succeeded" => Event("completed", q.run) \in mem.events
    BY DEF Recorded
  <2> QED
    BY <1>1, <2>1 DEF Wrote
<1>6. c = "nodes" => NodesOf[q.scenario] \subseteq d.nodes
  BY <1>1 DEF Wrote
<1>7. c = "findings" => \A f \in FindingsOf[q.scenario] : d.findings[f] # "none"
  <2>1. c = "findings" => FindingsOf[q.scenario] \subseteq Findings
    BY RunAssumption DEF Stores, Shaped
  <2>2. c = "findings" => d.findings = [f \in Findings |->
           IF f \in FindingsOf[q.scenario] THEN "open" ELSE disk.findings[f]]
    BY <1>1 DEF Wrote
  <2> QED
    BY <2>1, <2>2
<1>8. c = "replay" => q.run \in d.replays
  BY <1>1 DEF Wrote
<1> QED
  BY <1>2, <1>3, <1>4, <1>5, <1>6, <1>7, <1>8 DEF Recorded

LEMMA ActorRecords ==
    ASSUME ShapeInv, NEW t \in Threads, Acts(t), Recorded(thread[t], mem, disk)
    PROVE  \E p \in Thread : Becomes(t, p) /\ Recorded(p, mem', disk')
<1>0. mem \in Book /\ disk \in Book /\ thread[t] \in Thread /\ Shaped(thread[t])
  BY DEF ShapeInv, TypeOK
<1>1. /\ mem.events \subseteq mem'.events /\ Grows(disk, disk')
  BY ActorKeeps
<1>2. thread[t].kind \in RunKind /\ thread[t].pc # "started" =>
         Event("started", thread[t].run) \in disk'.events
  BY <1>1 DEF Recorded, Grows
<1>3. CASE Create(t)
  <2>1. PICK p \in Thread :
           Becomes(t, p) /\ Moved(thread[t], p, "sources", thread[t].answer)
    BY <1>3, CreateWrites
  <2>2. disk'.events = disk.events \cup {Event("started", thread[t].run)}
    BY <1>3, CreateWrites
  <2> QED
    BY <2>1, <2>2 DEF Recorded, Moved
<1>4. CASE StageNodes(t)
  <2>1. PICK p \in Thread :
           Becomes(t, p) /\ Moved(thread[t], p, "reasoning", thread[t].answer)
    BY <1>4, StageNodesWrites
  <2>2. thread[t].pc = "sources"
    BY <1>4, StageNodesWrites
  <2> QED
    BY <1>2, <2>1, <2>2 DEF Recorded, Moved
<1>5. CASE StageApproval(t)
  <2>1. PICK p \in Thread :
           Becomes(t, p) /\ Moved(thread[t], p, "staging", thread[t].answer)
    BY <1>5, StageApprovalWrites
  <2>2. thread[t].pc = "reasoning"
    BY <1>5, StageApprovalWrites
  <2> QED
    BY <1>2, <2>1, <2>2 DEF Recorded, Moved
<1>6. CASE Complete(t)
  <2>1. PICK p \in Thread : /\ Becomes(t, p) /\ Moved(thread[t], p, "persist", "succeeded")
                            /\ p.todo = Order(thread[t].kind)
    BY <1>6, CompleteWrites
  <2>2. /\ thread[t].kind \in RunKind /\ thread[t].pc # "started"
        /\ Event("completed", thread[t].run) \in mem'.events
    BY <1>6, CompleteWrites
  <2>3. /\ "queue" \in Pend(p) \/ "completed" \in Pend(p)
        /\ p.kind = "analysis" => "nodes" \in Pend(p) /\ "findings" \in Pend(p)
        /\ p.kind = "replay" => "replay" \in Pend(p)
    <3>1. p.todo = Order(p.kind) /\ p.kind \in RunKind
      BY <2>1, <2>2 DEF Moved
    <3>2. p.kind = "ingestion" => Pend(p) = {"run", "queue", "edges"}
      BY <3>1, OrderPend
    <3>3. p.kind = "analysis" => Pend(p) = {"run", "nodes", "findings", "queue", "edges"}
      BY <3>1, OrderPend
    <3>4. p.kind = "replay" => Pend(p) = {"completed", "run", "replay"}
      BY <3>1, OrderPend
    <3> QED
      BY <3>1, <3>2, <3>3, <3>4 DEF RunKind
  <2> QED
    BY <1>2, <2>1, <2>2, <2>3 DEF Recorded, Moved
<1>7. CASE FailStage(t)
  <2>1. PICK p \in Thread : /\ Becomes(t, p) /\ Moved(thread[t], p, "persist", "failed")
                            /\ Pend(p) = {"run now", "events of run"}
    BY <1>7, FailStageWrites
  <2>2. /\ thread[t].kind \in RunKind /\ thread[t].pc # "started"
        /\ Event("failed", thread[t].run) \in mem'.events
    BY <1>7, FailStageWrites
  <2> QED
    BY <1>2, <2>1, <2>2 DEF Recorded, Moved
<1>8. CASE Persist(t)
  <2>1. PICK c \in Collection, p \in Thread :
           /\ Stores(c, thread[t]) /\ Pend(thread[t]) = {c} \cup Pend(p)
           /\ Becomes(t, p) /\ Moved(thread[t], p, "persist", thread[t].answer)
           /\ disk' = Stored(c, thread[t])
    BY <1>8, PersistWrites
  <2>2. thread[t].pc = "persist"
    BY <1>8, PersistWrites
  <2>3. Recorded(p, mem', disk')
    BY <1>0, <1>1, <2>1, <2>2, PersistRecords
  <2> QED
    BY <2>1, <2>3
<1>9. CASE PersistRaises(t) \/ Break(t) \/ Answer(t)
  <2>1. Becomes(t, Idle)
    BY <1>9 DEF PersistRaises, Break, Answer, Becomes
  <2>2. Recorded(Idle, mem', disk')
    BY IdleThread DEF Recorded, RunKind
  <2> QED
    BY <2>1, <2>2, IdleThread
<1>10. CASE \E kind \in RunKind, r \in RunIds, s \in Scenarios \cup {NoScenario} :
               (kind # "ingestion" => s \in Scenarios) /\ Begin(t, kind, r, s)
  <2>1. PICK kind \in RunKind, r \in RunIds, s \in Scenarios \cup {NoScenario} :
           Begin(t, kind, r, s)
    BY <1>10
  <2>2. PICK p \in Thread : Receive(t, p) /\ p.pc = "started"
    BY <2>1, BeginWrites
  <2>3. Becomes(t, p)
    BY <2>2, ReceiveWrites
  <2> QED
    BY <2>2, <2>3 DEF Recorded
<1>11. CASE \E f \in Findings, status \in Triages : Triage(t, f, status)
  <2>1. PICK p \in Thread : Receive(t, p) /\ p.kind = "triage"
    BY <1>11, TriageArrives
  <2>2. Becomes(t, p)
    BY <2>1, ReceiveWrites
  <2> QED
    BY <2>1, <2>2 DEF Recorded, RunKind
<1>12. CASE \E l \in Links : Approve(t, l)
  <2>1. PICK p \in Thread : Receive(t, p) /\ p.kind = "approve"
    BY <1>12, ApproveWrites
  <2>2. Becomes(t, p)
    BY <2>1, ReceiveWrites
  <2> QED
    BY <2>1, <2>2 DEF Recorded, RunKind
<1> QED
  BY <1>3, <1>4, <1>5, <1>6, <1>7, <1>8, <1>9, <1>10, <1>11, <1>12 DEF Acts, Work

LEMMA RecordedStep ==
    ASSUME ShapeInv, \A u \in Threads : Recorded(thread[u], mem, disk),
           Restart \/ \E t \in Threads : Acts(t)
    PROVE  \A u \in Threads : Recorded(thread'[u], mem', disk')
<1>1. CASE Restart
  <2>1. \A u \in Threads : thread'[u] = Idle
    BY <1>1 DEF Restart
  <2> QED
    BY <2>1, IdleThread DEF Recorded, RunKind
<1>2. ASSUME NEW t \in Threads, Acts(t), NEW u \in Threads
      PROVE  Recorded(thread'[u], mem', disk')
  <2>1. PICK p \in Thread : Becomes(t, p) /\ Recorded(p, mem', disk')
    BY <1>2, ActorRecords
  <2>2. thread'[u] = IF u = t THEN p ELSE thread[u]
    BY <2>1 DEF Becomes, ShapeInv, TypeOK
  <2>3. Shaped(thread[u])
    BY DEF ShapeInv
  <2>4. Recorded(thread[u], mem', disk')
    BY <1>2, <2>3, ActorKeeps, RecordedKept
  <2> QED
    BY <2>1, <2>2, <2>4
<1> QED
  BY <1>1, <1>2

\* A run that a client may be told of is the run of one request.
Comes(t, p) ==
    /\ thread[t] = Idle /\ p.pc = "started" /\ p.answer = "none"
    /\ \E r \in RunIds : p.run = r /\ uses' = [uses EXCEPT ![r] = uses[r] + 1]
    /\ told' = told /\ disk' = disk /\ SameRows(mem', mem)

Goes(t, p) ==
    /\ p.run = thread[t].run \/ p.run = NoRun
    /\ uses' = uses /\ (told' = told \/ Answer(t))
    /\ p.run \in RunIds /\ OwnRows(thread[t], mem, disk) => OwnRows(p, mem', disk')

LEMMA PersistOwns ==
    ASSUME disk \in Book, mem \in Book, NEW q \in Thread, NEW c \in Collection, Stores(c, q),
           Shaped(q), q.pc = "persist", NEW d, d = Stored(c, q), NEW p \in Thread,
           Moved(q, p, "persist", q.answer), Pend(q) = {c} \cup Pend(p),
           OwnRows(q, mem, disk), NEW m, SameRows(m, mem)
    PROVE  OwnRows(p, m, d)
<1> SUFFICES ASSUME q.kind \in RunKind PROVE OwnRows(p, m, d)
  BY DEF OwnRows, Moved
<1> DEFINE r == q.run
<1>1. r \in RunIds /\ disk.runs \in [RunIds -> RunStatus] /\ disk.steps \in [RunIds -> StepStatus]
  BY BookFields DEF Shaped
<1>2. /\ p.kind = q.kind /\ p.run = r /\ p.answer = q.answer /\ p.pc = "persist"
      /\ \A x \in Pend(q) : x = c \/ x \in Pend(p)
      /\ m.runs = mem.runs /\ m.steps = mem.steps
  BY DEF Moved, SameRows
<1>3. /\ d.runs = IF c = "run" THEN [disk.runs EXCEPT ![r] = "succeeded"]
                  ELSE IF c = "run now" THEN [disk.runs EXCEPT ![r] = mem.runs[r]]
                  ELSE disk.runs
      /\ d.steps = IF c = "run" THEN [disk.steps EXCEPT ![r] = "succeeded"]
                   ELSE IF c = "run now" THEN [disk.steps EXCEPT ![r] = mem.steps[r]]
                   ELSE disk.steps
  <2>1. Wrote(c, q, d)
    BY StoredFields
  <2> QED
    BY <2>1 DEF Wrote
<1> HIDE DEF r
<1>4. CASE q.answer = "failed"
  <2>1. c # "run"
    BY <1>4 DEF Stores
  <2>2. /\ mem.runs[r] = "failed" /\ mem.steps[r] # "none"
        /\ "run now" \in Pend(q) \/ (disk.runs[r] = "failed" /\ disk.steps[r] # "none")
    BY <1>4 DEF OwnRows, r
  <2>3. c = "run now" \/ (d.runs = disk.runs /\ d.steps = disk.steps)
    BY <2>1, <1>3
  <2>4. c = "run now" => d.runs[r] = "failed" /\ d.steps[r] # "none"
    BY <1>1, <1>3, <2>2
  <2> QED
    BY <1>2, <1>4, <2>2, <2>3, <2>4 DEF OwnRows
<1>5. CASE q.answer = "succeeded"
  <2>1. c # "run now"
    BY <1>5 DEF Stores
  <2>2. "run" \in Pend(q) \/ (disk.runs[r] = "succeeded" /\ disk.steps[r] = "succeeded")
    BY <1>5 DEF OwnRows, r
  <2>3. c = "run" \/ (d.runs = disk.runs /\ d.steps = disk.steps)
    BY <2>1, <1>3
  <2>4. c = "run" => d.runs[r] = "succeeded" /\ d.steps[r] = "succeeded"
    BY <1>1, <1>3
  <2> QED
    BY <1>2, <1>5, <2>2, <2>3, <2>4 DEF OwnRows
<1> QED
  BY <1>2, <1>4, <1>5 DEF OwnRows

LEMMA ActorRuns ==
    ASSUME ShapeInv, NEW t \in Threads, Acts(t)
    PROVE  \E p \in Thread : Becomes(t, p) /\ (Comes(t, p) \/ Goes(t, p))
<1>0. /\ mem \in Book /\ disk \in Book /\ thread[t] \in Thread /\ Shaped(thread[t])
      /\ NoRun \notin RunIds
  BY RunAssumption DEF ShapeInv, TypeOK
<1>1. mem.runs \in [RunIds -> RunStatus] /\ mem.steps \in [RunIds -> StepStatus]
  BY <1>0, BookFields
<1>3. CASE Create(t)
  <2>1. PICK p \in Thread :
           Becomes(t, p) /\ Moved(thread[t], p, "sources", thread[t].answer)
    BY <1>3, CreateWrites
  <2>2. uses' = uses /\ told' = told
    BY <1>3, CreateWrites
  <2> QED
    BY <2>1, <2>2 DEF Goes, OwnRows, Moved
<1>4. CASE StageNodes(t)
  <2>1. PICK p \in Thread :
           Becomes(t, p) /\ Moved(thread[t], p, "reasoning", thread[t].answer)
    BY <1>4, StageNodesWrites
  <2>2. uses' = uses /\ told' = told
    BY <1>4, StageNodesWrites
  <2> QED
    BY <2>1, <2>2 DEF Goes, OwnRows, Moved
<1>5. CASE StageApproval(t)
  <2>1. PICK p \in Thread :
           Becomes(t, p) /\ Moved(thread[t], p, "staging", thread[t].answer)
    BY <1>5, StageApprovalWrites
  <2>2. uses' = uses /\ told' = told
    BY <1>5, StageApprovalWrites
  <2> QED
    BY <2>1, <2>2 DEF Goes, OwnRows, Moved
<1>6. CASE Complete(t)
  <2>1. PICK p \in Thread : /\ Becomes(t, p) /\ Moved(thread[t], p, "persist", "succeeded")
                            /\ p.todo = Order(thread[t].kind)
    BY <1>6, CompleteWrites
  <2>2. uses' = uses /\ told' = told /\ thread[t].kind \in RunKind
    BY <1>6, CompleteWrites
  <2>3. "run" \in Pend(p)
    <3>1. p.todo = Order(p.kind) /\ p.kind \in RunKind
      BY <2>1, <2>2 DEF Moved
    <3>2. p.kind = "ingestion" => Pend(p) = {"run", "queue", "edges"}
      BY <3>1, OrderPend
    <3>3. p.kind = "analysis" => Pend(p) = {"run", "nodes", "findings", "queue", "edges"}
      BY <3>1, OrderPend
    <3>4. p.kind = "replay" => Pend(p) = {"completed", "run", "replay"}
      BY <3>1, OrderPend
    <3> QED
      BY <3>1, <3>2, <3>3, <3>4 DEF RunKind
  <2> QED
    BY <2>1, <2>2, <2>3 DEF Goes, OwnRows, Moved
<1>7. CASE FailStage(t)
  <2>1. PICK p \in Thread : /\ Becomes(t, p) /\ Moved(thread[t], p, "persist", "failed")
                            /\ Pend(p) = {"run now", "events of run"}
    BY <1>7, FailStageWrites
  <2>2. /\ uses' = uses /\ told' = told /\ thread[t].run \in RunIds
        /\ mem'.runs = [mem.runs EXCEPT ![thread[t].run] = "failed"]
    BY <1>7, FailStageWrites
  <2>3. PICK left \in {"running", "failed", "succeeded"} :
           mem'.steps = [mem.steps EXCEPT ![thread[t].run] = left]
    BY <1>7, FailStageWrites
  <2>4. mem'.runs[thread[t].run] = "failed" /\ mem'.steps[thread[t].run] # "none"
    BY <1>1, <2>2, <2>3
  <2> QED
    BY <2>1, <2>2, <2>4 DEF Goes, OwnRows, Moved
<1>8. CASE Persist(t)
  <2>1. PICK c \in Collection, p \in Thread :
           /\ Stores(c, thread[t]) /\ Pend(thread[t]) = {c} \cup Pend(p)
           /\ Becomes(t, p) /\ Moved(thread[t], p, "persist", thread[t].answer)
           /\ disk' = Stored(c, thread[t])
    BY <1>8, PersistWrites
  <2>2. thread[t].pc = "persist" /\ uses' = uses /\ told' = told /\ SameRows(mem', mem)
    BY <1>8, PersistWrites
  <2>3. OwnRows(thread[t], mem, disk) => OwnRows(p, mem', disk')
    BY <1>0, <2>1, <2>2, PersistOwns
  <2> QED
    BY <2>1, <2>2, <2>3 DEF Goes, Moved
<1>9. CASE PersistRaises(t) \/ Break(t) \/ Answer(t)
  <2>1. Becomes(t, Idle) /\ uses' = uses /\ (told' = told \/ Answer(t))
    BY <1>9 DEF PersistRaises, Break, Answer, Becomes
  <2> QED
    BY <1>0, <2>1, IdleThread DEF Goes
<1>10. CASE \E kind \in RunKind, r \in RunIds, s \in Scenarios \cup {NoScenario} :
               (kind # "ingestion" => s \in Scenarios) /\ Begin(t, kind, r, s)
  <2>1. PICK kind \in RunKind, r \in RunIds, s \in Scenarios \cup {NoScenario} :
           Begin(t, kind, r, s)
    BY <1>10
  <2>2. PICK p \in Thread : Receive(t, p) /\ p.pc = "started" /\ p.run = r /\ p.answer = "none"
    BY <2>1, BeginWrites
  <2>3. Becomes(t, p) /\ thread[t] = Idle
    BY <2>2, ReceiveWrites
  <2>4. /\ uses' = [uses EXCEPT ![r] = uses[r] + 1] /\ SameRows(mem', mem)
        /\ disk' = disk /\ told' = told
    BY <2>1, BeginWrites
  <2> QED
    BY <2>2, <2>3, <2>4 DEF Comes
<1>11. CASE \E f \in Findings, status \in Triages : Triage(t, f, status)
  <2>1. PICK p \in Thread : Receive(t, p) /\ p.run = NoRun
    BY <1>11, TriageArrives
  <2>2. Becomes(t, p)
    BY <2>1, ReceiveWrites
  <2>3. uses' = uses /\ told' = told
    BY <1>11, TriageWrites
  <2> QED
    BY <1>0, <2>1, <2>2, <2>3 DEF Goes
<1>12. CASE \E l \in Links : Approve(t, l)
  <2>1. PICK p \in Thread : Receive(t, p) /\ p.run = NoRun
    BY <1>12, ApproveWrites
  <2>2. Becomes(t, p)
    BY <2>1, ReceiveWrites
  <2>3. uses' = uses /\ told' = told
    BY <1>12, ApproveWrites
  <2> QED
    BY <1>0, <2>1, <2>2, <2>3 DEF Goes
<1> QED
  BY <1>3, <1>4, <1>5, <1>6, <1>7, <1>8, <1>9, <1>10, <1>11, <1>12 DEF Acts, Work

LEMMA OthersOwn ==
    ASSUME NEW t \in Threads, RowsKept(t), NEW q, q.run \in RunIds, q.run # thread[t].run,
           OwnRows(q, mem, disk)
    PROVE  OwnRows(q, mem', disk')
BY DEF RowsKept, OwnRows

LEMMA OneRequestStep ==
    ASSUME ShapeInv, OneRequest, Restart \/ \E t \in Threads : Acts(t)
    PROVE  OneRequest'
<1>0. /\ NoRun \notin RunIds /\ Idle.run = NoRun /\ \A r \in RunIds : uses[r] \in Nat
      /\ uses \in [RunIds -> 0..MaxCalls] /\ thread \in [Threads -> Thread]
  BY RunAssumption, IdleThread DEF ShapeInv, TypeOK
<1>1. CASE Restart
  <2>1. /\ \A t \in Threads : thread'[t].run = NoRun
        /\ told' = told /\ uses' = uses
    BY <1>0, <1>1 DEF Restart
  <2> QED
    BY <1>0, <2>1 DEF OneRequest, Once
<1>2. ASSUME NEW t \in Threads, Acts(t) PROVE OneRequest'
  <2>1. PICK p \in Thread : Becomes(t, p) /\ (Comes(t, p) \/ Goes(t, p))
    BY <1>2, ActorRuns
  <2>2. \A u \in Threads : thread'[u] = IF u = t THEN p ELSE thread[u]
    BY <1>0, <2>1 DEF Becomes
  <2>3. RowsKept(t)
    BY <1>2, ActorKeeps
  <2>4. CASE Comes(t, p)
    <3>1. PICK x \in RunIds : p.run = x /\ uses' = [uses EXCEPT ![x] = uses[x] + 1]
      BY <2>4 DEF Comes
    <3>2. thread[t].run = NoRun /\ told' = told /\ p.pc = "started"
      BY <1>0, <2>4 DEF Comes
    <3>3. OwnRows(p, mem', disk')
      BY <3>2 DEF OwnRows
    <3> SUFFICES ASSUME NEW r \in RunIds
                 PROVE  /\ uses'[r] = 0 =>
                             told'[r].answer = "none" /\ \A u \in Threads : thread'[u].run # r
                        /\ uses'[r] <= 1 => \A u \in Threads : thread'[u].run = r =>
                              /\ told'[r].answer = "none" /\ OwnRows(thread'[u], mem', disk')
                              /\ \A v \in Threads : thread'[v].run = r => v = u
      BY DEF OneRequest, Once
    <3>4. CASE r = x
      <4>1. uses'[r] = uses[r] + 1
        BY <1>0, <3>1, <3>4
      <4>2. uses'[r] # 0 /\ (uses'[r] <= 1 => uses[r] = 0)
        BY <1>0, <4>1
      <4>3. uses[r] = 0 => told[r].answer = "none" /\ \A u \in Threads : thread[u].run # r
        BY DEF OneRequest
      <4> QED
        BY <2>2, <3>2, <3>3, <4>2, <4>3
    <3>5. CASE r # x
      <4>1. uses'[r] = uses[r]
        BY <1>0, <3>1, <3>5
      <4>2. \A u \in Threads : thread'[u].run = r => u # t /\ thread'[u] = thread[u]
        BY <2>2, <3>1, <3>5
      <4>3. \A u \in Threads : thread[u].run = r /\ OwnRows(thread[u], mem, disk)
               => OwnRows(thread[u], mem', disk')
        BY <1>0, <2>3, <3>2, OthersOwn
      <4> QED
        BY <3>2, <4>1, <4>2, <4>3 DEF OneRequest, Once
    <3> QED
      BY <3>4, <3>5
  <2>5. CASE Goes(t, p)
    <3> SUFFICES ASSUME NEW r \in RunIds
                 PROVE  /\ uses'[r] = 0 =>
                             told'[r].answer = "none" /\ \A u \in Threads : thread'[u].run # r
                        /\ uses'[r] <= 1 => \A u \in Threads : thread'[u].run = r =>
                              /\ told'[r].answer = "none" /\ OwnRows(thread'[u], mem', disk')
                              /\ \A v \in Threads : thread'[v].run = r => v = u
      BY DEF OneRequest, Once
    <3>1. uses'[r] = uses[r]
      BY <2>5 DEF Goes
    <3>2. \A u \in Threads : thread'[u].run = r => thread[u].run = r
      BY <1>0, <2>2, <2>5 DEF Goes
    <3>3. told'[r] = told[r] \/ (thread[t].run = r /\ p.run # r)
      <4>1. CASE told' = told
        BY <4>1
      <4>2. CASE Answer(t)
        <5>1. told'[r] = IF r = thread[t].run THEN thread[t] ELSE told[r]
          BY <4>2 DEF Answer
        <5>2. p = Idle
          <6>1. thread'[t] = Idle
            BY <1>0, <4>2 DEF Answer
          <6> QED
            BY <2>2, <6>1
        <5> QED
          BY <1>0, <5>1, <5>2
      <4> QED
        BY <2>5, <4>1, <4>2 DEF Goes
    <3>4. uses[r] = 0 => told'[r].answer = "none" /\ \A u \in Threads : thread'[u].run # r
      BY <3>2, <3>3 DEF OneRequest
    <3>5. ASSUME uses[r] <= 1, NEW u \in Threads, thread'[u].run = r
          PROVE  /\ told'[r].answer = "none" /\ OwnRows(thread'[u], mem', disk')
                 /\ \A v \in Threads : thread'[v].run = r => v = u
      <4>1. thread[u].run = r
        BY <3>2, <3>5
      <4>2. /\ told[r].answer = "none" /\ OwnRows(thread[u], mem, disk)
            /\ \A v \in Threads : thread[v].run = r => v = u
        BY <3>5, <4>1 DEF OneRequest, Once
      <4>3. told'[r] = told[r]
        <5>1. thread[t].run = r => t = u
          BY <4>2
        <5>2. p.run # r => t # u
          BY <2>2, <3>5
        <5> QED
          BY <3>3, <5>1, <5>2
      <4>4. OwnRows(thread'[u], mem', disk')
        <5>1. CASE u = t
          BY <2>2, <2>5, <3>5, <4>2, <5>1 DEF Goes
        <5>2. CASE u # t
          <6>1. thread[t].run # r
            BY <4>2, <5>2
          <6> QED
            BY <2>2, <2>3, <4>1, <4>2, <5>2, <6>1, OthersOwn
        <5> QED
          BY <5>1, <5>2
      <4> QED
        BY <3>2, <4>2, <4>3, <4>4
    <3> QED
      BY <3>1, <3>4, <3>5
  <2> QED
    BY <2>1, <2>4, <2>5
<1> QED
  BY <1>1, <1>2

\* What a client was told of run r holds of store d.
ToldHolds(q, r, d) ==
    /\ d.runs[r] = q.answer /\ d.steps[r] # "none"
    /\ Event("started", r) \in d.events
    /\ q.answer = "failed" => Event("failed", r) \in d.events
    /\ q.answer = "succeeded" =>
          /\ d.steps[r] = "succeeded" /\ Event("completed", r) \in d.events
          /\ q.kind = "analysis" =>
                /\ NodesOf[q.scenario] \subseteq d.nodes
                /\ \A f \in FindingsOf[q.scenario] : d.findings[f] # "none"
          /\ q.kind = "replay" => r \in d.replays

LEMMA ToldKept ==
    ASSUME NEW q, Shaped(q), NEW r \in RunIds, NEW d, NEW e, Grows(d, e),
           e.runs[r] = d.runs[r], e.steps[r] = d.steps[r], ToldHolds(q, r, d)
    PROVE  ToldHolds(q, r, e)
<1>1. q.kind = "analysis" => FindingsOf[q.scenario] \subseteq Findings
  BY RunAssumption DEF Shaped
<1>2. q.kind = "analysis" /\ (\A f \in FindingsOf[q.scenario] : d.findings[f] # "none")
         => \A f \in FindingsOf[q.scenario] : e.findings[f] # "none"
  BY <1>1 DEF Grows
<1>3. NodesOf[q.scenario] \subseteq d.nodes => NodesOf[q.scenario] \subseteq e.nodes
  BY DEF Grows
<1>4. /\ \A x : x \in d.events => x \in e.events
      /\ \A x : x \in d.replays => x \in e.replays
  BY DEF Grows
<1> QED
  BY <1>2, <1>3, <1>4, Zenon DEF ToldHolds

\* A client that is told of a run used once finds it in the store.
LEMMA AnswerHolds ==
    ASSUME NEW q, q.kind \in RunKind, q.pc = "persist", q.answer \in {"succeeded", "failed"},
           Pend(q) = {}, Recorded(q, mem, disk), OwnRows(q, mem, disk)
    PROVE  ToldHolds(q, q.run, disk)
BY DEF ToldHolds, Recorded, OwnRows

\* A run is told of by the answer to its own request alone.
LEMMA ToldStep ==
    ASSUME ShapeInv, OneRequest, ToldShaped, ToldRunStored,
           \A u \in Threads : Recorded(thread[u], mem, disk),
           Restart \/ \E t \in Threads : Acts(t)
    PROVE  ToldShaped' /\ ToldRunStored'
<1>0. /\ NoRun \notin RunIds /\ \A r \in RunIds : uses[r] \in Nat
      /\ uses \in [RunIds -> 0..MaxCalls] /\ thread \in [Threads -> Thread]
  BY RunAssumption DEF ShapeInv, TypeOK
<1>1. \A r \in RunIds : told[r].answer # "none" /\ Once(r) => ToldHolds(told[r], r, disk)
  BY DEF ToldRunStored, ToldHolds
<1>2. CASE Restart
  <2>1. told' = told /\ uses' = uses /\ disk' = disk
    BY <1>2 DEF Restart
  <2> QED
    BY <2>1 DEF ToldShaped, ToldRunStored, Once
<1>3. ASSUME NEW t \in Threads, Acts(t) PROVE ToldShaped' /\ ToldRunStored'
  <2> SUFFICES ASSUME NEW r \in RunIds, told'[r].answer # "none"
               PROVE  /\ told'[r].kind \in RunKind /\ Shaped(told'[r])
                      /\ uses'[r] <= 1 => ToldHolds(told'[r], r, disk')
    BY DEF ToldShaped, ToldRunStored, Once, ToldHolds
  <2>1. PICK p \in Thread : Becomes(t, p) /\ (Comes(t, p) \/ Goes(t, p))
    BY <1>3, ActorRuns
  <2>2. RowsKept(t) /\ Grows(disk, disk')
    BY <1>3, ActorKeeps
  <2>3. uses'[r] <= 1 => uses[r] <= 1
    <3>1. CASE Comes(t, p)
      BY <1>0, <3>1 DEF Comes
    <3>2. CASE Goes(t, p)
      BY <3>2 DEF Goes
    <3> QED
      BY <2>1, <3>1, <3>2
  <2>4. CASE told'[r] = told[r]
    <3>1. told[r].kind \in RunKind /\ Shaped(told[r])
      BY <2>4 DEF ToldShaped
    <3>2. ASSUME uses'[r] <= 1 PROVE ToldHolds(told[r], r, disk')
      <4>1. Once(r) /\ ToldHolds(told[r], r, disk)
        BY <1>1, <2>3, <2>4, <3>2 DEF Once
      <4>2. thread[t].run # r
        BY <2>4, <4>1 DEF OneRequest
      <4>3. disk'.runs[r] = disk.runs[r] /\ disk'.steps[r] = disk.steps[r]
        BY <2>2, <4>2 DEF RowsKept
      <4> QED
        BY <2>2, <3>1, <4>1, <4>3, ToldKept
    <3> QED
      BY <2>4, <3>1, <3>2
  <2>5. CASE told'[r] # told[r]
    <3>1. Answer(t)
      BY <2>1, <2>5 DEF Comes, Goes
    <3>2. /\ thread[t].pc = "persist" /\ thread[t].todo = <<>> /\ disk' = disk /\ uses' = uses
          /\ told'[r] = IF r = thread[t].run THEN thread[t] ELSE told[r]
      BY <3>1 DEF Answer, At
    <3>3. r = thread[t].run /\ told'[r] = thread[t]
      BY <2>5, <3>2
    <3>4. /\ Shaped(thread[t]) /\ thread[t].kind \in RunKind
          /\ thread[t].answer \in {"succeeded", "failed"}
      <4>1. Shaped(thread[t])
        BY DEF ShapeInv
      <4>2. thread[t].kind \in RunKind
        BY <1>0, <3>3, <4>1 DEF Shaped
      <4> QED
        BY <3>2, <4>1, <4>2 DEF Shaped
    <3>5. Pend(thread[t]) = {}
      BY <3>2 DEF Pend
    <3>6. uses'[r] <= 1 => OwnRows(thread[t], mem, disk)
      BY <3>2, <3>3 DEF OneRequest, Once
    <3>7. uses'[r] <= 1 => ToldHolds(thread[t], r, disk)
      BY <3>2, <3>3, <3>4, <3>5, <3>6, AnswerHolds
    <3> QED
      BY <3>2, <3>3, <3>4, <3>7
  <2> QED
    BY <2>4, <2>5
<1> QED
  BY <1>2, <1>3

LEMMA StoredEndedStep ==
    ASSUME ShapeInv, OneRequest, StoredRunEnded,
           \A u \in Threads : Recorded(thread[u], mem, disk),
           Restart \/ \E t \in Threads : Acts(t)
    PROVE  StoredRunEnded'
<1>0. /\ mem \in Book /\ disk \in Book
      /\ uses \in [RunIds -> 0..MaxCalls] /\ thread \in [Threads -> Thread]
  BY DEF ShapeInv, TypeOK
<1>2. CASE Restart
  <2>1. uses' = uses /\ disk' = disk
    BY <1>2 DEF Restart
  <2> QED
    BY <2>1 DEF StoredRunEnded, Once
<1>3. ASSUME NEW t \in Threads, Acts(t) PROVE StoredRunEnded'
  <2> SUFFICES ASSUME NEW r \in RunIds, disk'.runs[r] # "none"
               PROVE  /\ Event("started", r) \in disk'.events
                      /\ uses'[r] <= 1 => disk'.runs[r] \in {"succeeded", "failed"}
    BY DEF StoredRunEnded, Once
  <2>1. PICK p \in Thread : Becomes(t, p) /\ (Comes(t, p) \/ Goes(t, p))
    BY <1>3, ActorRuns
  <2>2. RowsKept(t) /\ Grows(disk, disk')
    BY <1>3, ActorKeeps
  <2>3. uses'[r] <= 1 => uses[r] <= 1
    <3>1. CASE Comes(t, p)
      BY <1>0, <3>1 DEF Comes
    <3>2. CASE Goes(t, p)
      BY <3>2 DEF Goes
    <3> QED
      BY <2>1, <3>1, <3>2
  <2>4. CASE disk'.runs[r] = disk.runs[r]
    BY <2>2, <2>3, <2>4 DEF StoredRunEnded, Once, Grows
  <2>5. CASE disk'.runs[r] # disk.runs[r]
    <3>1. r = thread[t].run
      BY <2>2, <2>5 DEF RowsKept
    <3>2. Persist(t)
      <4>1. CASE Create(t)
        BY <2>5, <4>1, CreateWrites DEF SameRows
      <4>2. CASE StageNodes(t) \/ StageApproval(t) \/ Complete(t) \/ FailStage(t)
                 \/ PersistRaises(t) \/ Answer(t) \/ Break(t)
        BY <2>5, <4>2 DEF StageNodes, StageApproval, Complete, FailStage, PersistRaises,
              Answer, Break
      <4>3. CASE \E kind \in RunKind, x \in RunIds, s \in Scenarios \cup {NoScenario} :
                    Begin(t, kind, x, s)
        BY <2>5, <4>3 DEF Begin
      <4>4. CASE \E f \in Findings, status \in Triages : Triage(t, f, status)
        BY <2>5, <4>4 DEF Triage
      <4>5. CASE \E l \in Links : Approve(t, l)
        BY <2>5, <4>5 DEF Approve
      <4> QED
        BY <1>3, <4>1, <4>2, <4>3, <4>4, <4>5 DEF Acts, Work
    <3>3. PICK c \in Collection : Stores(c, thread[t]) /\ disk' = Stored(c, thread[t])
      BY <3>2, PersistWrites
    <3>4. thread[t].pc = "persist" /\ Shaped(thread[t]) /\ thread[t] \in Thread
      BY <1>0, <3>2, PersistWrites DEF ShapeInv
    <3>5. Wrote(c, thread[t], disk')
      BY <1>0, <3>3, <3>4, StoredFields
    <3>6. disk'.runs = IF c = "run" THEN [disk.runs EXCEPT ![r] = "succeeded"]
                       ELSE IF c = "run now" THEN [disk.runs EXCEPT ![r] = mem.runs[r]]
                       ELSE disk.runs
      BY <3>1, <3>5 DEF Wrote
    <3>7. c \in {"run", "run now"} /\ thread[t].kind \in RunKind
      BY <2>5, <3>3, <3>6 DEF Stores
    <3>8. Event("started", r) \in disk'.events
      BY <2>2, <3>1, <3>4, <3>7 DEF Recorded, Grows
    <3>9. disk.runs \in [RunIds -> RunStatus]
      BY <1>0, BookFields
    <3>10. uses'[r] <= 1 /\ c = "run now" => mem.runs[r] = "failed"
      BY <2>3, <3>1, <3>3, <3>4, <3>7 DEF OneRequest, Once, OwnRows, Stores
    <3> QED
      BY <3>6, <3>7, <3>8, <3>9, <3>10
  <2> QED
    BY <2>4, <2>5
<1> QED
  BY <1>2, <1>3

\* The request of a running run moves from stretch to stretch until it ends the run.
LEMMA RunningStep ==
    ASSUME ShapeInv, StoredRunEnded, RunningIsRun, Restart \/ \E t \in Threads : Acts(t)
    PROVE  RunningIsRun'
<1>0. /\ mem \in Book /\ disk \in Book
      /\ uses \in [RunIds -> 0..MaxCalls] /\ thread \in [Threads -> Thread]
  BY DEF ShapeInv, TypeOK
<1>1. mem.runs \in [RunIds -> RunStatus]
  BY <1>0, BookFields
<1>2. CASE Restart
  <2>1. uses' = uses /\ mem' = disk
    BY <1>2 DEF Restart
  <2>2. \A r \in RunIds : disk.runs[r] = "running" => ~Once(r)
    BY DEF StoredRunEnded
  <2> QED
    BY <2>1, <2>2 DEF RunningIsRun, Once
<1>3. ASSUME NEW t \in Threads, Acts(t) PROVE RunningIsRun'
  <2> SUFFICES ASSUME NEW r \in RunIds, mem'.runs[r] = "running", uses'[r] <= 1
               PROVE  \E u \in Threads : thread'[u].pc \in Stretch /\ thread'[u].run = r
    BY DEF RunningIsRun, Once
  <2>1. PICK p \in Thread : Becomes(t, p) /\ (Comes(t, p) \/ Goes(t, p))
    BY <1>3, ActorRuns
  <2>2. \A u \in Threads : thread'[u] = IF u = t THEN p ELSE thread[u]
    BY <1>0, <2>1 DEF Becomes
  <2>3. uses[r] <= 1
    <3>1. CASE Comes(t, p)
      BY <1>0, <3>1 DEF Comes
    <3>2. CASE Goes(t, p)
      BY <3>2 DEF Goes
    <3> QED
      BY <2>1, <3>1, <3>2
  <2>4. mem.runs[r] = "running" =>
           \E u \in Threads : thread[u].pc \in Stretch /\ thread[u].run = r
    BY <2>3 DEF RunningIsRun, Once
  <2>5. ASSUME thread[t].pc \notin Stretch, mem'.runs[r] = mem.runs[r]
        PROVE  \E u \in Threads : thread'[u].pc \in Stretch /\ thread'[u].run = r
    BY <2>2, <2>4, <2>5
  <2>6. CASE Create(t)
    <3>1. /\ thread[t].pc = "started"
          /\ mem'.runs = [mem.runs EXCEPT ![thread[t].run] = "running"]
      BY <2>6, CreateWrites
    <3>2. PICK q \in Thread :
             Becomes(t, q) /\ Moved(thread[t], q, "sources", thread[t].answer)
      BY <2>6, CreateWrites
    <3>3. thread'[t] = q
      BY <1>0, <3>2 DEF Becomes
    <3>4. CASE r = thread[t].run
      BY <3>2, <3>3, <3>4 DEF Moved, Stretch
    <3>5. CASE r # thread[t].run
      BY <1>1, <2>5, <3>1, <3>5 DEF Stretch
    <3> QED
      BY <3>4, <3>5
  <2>7. CASE StageNodes(t) \/ StageApproval(t)
    <3>1. mem'.runs = mem.runs
      BY <2>7, StageNodesWrites, StageApprovalWrites DEF SameRows
    <3>2. PICK q \in Thread, place \in Stretch :
             Becomes(t, q) /\ Moved(thread[t], q, place, thread[t].answer)
      BY <2>7, StageNodesWrites, StageApprovalWrites DEF Stretch
    <3>3. thread'[t] = q
      BY <1>0, <3>2 DEF Becomes
    <3>4. PICK u \in Threads : thread[u].pc \in Stretch /\ thread[u].run = r
      BY <2>4, <3>1
    <3> QED
      BY <2>2, <3>2, <3>3, <3>4 DEF Moved
  <2>8. CASE Complete(t) \/ FailStage(t)
    <3>1. PICK s \in {"succeeded", "failed"} :
             mem'.runs = [mem.runs EXCEPT ![thread[t].run] = s]
      BY <2>8, CompleteWrites, FailStageWrites
    <3>2. r # thread[t].run /\ mem.runs[r] = "running"
      BY <1>1, <3>1
    <3> QED
      BY <2>2, <2>4, <3>2
  <2>9. CASE Persist(t)
    BY <2>5, <2>9, PersistWrites DEF SameRows, Stretch
  <2>10. CASE PersistRaises(t) \/ Break(t) \/ Answer(t)
    <3>1. thread[t].pc \in {"started", "persist"} /\ mem' = mem
      BY <2>10 DEF PersistRaises, Break, Answer, At
    <3> QED
      BY <2>5, <3>1 DEF Stretch
  <2>11. ASSUME NEW q, Receive(t, q), SameRows(mem', mem)
         PROVE  \E u \in Threads : thread'[u].pc \in Stretch /\ thread'[u].run = r
    BY <2>5, <2>11 DEF Receive, At, Stretch, SameRows
  <2>12. CASE \E kind \in RunKind, x \in RunIds, s \in Scenarios \cup {NoScenario} :
                 (kind # "ingestion" => s \in Scenarios) /\ Begin(t, kind, x, s)
    <3>1. PICK kind \in RunKind, x \in RunIds, s \in Scenarios \cup {NoScenario} :
             Begin(t, kind, x, s)
      BY <2>12
    <3>2. SameRows(mem', mem) /\ \E q : Receive(t, q)
      BY <3>1, BeginWrites
    <3> QED
      BY <2>11, <3>2
  <2>13. CASE \E f \in Findings, status \in Triages : Triage(t, f, status)
    <3>1. SameRows(mem', mem)
      BY <2>13, TriageWrites
    <3>2. \E q : Receive(t, q)
      BY <2>13 DEF Triage
    <3> QED
      BY <2>11, <3>1, <3>2
  <2>14. CASE \E l \in Links : Approve(t, l)
    <3>1. SameRows(mem', mem)
      BY <2>14, ApproveWrites
    <3>2. \E q : Receive(t, q)
      BY <2>14 DEF Approve
    <3> QED
      BY <2>11, <3>1, <3>2
  <2> QED
    BY <1>3, <2>6, <2>7, <2>8, <2>9, <2>10, <2>12, <2>13, <2>14 DEF Acts, Work
<1> QED
  BY <1>2, <1>3

LEMMA RunInit == Init => RunInv
<1> SUFFICES ASSUME Init PROVE RunInv
  OBVIOUS
<1>1. \A t \in Threads : Recorded(thread[t], mem, disk)
  BY IdleThread DEF Init, Recorded, RunKind
<1>2. NoRun \notin RunIds
  BY RunAssumption
<1>3. /\ \A t \in Threads : thread[t].run = NoRun
      /\ \A r \in RunIds : told[r].answer = "none"
  BY IdleThread DEF Init
<1>4. OneRequest
  BY <1>2, <1>3 DEF OneRequest
<1>5. \A r \in RunIds : disk.runs[r] = "none" /\ mem.runs[r] = "none"
  BY DEF Init, Empty
<1> QED
  BY <1>1, <1>3, <1>4, <1>5 DEF RunInv, ToldShaped, ToldRunStored, StoredRunEnded, RunningIsRun

LEMMA RunStep == ShapeInv /\ RunInv /\ [Next]_vars => RunInv'
<1> SUFFICES ASSUME ShapeInv, RunInv, [Next]_vars PROVE RunInv'
  OBVIOUS
<1>1. /\ \A t \in Threads : Recorded(thread[t], mem, disk)
      /\ OneRequest /\ ToldShaped /\ ToldRunStored /\ StoredRunEnded /\ RunningIsRun
  BY DEF RunInv
<1>2. CASE Next
  <2>1. Restart \/ \E t \in Threads : Acts(t)
    BY <1>2, NextActs
  <2>2. \A t \in Threads : Recorded(thread'[t], mem', disk')
    BY <1>1, <2>1, RecordedStep
  <2>3. OneRequest'
    BY <1>1, <2>1, OneRequestStep
  <2>4. ToldShaped' /\ ToldRunStored'
    BY <1>1, <2>1, ToldStep
  <2>5. StoredRunEnded'
    BY <1>1, <2>1, StoredEndedStep
  <2>6. RunningIsRun'
    BY <1>1, <2>1, RunningStep
  <2> QED
    BY <2>2, <2>3, <2>4, <2>5, <2>6 DEF RunInv
<1>3. CASE UNCHANGED vars
  <2>1. mem' = mem /\ disk' = disk /\ thread' = thread /\ told' = told /\ uses' = uses
    BY <1>3 DEF vars
  <2> QED
    BY <1>1, <2>1 DEF RunInv, OneRequest, ToldShaped, ToldRunStored, StoredRunEnded,
          RunningIsRun, Once
<1> QED
  BY <1>2, <1>3

\* Requests, registries, the store and what clients were told have their types.
THEOREM TypeCorrect == Spec => []TypeOK
<1>1. ShapeInv => TypeOK
  BY DEF ShapeInv
<1> QED
  BY <1>1, ShapeInit, ShapeStep, PTL DEF Spec

\* A client that was told how a run ended finds it so in the store: the debug views and a
\* restarted process agree with the answer.
THEOREM ToldCorrect == Spec => []ToldRunStored
<1>1. RunInv => ToldRunStored
  BY DEF RunInv
<1> QED
  BY <1>1, ShapeInit, ShapeStep, RunInit, RunStep, PTL DEF Spec

\* The store never says of a run that it is running, so a restart leaves none to wait for.
THEOREM EndedCorrect == Spec => []StoredRunEnded
<1>1. RunInv => StoredRunEnded
  BY DEF RunInv
<1> QED
  BY <1>1, ShapeInit, ShapeStep, RunInit, RunStep, PTL DEF Spec

\* A run that memory shows as running has a request that runs it.
THEOREM RunningCorrect == Spec => []RunningIsRun
<1>1. RunInv => RunningIsRun
  BY DEF RunInv
<1> QED
  BY <1>1, ShapeInit, ShapeStep, RunInit, RunStep, PTL DEF Spec

-----------------------------------------------------------------------------
(* What requests that do not overlap leave of a finding                      *)

LEMMA WritesMoved ==
    ASSUME NEW q \in Thread, NEW p \in Thread, NEW place, NEW a, Moved(q, p, place, a),
           q.pc # "idle", place # "idle"
    PROVE  Writes(p) = Writes(q)
BY DEF Moved, Writes

LEMMA WritesIdle == Writes(Idle) = {}
BY IdleThread DEF Writes

\* A request that goes on, one that arrives, and one that is answered.
Continues(t, p) ==
    /\ Writes(p) \subseteq Writes(thread[t]) /\ settled' = settled /\ raced' = raced
    /\ \A f \in Findings : f \notin Writes(thread[t]) =>
          mem'.findings[f] = mem.findings[f] /\ disk'.findings[f] = disk.findings[f]
    /\ \A f \in Writes(p) :
          OwnTriage(f, thread[t], mem, disk) => OwnTriage(f, p, mem', disk')

Arrives(t, p) ==
    /\ thread[t] = Idle /\ disk' = disk
    /\ raced' = raced \cup (Writes(p) \cap UNION {Writes(thread[u]) : u \in Threads})
    /\ settled' = [f \in Findings |-> IF f \in Writes(p) THEN "none" ELSE settled[f]]
    /\ \A f \in Findings : f \notin Writes(p) => mem'.findings[f] = mem.findings[f]
    /\ \A f \in Writes(p) : OwnTriage(f, p, mem', disk')

\* What a collection stored changes of findings.
LEMMA PersistFindings ==
    ASSUME disk \in Book, mem \in Book, NEW q \in Thread, NEW c \in Collection, Stores(c, q),
           Shaped(q), q.pc = "persist", NEW d, d = Stored(c, q), NEW p \in Thread,
           Moved(q, p, "persist", q.answer), Pend(q) = {c} \cup Pend(p),
           NEW m, m.findings = mem.findings
    PROVE  /\ \A f \in Findings : f \notin Writes(q) => d.findings[f] = disk.findings[f]
           /\ \A f \in Writes(q) : OwnTriage(f, q, mem, disk) => OwnTriage(f, p, m, d)
<1>1. Wrote(c, q, d)
  BY StoredFields
<1>2. /\ d.findings = IF c = "findings"
                      THEN [f \in Findings |-> IF f \in FindingsOf[q.scenario] THEN "open"
                                               ELSE disk.findings[f]]
                      ELSE IF c = "finding"
                      THEN [disk.findings EXCEPT ![q.finding] = q.answer]
                      ELSE disk.findings
      /\ disk.findings \in [Findings -> FindingStatus]
  BY <1>1, BookFields DEF Wrote
<1>3. /\ p.kind = q.kind /\ p.answer = q.answer
      /\ \A x \in Pend(q) : x = c \/ x \in Pend(p)
  BY DEF Moved
<1>4. CASE c = "findings"
  <2>1. q.kind = "analysis" /\ Writes(q) = FindingsOf[q.scenario]
    BY <1>4 DEF Stores, Writes
  <2> QED
    BY <1>2, <1>3, <1>4, <2>1 DEF OwnTriage
<1>5. CASE c = "finding"
  <2>1. q.kind = "triage" /\ Writes(q) = {q.finding} /\ q.finding \in Findings
    BY <1>5 DEF Stores, Writes, Shaped
  <2>2. d.findings = [disk.findings EXCEPT ![q.finding] = q.answer]
    BY <1>2, <1>5
  <2> QED
    BY <1>2, <1>3, <2>1, <2>2 DEF OwnTriage
<1>6. CASE c \notin {"findings", "finding"}
  <2>1. d.findings = disk.findings
    BY <1>2, <1>6
  <2> QED
    BY <1>3, <1>6, <2>1 DEF OwnTriage
<1> QED
  BY <1>4, <1>5, <1>6

LEMMA ActorWrites ==
    ASSUME ShapeInv, NEW t \in Threads, Acts(t), ~Answer(t)
    PROVE  \E p \in Thread : Becomes(t, p) /\ (Continues(t, p) \/ Arrives(t, p))
<1>0. mem \in Book /\ disk \in Book /\ thread[t] \in Thread /\ Shaped(thread[t])
  BY DEF ShapeInv, TypeOK
<1>1. mem.findings \in [Findings -> FindingStatus]
  BY <1>0, BookFields
<1>2. ASSUME NEW p \in Thread, NEW place \in Stretch \cup {"persist"}, NEW a,
             Moved(thread[t], p, place, a), thread[t].pc # "idle"
      PROVE  Writes(p) = Writes(thread[t])
  BY <1>0, <1>2, WritesMoved DEF Stretch
<1>3. CASE Create(t)
  <2>1. PICK p \in Thread :
           Becomes(t, p) /\ Moved(thread[t], p, "sources", thread[t].answer)
    BY <1>3, CreateWrites
  <2>2. /\ settled' = settled /\ raced' = raced /\ SameRest(mem', mem) /\ SameRest(disk', disk)
        /\ thread[t].pc = "started" /\ thread[t].kind \in RunKind
    BY <1>3, CreateWrites
  <2>3. Writes(p) = Writes(thread[t])
    BY <1>2, <2>1, <2>2 DEF Stretch
  <2> QED
    BY <2>1, <2>2, <2>3 DEF Continues, SameRest, OwnTriage, Moved, RunKind
<1>4. CASE StageNodes(t)
  <2>1. PICK p \in Thread :
           Becomes(t, p) /\ Moved(thread[t], p, "reasoning", thread[t].answer)
    BY <1>4, StageNodesWrites
  <2>2. /\ settled' = settled /\ raced' = raced /\ mem'.findings = mem.findings /\ disk' = disk
        /\ thread[t].pc = "sources" /\ thread[t].kind \in {"analysis", "replay"}
    BY <1>4, StageNodesWrites
  <2>3. Writes(p) = Writes(thread[t])
    BY <1>2, <2>1, <2>2 DEF Stretch
  <2> QED
    BY <2>1, <2>2, <2>3 DEF Continues, OwnTriage, Moved
<1>5. CASE StageApproval(t)
  <2>1. PICK p \in Thread :
           Becomes(t, p) /\ Moved(thread[t], p, "staging", thread[t].answer)
    BY <1>5, StageApprovalWrites
  <2>2. /\ settled' = settled /\ raced' = raced /\ SameRest(mem', mem) /\ disk' = disk
        /\ thread[t].pc = "reasoning" /\ thread[t].kind \in {"analysis", "replay"}
    BY <1>5, StageApprovalWrites
  <2>3. Writes(p) = Writes(thread[t])
    BY <1>2, <2>1, <2>2 DEF Stretch
  <2> QED
    BY <2>1, <2>2, <2>3 DEF Continues, SameRest, OwnTriage, Moved
<1>6. CASE Complete(t)
  <2>1. PICK p \in Thread : Becomes(t, p) /\ Moved(thread[t], p, "persist", "succeeded")
    BY <1>6, CompleteWrites
  <2>2. /\ settled' = settled /\ raced' = raced /\ disk' = disk
        /\ thread[t].pc # "idle" /\ thread[t].kind \in RunKind
    BY <1>6, CompleteWrites
  <2>3. Writes(p) = Writes(thread[t])
    BY <1>2, <2>1, <2>2
  <2>4. \A f \in Findings : f \notin Writes(thread[t]) => mem'.findings[f] = mem.findings[f]
    <3>1. CASE thread[t].kind = "analysis"
      <4>1. Writes(thread[t]) = FindingsOf[thread[t].scenario]
        BY <2>2, <3>1 DEF Writes
      <4>2. mem'.findings = [f \in Findings |->
               IF f \in FindingsOf[thread[t].scenario] THEN "open" ELSE mem.findings[f]]
        BY <1>6, <3>1, CompleteWrites
      <4> QED
        BY <4>1, <4>2
    <3>2. CASE thread[t].kind # "analysis"
      BY <1>6, <3>2, CompleteWrites
    <3> QED
      BY <3>1, <3>2
  <2> QED
    BY <2>1, <2>2, <2>3, <2>4 DEF Continues, OwnTriage, Moved, RunKind
<1>7. CASE FailStage(t)
  <2>1. PICK p \in Thread : Becomes(t, p) /\ Moved(thread[t], p, "persist", "failed")
    BY <1>7, FailStageWrites
  <2>2. /\ settled' = settled /\ raced' = raced /\ disk' = disk /\ SameRest(mem', mem)
        /\ thread[t].pc # "idle" /\ thread[t].kind \in RunKind
    BY <1>7, FailStageWrites
  <2>3. Writes(p) = Writes(thread[t])
    BY <1>2, <2>1, <2>2
  <2> QED
    BY <2>1, <2>2, <2>3 DEF Continues, SameRest, OwnTriage, Moved, RunKind
<1>8. CASE Persist(t)
  <2>1. PICK c \in Collection, p \in Thread :
           /\ Stores(c, thread[t]) /\ Pend(thread[t]) = {c} \cup Pend(p)
           /\ Becomes(t, p) /\ Moved(thread[t], p, "persist", thread[t].answer)
           /\ disk' = Stored(c, thread[t])
    BY <1>8, PersistWrites
  <2>2. /\ thread[t].pc = "persist" /\ settled' = settled /\ raced' = raced
        /\ mem'.findings = mem.findings
    BY <1>8, PersistWrites
  <2>3. Writes(p) = Writes(thread[t])
    BY <1>2, <2>1, <2>2
  <2>4. /\ \A f \in Findings : f \notin Writes(thread[t]) =>
              disk'.findings[f] = disk.findings[f]
        /\ \A f \in Writes(thread[t]) :
              OwnTriage(f, thread[t], mem, disk) => OwnTriage(f, p, mem', disk')
    BY <1>0, <2>1, <2>2, PersistFindings
  <2> QED
    BY <2>1, <2>2, <2>3, <2>4 DEF Continues
<1>9. CASE PersistRaises(t) \/ Break(t)
  <2>1. /\ Becomes(t, Idle) /\ mem' = mem /\ disk' = disk /\ settled' = settled
        /\ raced' = raced
    BY <1>9 DEF PersistRaises, Break, Becomes
  <2> QED
    BY <2>1, IdleThread, WritesIdle DEF Continues
<1>10. CASE \E kind \in RunKind, r \in RunIds, s \in Scenarios \cup {NoScenario} :
               (kind # "ingestion" => s \in Scenarios) /\ Begin(t, kind, r, s)
  <2>1. PICK kind \in RunKind, r \in RunIds, s \in Scenarios \cup {NoScenario} :
           Begin(t, kind, r, s)
    BY <1>10
  <2>2. PICK p \in Thread : Receive(t, p) /\ p.kind = kind
    BY <2>1, BeginWrites
  <2>3. /\ thread[t] = Idle /\ Becomes(t, p)
        /\ raced' = raced \cup (Writes(p) \cap UNION {Writes(thread[u]) : u \in Threads})
        /\ settled' = [f \in Findings |-> IF f \in Writes(p) THEN "none" ELSE settled[f]]
    BY <2>2, ReceiveWrites
  <2>4. disk' = disk /\ mem'.findings = mem.findings
    BY <2>1, BeginWrites DEF SameRest
  <2> QED
    BY <2>2, <2>3, <2>4 DEF Arrives, OwnTriage, RunKind
<1>11. CASE \E f \in Findings, status \in Triages : Triage(t, f, status)
  <2>1. PICK f \in Findings, status \in Triages : Triage(t, f, status)
    BY <1>11
  <2>2. PICK p \in Thread : /\ Receive(t, p) /\ p.pc = "persist" /\ p.kind = "triage"
                            /\ p.finding = f /\ p.answer = status /\ Pend(p) = TriageRows
    BY <2>1, TriageArrives
  <2>3. /\ thread[t] = Idle /\ Becomes(t, p)
        /\ raced' = raced \cup (Writes(p) \cap UNION {Writes(thread[u]) : u \in Threads})
        /\ settled' = [g \in Findings |-> IF g \in Writes(p) THEN "none" ELSE settled[g]]
    BY <2>2, ReceiveWrites
  <2>4. disk' = disk /\ mem'.findings = [mem.findings EXCEPT ![f] = status]
    BY <2>1, TriageWrites
  <2>5. Writes(p) = {f}
    BY <2>2 DEF Writes
  <2>6. \A g \in Findings : g \notin Writes(p) => mem'.findings[g] = mem.findings[g]
    BY <1>1, <2>4, <2>5
  <2>7. \A g \in Writes(p) : OwnTriage(g, p, mem', disk')
    BY <1>1, <2>2, <2>4, <2>5 DEF OwnTriage, TriageRows
  <2> QED
    BY <2>3, <2>4, <2>6, <2>7 DEF Arrives
<1>12. CASE \E l \in Links : Approve(t, l)
  <2>1. PICK p \in Thread : Receive(t, p) /\ p.kind = "approve"
    BY <1>12, ApproveWrites
  <2>2. /\ thread[t] = Idle /\ Becomes(t, p)
        /\ raced' = raced \cup (Writes(p) \cap UNION {Writes(thread[u]) : u \in Threads})
        /\ settled' = [f \in Findings |-> IF f \in Writes(p) THEN "none" ELSE settled[f]]
    BY <2>1, ReceiveWrites
  <2>3. disk' = disk /\ mem'.findings = mem.findings
    BY <1>12, ApproveWrites DEF SameRest
  <2> QED
    BY <2>1, <2>2, <2>3 DEF Arrives, OwnTriage
<1> QED
  BY <1>3, <1>4, <1>5, <1>6, <1>7, <1>8, <1>9, <1>10, <1>11, <1>12 DEF Acts, Work

LEMMA TriageStep == ShapeInv /\ TriageInv /\ [Next]_vars => TriageInv'
<1> SUFFICES ASSUME ShapeInv, TriageInv, [Next]_vars PROVE TriageInv'
  OBVIOUS
<1>0. /\ thread \in [Threads -> Thread] /\ settled \in [Findings -> FindingStatus]
      /\ NoFinding \notin Findings
  BY RunAssumption DEF ShapeInv, TypeOK
<1>1. CASE Restart
  <2>1. /\ \A t \in Threads : Writes(thread'[t]) = {}
        /\ mem' = disk /\ disk' = disk /\ settled' = settled /\ raced' = raced
    BY <1>1, WritesIdle DEF Restart
  <2> QED
    BY <2>1 DEF TriageInv, TriageStands, OneWriter
<1>2. ASSUME NEW t \in Threads, Acts(t) PROVE TriageInv'
  <2> SUFFICES ASSUME NEW f \in Findings, f \notin raced'
               PROVE  /\ settled'[f] # "none" =>
                            mem'.findings[f] = settled'[f] /\ disk'.findings[f] = settled'[f]
                      /\ \A u \in Threads : f \in Writes(thread'[u]) =>
                            /\ settled'[f] = "none" /\ OwnTriage(f, thread'[u], mem', disk')
                            /\ \A v \in Threads : f \in Writes(thread'[v]) => v = u
    BY DEF TriageInv, TriageStands, OneWriter
  <2>1. CASE Answer(t)
    <3>1. /\ thread' = [thread EXCEPT ![t] = Idle] /\ mem' = mem /\ disk' = disk
          /\ raced' = raced /\ thread[t].pc = "persist" /\ thread[t].todo = <<>>
          /\ settled'[f] = IF f = thread[t].finding THEN thread[t].answer ELSE settled[f]
      BY <2>1 DEF Answer, At
    <3>2. \A u \in Threads : f \in Writes(thread'[u]) => u # t /\ f \in Writes(thread[u])
      BY <1>0, <3>1, WritesIdle
    <3>3. CASE f = thread[t].finding
      <4>1. thread[t].kind = "triage"
        BY <1>0, <3>1, <3>3 DEF ShapeInv, Shaped, Thread
      <4>2. f \in Writes(thread[t]) /\ Pend(thread[t]) = {}
        BY <3>1, <3>3, <4>1 DEF Writes, Pend
      <4>3. mem.findings[f] = thread[t].answer /\ disk.findings[f] = thread[t].answer
        BY <3>1, <4>1, <4>2 DEF TriageInv, OneWriter, OwnTriage
      <4>4. \A u \in Threads : f \notin Writes(thread'[u])
        BY <3>1, <3>2, <4>2 DEF TriageInv, OneWriter
      <4> QED
        BY <3>1, <3>3, <4>3, <4>4
    <3>4. CASE f # thread[t].finding
      <4>1. \A u \in Threads : u # t => thread'[u] = thread[u]
        BY <1>0, <3>1
      <4> QED
        BY <3>1, <3>2, <3>4, <4>1 DEF TriageInv, TriageStands, OneWriter
    <3> QED
      BY <3>3, <3>4
  <2>2. CASE ~Answer(t)
    <3>1. PICK p \in Thread : Becomes(t, p) /\ (Continues(t, p) \/ Arrives(t, p))
      BY <1>2, <2>2, ActorWrites
    <3>2. \A u \in Threads : thread'[u] = IF u = t THEN p ELSE thread[u]
      BY <1>0, <3>1 DEF Becomes
    <3>3. CASE Continues(t, p)
      <4>1. /\ Writes(p) \subseteq Writes(thread[t]) /\ settled' = settled /\ f \notin raced
            /\ f \notin Writes(thread[t]) =>
                  mem'.findings[f] = mem.findings[f] /\ disk'.findings[f] = disk.findings[f]
            /\ f \in Writes(p) /\ OwnTriage(f, thread[t], mem, disk)
                  => OwnTriage(f, p, mem', disk')
        BY <3>3 DEF Continues
      <4>2. \A u \in Threads : f \in Writes(thread'[u]) => f \in Writes(thread[u])
        BY <3>2, <4>1
      <4>3. settled[f] # "none" =>
               /\ \A u \in Threads : f \notin Writes(thread[u])
               /\ mem.findings[f] = settled[f] /\ disk.findings[f] = settled[f]
        BY <4>1 DEF TriageInv, TriageStands, OneWriter
      <4>4. ASSUME NEW u \in Threads, f \in Writes(thread'[u])
            PROVE  /\ settled[f] = "none" /\ OwnTriage(f, thread'[u], mem', disk')
                   /\ \A v \in Threads : f \in Writes(thread'[v]) => v = u
        <5>1. /\ settled[f] = "none" /\ OwnTriage(f, thread[u], mem, disk)
              /\ \A v \in Threads : f \in Writes(thread[v]) => v = u
          BY <4>1, <4>2, <4>4 DEF TriageInv, OneWriter
        <5>2. CASE u = t
          BY <3>2, <4>1, <4>2, <4>4, <5>1, <5>2
        <5>3. CASE u # t
          <6>1. f \notin Writes(thread[t])
            BY <5>1, <5>3
          <6>2. OwnTriage(f, thread[u], mem', disk')
            BY <4>1, <5>1, <6>1 DEF OwnTriage
          <6> QED
            BY <3>2, <4>2, <5>1, <5>3, <6>2
        <5> QED
          BY <5>2, <5>3
      <4> QED
        BY <4>1, <4>3, <4>4
    <3>4. CASE Arrives(t, p)
      <4>1. /\ thread[t] = Idle /\ disk' = disk /\ f \notin raced
            /\ f \in Writes(p) => \A u \in Threads : f \notin Writes(thread[u])
            /\ settled'[f] = IF f \in Writes(p) THEN "none" ELSE settled[f]
            /\ f \notin Writes(p) => mem'.findings[f] = mem.findings[f]
            /\ f \in Writes(p) => OwnTriage(f, p, mem', disk')
        BY <3>4 DEF Arrives
      <4>2. CASE f \in Writes(p)
        BY <3>2, <4>1, <4>2
      <4>3. CASE f \notin Writes(p)
        <5>1. \A u \in Threads : f \in Writes(thread'[u]) =>
                 f \in Writes(thread[u]) /\ thread'[u] = thread[u]
          BY <3>2, <4>3
        <5>2. \A q : OwnTriage(f, q, mem, disk) => OwnTriage(f, q, mem', disk')
          BY <4>1, <4>3 DEF OwnTriage
        <5> QED
          BY <4>1, <4>3, <5>1, <5>2 DEF TriageInv, TriageStands, OneWriter
      <4> QED
        BY <4>2, <4>3
    <3> QED
      BY <3>1, <3>3, <3>4
  <2> QED
    BY <2>1, <2>2
<1>3. CASE UNCHANGED vars
  <2>1. mem' = mem /\ disk' = disk /\ thread' = thread /\ settled' = settled /\ raced' = raced
    BY <1>3 DEF vars
  <2> QED
    BY <2>1 DEF TriageInv, TriageStands, OneWriter
<1> QED
  BY <1>1, <1>2, <1>3, NextActs

LEMMA TriageInit == Init => TriageInv
<1> SUFFICES ASSUME Init PROVE TriageInv
  OBVIOUS
<1>1. \A f \in Findings : settled[f] = "none"
  BY DEF Init, Empty
<1>2. \A t \in Threads : Writes(thread[t]) = {}
  BY WritesIdle DEF Init
<1> QED
  BY <1>1, <1>2 DEF TriageInv, TriageStands, OneWriter

\* A reviewer's triage stands until the finding is triaged or analysed again, if requests
\* did not overlap on it.
THEOREM TriageCorrect == Spec => []TriageStands
<1>1. TriageInv => TriageStands
  BY DEF TriageInv
<1> QED
  BY <1>1, ShapeInit, ShapeStep, TriageInit, TriageStep, PTL DEF Spec

-----------------------------------------------------------------------------
(* Where the source nodes of the links are                                   *)

\* A step of thread t that makes its request p loses no source node.
LEMMA RootedKept ==
    ASSUME ShapeInv, Rooted, NEW t \in Threads, NEW p, Becomes(t, p),
           Linked(mem', disk') \subseteq Linked(mem, disk), torn => torn',
           mem.nodes \subseteq mem'.nodes, disk.nodes \subseteq disk'.nodes,
           ~torn' => \A n : Carries(thread[t], n) => Carries(p, n) \/ n \in disk'.nodes
    PROVE  Rooted'
<1> SUFFICES ASSUME ~torn', NEW l \in Linked(mem', disk')
             PROVE  /\ Source[l] \in mem'.nodes
                    /\ \/ Source[l] \in disk'.nodes
                       \/ \E u \in Threads : Carries(thread'[u], Source[l])
  BY DEF Rooted
<1>1. thread' = [thread EXCEPT ![t] = p] /\ thread \in [Threads -> Thread]
  BY DEF Becomes, ShapeInv, TypeOK
<1>2. /\ Source[l] \in mem.nodes
      /\ Source[l] \in disk.nodes \/ \E u \in Threads : Carries(thread[u], Source[l])
  BY DEF Rooted
<1>3. ASSUME NEW u \in Threads, Carries(thread[u], Source[l])
      PROVE  Source[l] \in disk'.nodes \/ Carries(thread'[u], Source[l])
  <2>1. CASE u = t
    BY <1>1, <1>3, <2>1
  <2>2. CASE u # t
    BY <1>1, <1>3, <2>2
  <2> QED
    BY <2>1, <2>2
<1> QED
  BY <1>2, <1>3

\* A request of thread t that is dropped when its nodes are stored leaves them there.
LEMMA CarriedSaved ==
    ASSUME NEW t \in Threads, ~Unsaved(t), NEW n, Carries(thread[t], n)
    PROVE  n \in disk.nodes
BY DEF Unsaved, Carries, Stretch

LEMMA SameLinked ==
    ASSUME NEW m, NEW d, NEW n, NEW e, SameLinks(n, m), SameLinks(e, d)
    PROVE  Linked(n, e) = Linked(m, d)
BY DEF SameLinks, Linked

LEMMA NotCarried ==
    ASSUME NEW q, q.kind # "analysis" \/ q.pc \in {"idle", "started", "sources", "reasoning"}
    PROVE  \A n : ~Carries(q, n)
BY DEF Carries

\* Steps of a thread.
LEMMA RootedStep ==
    ASSUME ShapeInv, RunInv, LinkInv, NEW t \in Threads, Acts(t)
    PROVE  Rooted' /\ \A u \in Threads : Staged(thread[u])'
<1>0. /\ mem \in Book /\ disk \in Book /\ thread[t] \in Thread /\ Shaped(thread[t])
      /\ thread \in [Threads -> Thread] /\ Rooted /\ \A u \in Threads : Staged(thread[u])
      /\ torn \in BOOLEAN
  BY DEF ShapeInv, TypeOK, LinkInv
<1>1. ASSUME NEW p, Becomes(t, p), torn => torn', mem.nodes \subseteq mem'.nodes,
             p.kind = "replay" => torn',
             p.kind = "analysis" /\ p.pc = "reasoning" => NodesOf[p.scenario] \subseteq mem'.nodes
      PROVE  \A u \in Threads : Staged(thread[u])'
  BY <1>0, <1>1 DEF Becomes, Staged
<1>2. SameLinks(mem, mem) /\ SameLinks(disk, disk)
  BY DEF SameLinks
<1>3. CASE Create(t)
  <2>1. PICK p \in Thread :
           Becomes(t, p) /\ Moved(thread[t], p, "sources", thread[t].answer)
    BY <1>3, CreateWrites
  <2>2. /\ SameLinks(mem', mem) /\ SameLinks(disk', disk) /\ mem'.nodes = mem.nodes
        /\ disk'.nodes = disk.nodes /\ torn' = torn /\ thread[t].pc = "started"
    BY <1>3, CreateWrites DEF SameRest
  <2>3. Rooted'
    BY <1>0, <2>1, <2>2, SameLinked, NotCarried, RootedKept
  <2> QED
    BY <1>0, <1>1, <2>1, <2>2, <2>3 DEF Moved, Staged
<1>4. CASE StageNodes(t)
  <2>1. PICK p \in Thread :
           Becomes(t, p) /\ Moved(thread[t], p, "reasoning", thread[t].answer)
    BY <1>4, StageNodesWrites
  <2>2. /\ SameLinks(mem', mem) /\ disk' = disk
        /\ mem'.nodes = mem.nodes \cup NodesOf[thread[t].scenario]
        /\ torn' = torn /\ thread[t].pc = "sources"
    BY <1>4, StageNodesWrites
  <2>3. Rooted'
    BY <1>0, <1>2, <2>1, <2>2, SameLinked, NotCarried, RootedKept
  <2> QED
    BY <1>0, <1>1, <2>1, <2>2, <2>3 DEF Moved, Staged
<1>5. CASE StageApproval(t)
  <2> DEFINE q == thread[t]
  <2>1. PICK p \in Thread : Becomes(t, p) /\ Moved(q, p, "staging", q.answer)
    BY <1>5, StageApprovalWrites
  <2>2. /\ SameRest(mem', mem) /\ disk' = disk /\ torn' = torn /\ q.pc = "reasoning"
        /\ q.kind \in {"analysis", "replay"} /\ q.scenario \in Scenarios
        /\ mem'.edges = mem.edges
    BY <1>5, StageApprovalWrites
  <2>3. mem'.items = [l \in Links |-> IF l \in LinksOf[q.scenario] THEN "pending"
                                      ELSE mem.items[l]]
    BY <1>5, StageApprovalWrites
  <2>4. Rooted'
    <3> SUFFICES ASSUME ~torn', NEW l \in Linked(mem', disk')
                 PROVE  /\ Source[l] \in mem'.nodes
                        /\ \/ Source[l] \in disk'.nodes
                           \/ \E u \in Threads : Carries(thread'[u], Source[l])
      BY DEF Rooted
    <3>1. thread'[t] = p /\ \A u \in Threads : u # t => thread'[u] = thread[u]
      BY <1>0, <2>1 DEF Becomes
    <3>2. q.kind = "analysis" /\ NodesOf[q.scenario] \subseteq mem.nodes
      BY <1>0, <2>2 DEF Staged
    <3>3. CASE l \in LinksOf[q.scenario]
      <4>1. Source[l] \in NodesOf[q.scenario]
        BY <2>2, <3>3, RunAssumption
      <4>2. Carries(p, Source[l])
        BY <2>1, <3>2, <4>1 DEF Carries, Moved
      <4>3. mem'.nodes = mem.nodes
        BY <2>2 DEF SameRest
      <4> QED
        BY <3>1, <3>2, <4>1, <4>2, <4>3
    <3>4. CASE l \notin LinksOf[q.scenario]
      <4>1. l \in Linked(mem, disk)
        BY <2>2, <2>3, <3>4 DEF Linked
      <4>2. /\ Source[l] \in mem.nodes
            /\ Source[l] \in disk.nodes \/ \E u \in Threads : Carries(thread[u], Source[l])
        BY <1>0, <2>2, <4>1 DEF Rooted
      <4>3. ~Carries(thread[t], Source[l])
        BY <2>2, NotCarried
      <4>4. \A u \in Threads : Carries(thread[u], Source[l]) => Carries(thread'[u], Source[l])
        BY <3>1, <4>3
      <4> QED
        BY <2>2, <4>2, <4>4 DEF SameRest
    <3> QED
      BY <3>3, <3>4
  <2> QED
    BY <1>0, <1>1, <2>1, <2>2, <2>4 DEF Moved, Staged, SameRest
<1>6. CASE Complete(t)
  <2>1. PICK p \in Thread : Becomes(t, p) /\ Moved(thread[t], p, "persist", "succeeded")
    BY <1>6, CompleteWrites
  <2>2. /\ SameLinks(mem', mem) /\ disk' = disk /\ mem'.nodes = mem.nodes /\ torn' = torn
    BY <1>6, CompleteWrites
  <2>3. \A n : Carries(thread[t], n) => Carries(p, n)
    BY <2>1 DEF Carries, Moved
  <2>4. Rooted'
    BY <1>0, <1>2, <2>1, <2>2, <2>3, SameLinked, RootedKept
  <2> QED
    BY <1>0, <1>1, <2>1, <2>2, <2>4 DEF Moved, Staged
<1>7. CASE FailStage(t)
  <2>1. PICK p \in Thread : Becomes(t, p) /\ Moved(thread[t], p, "persist", "failed")
    BY <1>7, FailStageWrites
  <2>2. /\ SameLinks(mem', mem) /\ disk' = disk /\ mem'.nodes = mem.nodes /\ torn' = torn
        /\ thread[t].pc \in {"sources", "reasoning"}
    BY <1>7, FailStageWrites DEF SameRest
  <2>3. Rooted'
    BY <1>0, <1>2, <2>1, <2>2, SameLinked, NotCarried, RootedKept
  <2> QED
    BY <1>0, <1>1, <2>1, <2>2, <2>3 DEF Moved, Staged
<1>8. CASE Persist(t)
  <2>1. PICK c \in Collection, p \in Thread :
           /\ Stores(c, thread[t])
           /\ Becomes(t, p) /\ Moved(thread[t], p, "persist", thread[t].answer)
           /\ disk' = Stored(c, thread[t])
    BY <1>8, PersistWrites
  <2>2. /\ thread[t].pc = "persist" /\ torn' = torn /\ SameLinks(mem', mem)
        /\ mem'.nodes = mem.nodes
    BY <1>8, PersistWrites
  <2>3. Wrote(c, thread[t], disk')
    BY <1>0, <2>1, <2>2, StoredFields
  <2>4. /\ disk'.items = mem.items \/ disk'.items = disk.items
        /\ disk'.edges \subseteq disk.edges \cup mem.edges /\ disk.nodes \subseteq disk'.nodes
    BY <2>3 DEF Wrote
  <2>5. Linked(mem', disk') \subseteq Linked(mem, disk)
    BY <2>2, <2>4 DEF Linked, SameLinks
  <2>6. \A n : Carries(thread[t], n) => Carries(p, n)
    BY <2>1, <2>2 DEF Carries, Moved
  <2>7. Rooted'
    BY <1>0, <2>1, <2>2, <2>4, <2>5, <2>6, RootedKept
  <2> QED
    BY <1>0, <1>1, <2>1, <2>2, <2>7 DEF Moved, Staged
<1>9. CASE PersistRaises(t)
  <2>1. Becomes(t, Idle) /\ mem' = mem /\ disk' = disk /\ torn' = torn /\ ~Closed(mem)
    BY <1>9 DEF PersistRaises, Becomes
  <2>2. torn
    BY <1>0, <2>1 DEF Rooted, Closed, Linked
  <2> QED
    BY <1>0, <1>1, <2>1, <2>2, IdleThread DEF Rooted
<1>10. CASE Break(t)
  <2>1. /\ Becomes(t, Idle) /\ mem' = mem /\ disk' = disk /\ torn' = (torn \/ Unsaved(t))
    BY <1>10 DEF Break, Becomes
  <2>2. ~torn' => \A n : Carries(thread[t], n) => n \in disk'.nodes
    BY <2>1, CarriedSaved
  <2>3. Rooted'
    BY <1>0, <2>1, <2>2, RootedKept
  <2> QED
    BY <1>0, <1>1, <2>1, <2>3, IdleThread
<1>11. CASE Answer(t)
  <2>1. /\ Becomes(t, Idle) /\ mem' = mem /\ disk' = disk /\ torn' = torn
        /\ thread[t].pc = "persist" /\ thread[t].todo = <<>>
    BY <1>11 DEF Answer, Becomes, At
  <2>2. Pend(thread[t]) = {}
    BY <2>1 DEF Pend
  <2>3. \A n : Carries(thread[t], n) => n \in disk'.nodes
    BY <2>1, <2>2 DEF Carries, RunInv, Recorded, RunKind
  <2>4. Rooted'
    BY <1>0, <2>1, <2>3, RootedKept
  <2> QED
    BY <1>0, <1>1, <2>1, <2>4, IdleThread
<1>12. CASE \E kind \in RunKind, r \in RunIds, s \in Scenarios \cup {NoScenario} :
               (kind # "ingestion" => s \in Scenarios) /\ Begin(t, kind, r, s)
  <2>1. PICK kind \in RunKind, r \in RunIds, s \in Scenarios \cup {NoScenario} :
           Begin(t, kind, r, s)
    BY <1>12
  <2>2. PICK p \in Thread : Receive(t, p) /\ p.kind = kind /\ p.pc = "started"
    BY <2>1, BeginWrites
  <2>3. thread[t].pc = "idle" /\ Becomes(t, p)
    BY <2>2, ReceiveWrites, IdleThread
  <2>4. /\ SameLinks(mem', mem) /\ disk' = disk /\ mem'.nodes = mem.nodes
        /\ torn' = (torn \/ kind = "replay")
    BY <2>1, BeginWrites DEF SameRest
  <2>5. Rooted'
    BY <1>0, <1>2, <2>3, <2>4, SameLinked, NotCarried, RootedKept
  <2> QED
    BY <1>0, <1>1, <2>2, <2>3, <2>4, <2>5
<1>13. CASE \E f \in Findings, status \in Triages : Triage(t, f, status)
  <2>1. PICK p \in Thread : Receive(t, p) /\ p.kind = "triage"
    BY <1>13, TriageArrives
  <2>2. thread[t].pc = "idle" /\ Becomes(t, p)
    BY <2>1, ReceiveWrites, IdleThread
  <2>3. SameLinks(mem', mem) /\ disk' = disk /\ mem'.nodes = mem.nodes /\ torn' = torn
    BY <1>13, TriageWrites
  <2>4. Rooted'
    BY <1>0, <1>2, <2>2, <2>3, SameLinked, NotCarried, RootedKept
  <2> QED
    BY <1>0, <1>1, <2>1, <2>2, <2>3, <2>4
<1>14. CASE \E l \in Links : Approve(t, l)
  <2>1. PICK l \in Links : Approve(t, l)
    BY <1>14
  <2>2. PICK p \in Thread : Receive(t, p) /\ p.kind = "approve"
    BY <2>1, ApproveWrites
  <2>3. thread[t].pc = "idle" /\ Becomes(t, p)
    BY <2>2, ReceiveWrites, IdleThread
  <2>4. /\ mem'.items = [mem.items EXCEPT ![l] = "approved"] /\ mem.items[l] = "pending"
        /\ mem'.edges = mem.edges \cup {l} /\ disk' = disk /\ mem'.nodes = mem.nodes
        /\ torn' = torn
    BY <2>1, ApproveWrites DEF SameRest
  <2>5. Linked(mem', disk') \subseteq Linked(mem, disk)
    <3>1. mem.items \in [Links -> {"none", "pending", "approved"}]
      BY <1>0, BookFields
    <3> QED
      BY <2>4, <3>1 DEF Linked
  <2>6. Rooted'
    BY <1>0, <2>3, <2>4, <2>5, NotCarried, RootedKept
  <2> QED
    BY <1>0, <1>1, <2>2, <2>3, <2>4, <2>6
<1> QED
  BY <1>3, <1>4, <1>5, <1>6, <1>7, <1>8, <1>9, <1>10, <1>11, <1>12, <1>13, <1>14 DEF Acts, Work

LEMMA LinkStep == ShapeInv /\ RunInv /\ LinkInv /\ [Next]_vars => LinkInv'
<1> SUFFICES ASSUME ShapeInv, RunInv, LinkInv, [Next]_vars PROVE LinkInv'
  OBVIOUS
<1>1. CASE Restart
  <2>1. /\ \A t \in Threads : thread'[t] = Idle
        /\ mem' = disk /\ disk' = disk
        /\ torn' = (torn \/ \E t \in Threads : Unsaved(t))
    BY <1>1 DEF Restart
  <2>2. ASSUME ~torn', NEW l \in Linked(disk, disk) PROVE Source[l] \in disk.nodes
    <3>1. l \in Linked(mem, disk)
      BY DEF Linked
    <3>2. Source[l] \in disk.nodes \/ \E t \in Threads : Carries(thread[t], Source[l])
      BY <2>1, <2>2, <3>1 DEF LinkInv, Rooted
    <3> QED
      BY <2>1, <2>2, <3>2, CarriedSaved
  <2>3. Rooted'
    BY <2>1, <2>2 DEF Rooted
  <2>4. \A t \in Threads : Staged(thread[t])'
    BY <2>1, IdleThread DEF Staged
  <2> QED
    BY <2>3, <2>4 DEF LinkInv
<1>2. ASSUME NEW t \in Threads, Acts(t) PROVE LinkInv'
  BY <1>2, RootedStep DEF LinkInv
<1>3. CASE UNCHANGED vars
  <2>1. mem' = mem /\ disk' = disk /\ thread' = thread /\ torn' = torn
    BY <1>3 DEF vars
  <2> QED
    BY <2>1 DEF LinkInv, Rooted, Staged
<1> QED
  BY <1>1, <1>2, <1>3, NextActs

LEMMA LinkInit == Init => LinkInv
<1> SUFFICES ASSUME Init PROVE LinkInv
  OBVIOUS
<1>1. Linked(mem, disk) = {}
  BY DEF Init, Empty, Linked
<1> QED
  BY <1>1, IdleThread DEF Init, LinkInv, Rooted, Staged

\* An approved link has its source node in memory, and in the store once the analyses in
\* flight have stored theirs.
THEOREM EdgesCorrect == Spec => []EdgesClosed
<1>1. LinkInv => EdgesClosed
  <2> SUFFICES ASSUME Rooted, ~torn
               PROVE  Closed(mem) /\ (Closed(disk) \/ \E t \in Threads : Unsaved(t))
    BY DEF LinkInv, EdgesClosed
  <2>1. Closed(mem)
    BY DEF Rooted, Closed, Linked
  <2>2. ASSUME \A t \in Threads : ~Unsaved(t), NEW l \in disk.edges
        PROVE  Source[l] \in disk.nodes
    <3>1. Source[l] \in disk.nodes \/ \E t \in Threads : Carries(thread[t], Source[l])
      BY DEF Rooted, Linked
    <3> QED
      BY <2>2, <3>1, CarriedSaved
  <2> QED
    BY <2>1, <2>2 DEF Closed
<1> QED
  BY <1>1, ShapeInit, ShapeStep, RunInit, RunStep, LinkInit, LinkStep, PTL DEF Spec

-----------------------------------------------------------------------------
(* The lease of the periodic runs                                            *)

LEMMA DownRange == ASSUME NEW lo \in Int, NEW hi \in Int, NEW n \in lo..hi
                   PROVE  Down(n, lo) \in lo..hi
BY DEF Down

\* The row a worker writes is a row, whatever its clock and its delay.
LEMMA RowOfType == ASSUME LeaseTypeOK, NEW w \in Workers
                   PROVE  RowOf(w) \in [owner: Workers \cup {NoOwner}, left: Remaining]
<1>1. TTL + ahead[w] - age[w] \in Remaining
  BY LeaseAssumption DEF LeaseTypeOK, Remaining
<1> QED
  BY <1>1 DEF RowOf

LEMMA NoLeaseType == NoLease \in [owner: Workers \cup {NoOwner}, left: Remaining]
BY LeaseAssumption DEF NoLease, Remaining

LEMMA LeaseTypeInit == LeaseInit => LeaseTypeOK
<1> SUFFICES ASSUME LeaseInit PROVE LeaseTypeOK
  OBVIOUS
<1>1. 0 \in Remaining /\ 0 \in 0..MaxDelay /\ 0 \in 0..MaxConfigures /\ Interval \in 0..Interval
  BY LeaseAssumption DEF Remaining
<1> QED
  BY <1>1, NoLeaseType DEF LeaseInit, LeaseTypeOK

LEMMA LeaseTypeStep == LeaseTypeOK /\ [LeaseNext]_leaseVars => LeaseTypeOK'
<1> SUFFICES ASSUME LeaseTypeOK, [LeaseNext]_leaseVars PROVE LeaseTypeOK'
  OBVIOUS
<1> USE LeaseAssumption DEF LeaseTypeOK, Goto, Sleep
<1>1. CASE Tick
  <2>1. lease' \in [owner: Workers \cup {NoOwner}, left: Remaining]
    <3>1. Down(lease.left, -MaxDelay) \in Remaining
      BY DownRange DEF Remaining
    <3> QED
      BY <1>1, <3>1 DEF Tick
  <2>2. due' \in [Workers -> 0..Interval]
    <3>1. \A w \in Workers : Down(due[w], 0) \in 0..Interval
      BY DownRange
    <3> QED
      BY <1>1, <3>1 DEF Tick
  <2>3. age' \in [Workers -> 0..MaxDelay]
    BY <1>1 DEF Tick
  <2>4. held' \in [Workers -> Remaining]
    <3>1. \A w \in Workers : Down(held[w], -MaxDelay) \in Remaining
      BY DownRange DEF Remaining
    <3>2. 0 \in Remaining
      BY DEF Remaining
    <3> QED
      BY <1>1, <3>1, <3>2 DEF Tick
  <2>5. pc' = pc /\ ahead' = ahead /\ configures' = configures
    BY <1>1 DEF Tick
  <2> QED
    BY <2>1, <2>2, <2>3, <2>4, <2>5
<1>2. ASSUME NEW w \in Workers, Timeout(w) PROVE LeaseTypeOK'
  BY <1>2 DEF Timeout
<1>3. ASSUME NEW w \in Workers, Acquire(w) PROVE LeaseTypeOK'
  <2>1. RowOf(w) \in [owner: Workers \cup {NoOwner}, left: Remaining] /\ RowOf(w).left \in Remaining
    BY RowOfType
  <2> QED
    BY <1>3, <2>1 DEF Acquire
<1>4. ASSUME NEW w \in Workers, Skip(w) PROVE LeaseTypeOK'
  BY <1>4 DEF Skip
<1>5. ASSUME NEW w \in Workers, AcquireFails(w) PROVE LeaseTypeOK'
  <2>1. lease' \in [owner: Workers \cup {NoOwner}, left: Remaining]
    BY <1>5, RowOfType DEF AcquireFails
  <2> QED
    BY <1>5, <2>1 DEF AcquireFails
<1>6. ASSUME NEW w \in Workers, Finish(w) PROVE LeaseTypeOK'
  BY <1>6 DEF Finish
<1>7. ASSUME NEW w \in Workers, Release(w) PROVE LeaseTypeOK'
  BY <1>7, NoLeaseType DEF Release, Released
<1>8. ASSUME NEW w \in Workers, ReleaseFails(w) PROVE LeaseTypeOK'
  BY <1>8, NoLeaseType DEF ReleaseFails, Released
<1>9. ASSUME NEW w \in Workers, Configure(w) PROVE LeaseTypeOK'
  BY <1>9 DEF Configure
<1>10. ASSUME NEW w \in Workers, Crash(w) PROVE LeaseTypeOK'
  BY <1>10 DEF Crash
<1>11. CASE UNCHANGED leaseVars
  BY <1>11 DEF leaseVars
<1> QED
  BY <1>1, <1>2, <1>3, <1>4, <1>5, <1>6, <1>7, <1>8, <1>9, <1>10, <1>11 DEF LeaseNext, Loop

\* The lease row keeps its shape and stays within the reach of its time to
\* live, also when replies are lost and workers die (acquire_scheduler_lease).
THEOREM LeaseTypeCorrect == LeaseSpec => []LeaseTypeOK
<1> QED
  BY LeaseTypeInit, LeaseTypeStep, PTL DEF LeaseSpec

-----------------------------------------------------------------------------
\* A row that another worker was granted and that is live by every clock is
\* not available.
LEMMA LiveRowBlocks ==
    ASSUME LeaseTypeOK, CoveredOwnsRow, NEW v \in Workers, NEW w \in Workers,
           Covered(w), Available(v)
    PROVE  v = w
<1>1. lease.owner = w /\ lease.left = held[w] /\ held[w] > Skew
  BY DEF CoveredOwnsRow, Covered
<1>2. ~(lease.left + age[v] - ahead[v] <= 0)
  BY <1>1, LeaseAssumption DEF LeaseTypeOK, Remaining
<1> QED
  BY <1>1, <1>2, LeaseAssumption DEF Available

LEMMA CoveredStep == LeaseTypeOK /\ CoveredOwnsRow /\ [LeaseNext]_leaseVars => CoveredOwnsRow'
<1> SUFFICES ASSUME LeaseTypeOK, CoveredOwnsRow, [LeaseNext]_leaseVars,
                    NEW w \in Workers, Covered(w)'
             PROVE  (lease = [owner |-> w, left |-> held[w]])'
  BY DEF CoveredOwnsRow
<1> USE LeaseAssumption
\* A step that neither starts w's run nor touches the row keeps the fact.
<1>a. ASSUME Covered(w), lease' = lease, held'[w] = held[w]
      PROVE  (lease = [owner |-> w, left |-> held[w]])'
  BY <1>a DEF CoveredOwnsRow
<1>1. CASE Tick
  <2>1. pc[w] = "run" /\ held'[w] = Down(held[w], -MaxDelay) /\ held'[w] > Skew
    BY <1>1 DEF Tick, Covered
  <2>2. held[w] \in Int /\ Skew \in Nat /\ MaxDelay \in Nat
    BY DEF LeaseTypeOK, Remaining
  <2>3. held[w] > Skew /\ held'[w] = held[w] - 1
    BY <2>1, <2>2 DEF Down
  <2>4. lease = [owner |-> w, left |-> held[w]]
    BY <2>1, <2>3 DEF CoveredOwnsRow, Covered
  <2>5. lease' = [lease EXCEPT !.left = held[w] - 1]
    BY <1>1, <2>1, <2>3, <2>4 DEF Tick
  <2> QED
    BY <2>3, <2>4, <2>5
<1>2. ASSUME NEW v \in Workers, Timeout(v) PROVE (lease = [owner |-> w, left |-> held[w]])'
  BY <1>2, <1>a DEF Timeout, Covered, Goto, LeaseTypeOK
<1>3. ASSUME NEW v \in Workers, Acquire(v) PROVE (lease = [owner |-> w, left |-> held[w]])'
  <2>1. CASE v = w
    BY <1>3, <2>1 DEF Acquire, RowOf, LeaseTypeOK
  <2>2. CASE v # w
    <3>1. Covered(w)
      BY <1>3, <2>2 DEF Acquire, Covered, Goto, LeaseTypeOK
    <3> QED
      BY <1>3, <2>2, <3>1, LiveRowBlocks DEF Acquire
  <2> QED
    BY <2>1, <2>2
<1>4. ASSUME NEW v \in Workers, Skip(v) PROVE (lease = [owner |-> w, left |-> held[w]])'
  BY <1>4, <1>a DEF Skip, Covered, Sleep, Goto, LeaseTypeOK
<1>5. ASSUME NEW v \in Workers, AcquireFails(v) PROVE (lease = [owner |-> w, left |-> held[w]])'
  <2>1. Covered(w) /\ v # w /\ held'[w] = held[w]
    BY <1>5 DEF AcquireFails, Covered, Goto, LeaseTypeOK
  <2>2. ~Available(v)
    BY <2>1, LiveRowBlocks
  <2>3. lease' = lease
    BY <1>5, <2>2 DEF AcquireFails
  <2> QED
    BY <1>a, <2>1, <2>3
<1>6. ASSUME NEW v \in Workers, Finish(v) PROVE (lease = [owner |-> w, left |-> held[w]])'
  BY <1>6, <1>a DEF Finish, Covered, Goto, LeaseTypeOK
<1>7. ASSUME NEW v \in Workers, Release(v) \/ ReleaseFails(v)
      PROVE  (lease = [owner |-> w, left |-> held[w]])'
  <2>1. Covered(w) /\ v # w /\ held'[w] = held[w]
    BY <1>7 DEF Release, ReleaseFails, Covered, Sleep, Goto, LeaseTypeOK
  <2>2. lease.owner = w
    BY <2>1 DEF CoveredOwnsRow
  <2>3. lease' = lease
    BY <1>7, <2>1, <2>2 DEF Release, ReleaseFails, Released
  <2> QED
    BY <1>a, <2>1, <2>3
<1>8. ASSUME NEW v \in Workers, Configure(v) PROVE (lease = [owner |-> w, left |-> held[w]])'
  BY <1>8, <1>a DEF Configure, Covered, Sleep, Goto, LeaseTypeOK
<1>9. ASSUME NEW v \in Workers, Crash(v) PROVE (lease = [owner |-> w, left |-> held[w]])'
  BY <1>9, <1>a DEF Crash, Covered, Goto, LeaseTypeOK
<1>10. CASE UNCHANGED leaseVars
  BY <1>10, <1>a DEF leaseVars, Covered
<1> QED
  BY <1>1, <1>2, <1>3, <1>4, <1>5, <1>6, <1>7, <1>8, <1>9, <1>10 DEF LeaseNext, Loop

\* While a run's lease is live by every clock, the row is the one that run was
\* started under: nobody took it over and no late release removed it.
THEOREM CoveredCorrect == LeaseSpec => []CoveredOwnsRow
<1>1. LeaseInit => CoveredOwnsRow
  BY DEF LeaseInit, CoveredOwnsRow, Covered
<1> QED
  BY <1>1, CoveredStep, LeaseTypeCorrect, PTL DEF LeaseSpec

\* Two periodic runs overlap only after the lease of one of them has run out by
\* some worker's clock, for any number of workers (RunScheduler._run_now with
\* the row-locking statement of acquire_scheduler_lease).
THEOREM ExclusionCorrect == LeaseSpec => []LeaseExcludes
<1>1. CoveredOwnsRow => LeaseExcludes
  BY DEF CoveredOwnsRow, LeaseExcludes
<1> QED
  BY <1>1, CoveredCorrect, PTL
=============================================================================

# A TLA+ model of SE 1 RUNE Agent

RUNE Agent is a FastAPI service that reads engineering artifacts (requirements,
designs, tests, issues), links them into candidate traceability edges, asks a
reviewer to approve each edge, and commits what was approved to a graph.  This
directory holds TLA+ modules for the parts of it whose correctness depends on
order, overlap and failure, the configurations that check them with TLC, and
proofs checked by TLAPS.

Paths below are relative to `src/src/req_tracker/` unless they start with `src/`.

## 1. The system

### How it runs

* One process is an API worker.  Its state is one `RuntimeState` (`api/state.py`):
  plain dictionaries for approval items, graph deltas, feedback, audit events,
  runs, findings, replies of commands, and the in-memory graph.
* Endpoints written with `def` run in a thread pool, so any two of them overlap;
  `async def` endpoints (`PUT /schedule`, `POST /schedule/run-now`) and the
  scheduler's loop run on the event loop.  A scheduled analysis runs on the event
  loop itself and blocks it.  Nothing in `RuntimeState` takes a lock.
* The state is written through to a store (SQLite or PostgreSQL), one row and one
  transaction per `upsert`, and read back by `restore_from_state_store` when a
  process starts.
* With PostgreSQL several workers share the store.  Each has its own memory; what
  they coordinate on is one row, the scheduler lease.

### Components

| Component | State | Operations | What makes it hard | What must hold |
|---|---|---|---|---|
| Approval queue and graph commit: `approvals/`, `graph/memory_backend.py` | items, deltas, feedback; edges, idempotency keys | stage_edges, decide, apply_delta | two threads in decide; staging during a decision; staging again | the graph changes only under a valid decision, with staged content; an approved item has its edge; a decision is final until staged again |
| Decision command: `api/routes/approvals.py`, `api/idempotency.py`, `api/state.py` | memory, store, recorded replies | lookup, decide, audit, persist, record reply, restore | overlapping persist passes, restart between two rows, retry of a running command | what a client was told is in the store; a retry decides once |
| Scheduler: `scheduler/`, lease in `storage/postgres_store.py` | loop task, stop event, lease row | timer, acquire, run, release, configure | run longer than lease, clock skew, lost replies, crash | leased runs exclude one another; a dead owner stops nobody |
| Audit trail: `audit/`, `api/routes/audit.py` | events, archives, rows | record, archive_and_prune | prune while recording and persisting; ids from the number of events | no event leaves before it is archived; none is overwritten |
| Run lifecycle: `workflows/analysis_graph.py`, `debug/traces.py`, `debug/replay.py`, `api/state.py`, `api/routes/runs.py` | runs, step traces, results, findings, nodes | ingest, analyse, replay, record failure, triage | failure and restart in any stage; re-run over a triage; rows stored one by one | every run that was answered is stored as told, none is running for ever; a triage is not lost |
| Feedback and improvement: `feedback/`, `api/routes/feedback.py`, `evals/` | feedback list, recorded decisions | record, activate, rollback | eval gate between read and write; candidates computed from a list whose order changes in a restart | a confirmed stage is not left backwards; a security concern stops promotions |
| Registry activation: `api/routes/admin.py` | activations | activate, rollback | the same | memory and store agree with what was told |
| Model gateway: `model_gateway/` | call traces | complete with attempts and fallback; compare; review | failing attempts, another profile for the fallback | nobody gets data the policy refuses; attempts are traced; the answer follows from them |
| Source adapters: `adapters/`, the paging loop of `workflows/analysis_graph.py` | cursor | fetch page, retry | a source that changes between pages; retries, short and empty pages | nothing is lost silently beyond what the changes explain; paging ends |
| Ingestion, extraction, linking: `ingestion/`, `reasoning/`, `vector/memory_backend.py` | retrieval index | mask, chunk, index | a text that leaks among others | what is indexed is masked and is the newest text read |
| Findings rules: `findings/rules.py` | none | pure | identity of a finding over re-runs | more verification raises no finding |
| Trace chain and projection: `graph/chain.py`, `graph/projection.py` | none | the walk | cycles, depth and node limits | exactly what is reachable within the limit, or "truncated" |
| Dashboard and graph page: `dashboard/`, `api/routes/graph.py` | assignments, preferences | work queue, health, page | registries of which some survive a restart; several reads of a page; a limit on its nodes | a healthy project has nothing urgent; a link is missing on a page only if it was decided meanwhile or the limit cut it off |
| State store: `storage/postgres_store.py`, `storage/sqlite_store.py` | ledger, typed mirror tables, migrations | migrate, roll back, upsert, delete, list | several processes; two statements with locks in opposite order | what the last call left is read; every table is there |
| Neo4j backend: `graph/neo4j_backend.py` | server | apply_delta | key never blocks | the same as the in-memory graph |
| Security, observability, external vector search, UI, release scripts | counters | reads | - | - |

Interactions: an analysis or a replay calls `stage_edges`; the decision route calls
`decide`, which calls `apply_delta`; every command calls `audit.record`,
`persist_approval_state` and `record_idempotency_result`; the scheduler calls
`run_analysis` and the lease of the store; `run_analysis` pages through a source
adapter, calls the model gateway, stages approvals and registers findings; the
pages read what all of these leave behind.

## 2. What is modelled

### ApprovalQueue (with GraphCommit)

One worker's queue and graph.  A *proposal* is a link (`edge_id`) with the revision
of its evidence; its hash is its approval id, so a changed source makes a new item
for the same link, while the delta is named after the link alone.

An action is the code between two accesses to shared dictionaries, in the order
`decide` makes them:

| Action | Code |
|---|---|
| StartStaging, StageItem, StageDelta | `stage_edges`, the item before its delta (service.py 67-68); the last stage of a run (analysis_graph.py 310-321) |
| Submit | the route, once the id is known to exist |
| ReadDecided, ReadPending | lines 78-81 and the branch chosen from the copy |
| FetchDelta, FetchModifiedDelta, FetchFails | the delta the item refers to, the corrected one, KeyError or contract error |
| CheckKey, ApplyDelta | `MemoryGraphBackend.apply_delta`: lookup; then edge and key |
| WriteItem | the copy replaces the item, version advanced (82-90, 110-117) |
| AppendFeedback | the event, or the exception of a reason code it does not allow |

A correction may set every field of the edge, and most are part of what a `fix` is.
Its `edge_id` is not: `apply_delta` stores an edge under its own id, so `Names` says
which link a correction names, if any, and `Target` where the edge of a decision
goes.  An edge carries the link it was staged for (`of`), so that one stored under
another link is told from that link's own.

Left out: wording of reasons, times, risk levels and project keys; an `edge_id` that is
no link of the project at all is a link nothing is ever staged for.  The write of the edge and of its
key (memory_backend.py 30-31) are one step: another thread can use the gap only to
pass the key check, which it can as well before.

`mode` is a history variable: "overlapped" once two decisions were in progress at
once.  `OnlyStagingReopens` and `FreshKeyPerCommit` hold up to that point only, so
one run with two reviewer threads checks both what holds always and what holds
of decisions one at a time.

`GraphCommit` is the promise to a reader of the graph, with no threads or keys: the
graph changes only under a grant, obtained by approving or correcting an *open*
proposal whose version and hash match what the reviewer expected, and only to a
content staged for the link of that proposal, corrected as decided, and stored under
that link or under the one the correction names.  `PromiseKept` says ApprovalQueue implements it.

### DecisionCommand

The decision route from the idempotency lookup to the reply, one worker, with its
store.  `decide` is reduced to approve and reject, in the same order of accesses
(corrections, and what they may overwrite, are in ApprovalQueue only); then
come the audit event, the pass of `persist_approval_state` (each item copied in one
step and stored in another; feedback; the events and the edges as iterations over dictionaries
that raise when the dictionary grew), and the reply recorded in memory and in the
store.  `Restart` kills the process at any point and restores memory from the
store.  An event carries the number of the call that left it; that two of them may get the
same id is left to the audit trail model.  Deltas are not stored separately: they
never change in this model.  The idempotency keys of the in-memory graph are left out: with no staging
they only repeat that a decided item is not decided again.  `mode` is the same
history variable as in ApprovalQueue: `ToldIsStored` and `OneFeedbackPerDecision`
are about commands one at a time, with restarts in the middle of them.

### SchedulerLease

Several workers and the lease row.  Every instant is kept as a distance from now,
so time runs for ever in a finite model.  A worker reads its clock (`Timeout`), the
statement runs up to `MaxDelay` later (`Acquire`, `Skip`), it may fail before or
after it took effect (`AcquireFails`, `ReleaseFails`), a run takes any time
(`Finish`), a schedule change restarts or disables the loop (`Configure`), and a crash leaves
the row behind.  `run-now` takes no lease; it only delays the loop, as a long `Timeout`
does.  A worker that restarts has a new owner id, so it is another member of
`Workers`.  The name and the TTL of the lease are constants: a `PUT /schedule` that changes
them for one worker while others keep the old ones would leave workers that do not see
one another's lease, or that renew by another TTL; no statement is made of that.
Counters of skips and the last error are left out.  The general names
(`LeaseInit`, `LeaseNext`, `LeaseTypeOK`) carry the module's name because its theorems
share a module with those of RunLifecycle.

### AuditTrail (with AuditPromise)

The audit events of one worker.  `Count` and `Record` are the two accesses of `record`:
the number of events, which is part of the id, and the assignment under that id.
An event goes to the store alone at the start of a run (`StoreOne`) or in the pass of
`persist_approval_state` (`Begin`, `Copy`, `Upsert`, `Reply`), which raises when
the dictionary's size is not what it was (`Break`).  When events were both added
and removed its size is what it was, and Python does not say which entries the
iteration visits: the pass is *shifted* and may end early.  This is an
over-approximation; CPython leaves entries out only when it moves them.
`Select`, `Archive`, `Pop`, `Delete`, `Deleted` are archive-prune, whose route then
records an event of its own.  Archive and store may fail, and `Restart` restores
the events from their rows.  `Age` moves the cutoff of `retention_days`.

Two events with one id are the same event to `told`: the archive and the store are
keyed by id.  Left out: the actor, the project and the reply of the archive-prune command's
idempotency key; the partial pass over the events of a failed run, which is the
same loop on fewer events.

`AuditPromise` has no threads and no memory: a row leaves the store only when its event is in
an archive, and a command is answered only when its event is in one or the other.

### Promotion

Feedback and what administrators decide about it.  An improvement candidate is
computed at every request from the feedback of one reason, and its id is a hash of
the ids of these events in list order; so `Candidate` is that sequence, and new
feedback makes another candidate.  A request is cut at its accesses: `Activate...`
and `Rollback...` read the candidate and its recorded status (`Forward` is
`_require_forward_improvement_transition`), `RunGate` evaluates `evals/` on the
feedback of that later moment, `WriteRecord` and `StoreRecord` write memory and
store, `StoreFeedback` the rows one by one.  Registry activations (`Models`) and
work queue assignments (`Queues`) are records of the same kind without an order.
`Restart` reads feedback back in the order of its ids.  `raced` collects the
targets on which two requests overlapped.  Left out: metrics the gate does not
compare, actors and comments.  An event whose id was used again replaces the other
one's row, as an upsert does.

### RunLifecycle

Ingestion, analysis and replay as requests that overlap with triage and approval.
Memory and store are two records of the same shape (`Book`); a thread carries the
list of collections it still has to store (`Order`, the order of `run_analysis` and
of the replay route).  Stages meet state that others see at three places only, so a
`Stretch` is the code between two of them: `Create`, `StageNodes`, `StageApproval`,
`Complete`.  `FailStage` is `_record_run_failed`, with the step it leaves
(`Left`), `PersistRaises` the KeyError of an edge whose source node is missing,
`Break` any other error of the store.  `Restart` keeps what is on disk; results of
runs are not.  `torn` is a history variable: a replay staged something, or an
analysis stopped before its nodes were stored.

### TraceChain

`GET /traceability/chain/{node_id}`: `Pop`, `Look`, `Expanded` and `Answer` are the
loop of `_walk_chain` with one neighbour at a time, so that the limit can
end it between two neighbours.  `Capped` is the clamping of depth and limit by the
builder.  All requests over all subsets of `Link` are initial states.  The
reference is `Within`, the nodes at most k links away.

### FindingRules, Dashboard

FindingRules has one operator for each rule of `findings/rules.py`; a finding is
its rule, nodes and links, which the code hashes into its id.  Dashboard keeps the
registries the pages read, changed by short versions of the other modules' actions,
and computes `OpenQueue`, `Health` and the graph page as the code does.  The page
is three reads (`ReadNodes`, `ReadEdges`, `Show`), and other requests run between them.
`PageOf` is what it is computed from; `SelectedNodes` are the first of its `Candidates`,
as many as `limit_nodes` allows (`CappedLimit`, moved into 1..`MaxShown`, which is 500 in
the code), in the order of `_sort_nodes`: orphans, nodes at risk, nodes with proposals,
then by type and id (`Group`, `Order`).  `Visible` are the links between selected nodes,
`Truncated` is what the page says of itself.  `Show` reads the queue and the results at
once, as nothing stated depends on the findings, which only decide the order; a read that
meets a change of its dictionary answers no page and is left out.  `settled`
collects findings a reviewer triaged since they were last found; `torn` says that
a process stopped between staging and the end of an analysis.  The initial states, the
steps and the shape of the variables carry the module's name (`DashboardInit`,
`DashboardNext`, `DashboardTypeOK`), as TraceChainProofs extends TraceChain as well.

### SourcePaging

`_fetch_all` over one of four adapters, with the source as an ordered list that
`Edit`, `Add` and `Delete` change between two pages.  `Turn` is the loop's
bookkeeping, `JiraPage`, `ConfluencePage`, `ExportPage` and `EmailPage` what an
adapter returns of a window, with its warnings for unusable items; `Retry` and
`GiveUp` are `adapters/retry.py`, `Misshapen`, `BadAnswer`, `BadFile` and
`FileMissing` what adapters do with answers they cannot read.  `Ingest` masks,
checks and indexes.  `moves` counts edits and deletions since the first page.
`Kept` is a list with some items left out, in its order (of a page the items no artifact
can be made of).
As for Dashboard, the initial states, the steps and the shape of the variables carry the
module's name (`PagingInit`, `PagingNext`, `PagingTypeOK`), as ModelGatewayProofs has the
theorems of both outside services, the model and the source.
Confluence advances by the `size` its response states; a source that states another
number than it sends is left out, here `size` is the number of results.
Left out: fields of artifacts, cursors of other scopes, and the fixture adapter of
local runs, which is an export that never changes.

### ModelGateway

`complete` as a list of attempts (`Attempts`), one action for each thing that may
become of one: `Refuse`, `PayloadFails`, `Send`, `ProviderFails`, `AnswerUnwritten`,
`Respond`, `Exhausted`.  `job` is who calls and with what: the reviews of an analysis, the
gateway probe, a comparison of candidates, or a plain call with retries and fallback; and
whether it has an artifact store.  With one, `complete` writes the payload before it sends,
and the answer and what it parsed after, outside of its `try` and before it records the
trace: a write that fails raises out of the call.  `PayloadFails` is that before anything
is sent; `AnswerUnwritten` leaves a request that was answered without a trace ("lost").
A result says which way a call ended (`Status`).  `sent` is a history of what the
providers got.  Callers are taken to keep traces, as all of those do or may.

### StateStore

The PostgreSQL store under several worker processes.  An `upsert` writes
`state_entities` (`ledger`), then the typed table of the collection (`mirror`), a
`delete` the other way round; `get` and `list` of typed collections read the mirror
alone.  A process carries what its open transaction wrote, `LedgerLocked` and
`MirrorLocked` are the row locks of the others.  `Check`, `Create`, `CreateFails`,
`Migrated` are `apply_migrations`, which is one transaction, `Restore` the reads of
`restore_from_state_store`; `Rollback` is `rollback_migration`, run while processes
serve.  PostgreSQL itself is external: the module's head says what of it is
assumed.  `NoTable`, `Deadlock` and `Raises` end a call, `Crash` a process.
History variables: `last` (what the last committed call left), `lost` (the typed
table was dropped since), `mixed` (an upsert and a delete overlapped), `behind`
(processes older than the last rollback).

## 3. What is checked

| Run | Bounds | Distinct states | Question |
|---|---|---|---|
| approval_race | 2 links, 2 revisions of one, a correction that names the other, 2 reviewers, 2 analyses, 3 decisions, 2 runs | 1.3 M | does any interleaving of deciding and staging break the queue's invariants or the promise of GraphCommit; without overlap, is a decision final and a key used once |
| lease | 2 workers, TTL 3, interval 2, skew 1, delay 2, 2 schedule changes, fairness | 0.14 M | do leased runs exclude one another, and does a lost owner stop the other |
| command_overlap | 2 items, 2 threads, 2 keys, 3 calls, 2 restarts | 4.1 M | is a told decision in the audit trail, its edge stored; without overlap, is it stored as told and decided once |
| audit_prune | 2 threads, 1 payload, max_events 1, 3 requests, 1 restart | 1 M | is the event of an answered command kept, is nothing dropped that is not archived, does the policy select what it should |
| promotion_race | 2 threads, 2 reasons, 4 events of 3 ids, 4 requests, 1 restart | 1.4 M | are confirmed decisions kept, does a concern stop promotions |
| run_lifecycle | 2 threads, 2 run ids, 2 scenarios, 3 requests, 1 restart | 4.1 M | is what was told of a run and of a triage in the store, do approved links keep their nodes |
| trace_chain | 5 nodes, every subset of 7 links (with cycles), depth up to 3, limit up to 5 | 2.1 M | depths, completeness, truncation |
| dashboard | 4 nodes, 3 links, limits -1, 2 and 9 of at most 4, 2 analyses, 1 edit, 1 triage, 2 decisions, 1 restart | 0.7 M | do queue, health and page agree with the registries |
| source_paging | 3 items (one unusable), 2 per page, 2 analyses, 2 changes, 2 faults, 1 empty page | 0.8 M | is nothing lost silently, is the index the newest text, does paging end |
| model_gateway | 2 profiles, 2 prompts, 2 retries and a fallback, up to 3 calls, with and without a store | 0.25 M | policy, traces, answers |
| state_store | 2 processes, 2 entities in 2 tables, 2 payloads, 3 versions | 0.6 M | is the schema whole, are mirror and ledger in step, is the last call what is read |

The bounds: two threads suffice for every pair of overlapping handlers; a second
revision of one link is what makes items and deltas differ, a second link with an item
of its own is what a correction can overwrite; the requests contain one for each branch
of `decide` (MCApprovalQueue lists them); TTL above the interval lets a second worker
wake during a leased run, and skew plus delay reaching TTL lets a lease run out by
another's clock before its run starts; two restarts allow a restart during the retry of
a command that a restart cut off; three requests are an event to prune, a command in its
pass and the prune that shifts it, or an analysis, the triage of its finding and a
replay of it.  Promotion needs two events of one reason to pass the gate (`min_cases` is
2) and a third for a candidate of another order.  Five nodes are the least with two ways
of different length around a cycle and a limit inside a node's neighbours.  Of the
dashboard's limits one is moved up to 1, one cuts the ends of two proposals and the page
of four nodes, and one is moved down and cuts nothing.  Two pages of two items with two
changes move an item over the page boundary and back; the second analysis meets the
chunks of the first.  Two retries are the adapters' own number; the gateway's is a
parameter (0 unless its caller sets it), and two retries and a fallback make a failed
answer, an error and a last resort in one call.  Three versions put a typed table before
and after the one that is rolled back, and StateStore has no bound but its sets: its run
covers all behaviours of them.  Two workers are what TLC can take with liveness;
`LeaseExcludes` is proved for any number.

Six runs declare symmetry, of threads, processes and analyses, and of values that differ
in nothing (items and keys of commands, run ids, payloads of the store).  What they check
names none of these, and none of it is liveness.

The runs for the bounded models set `CHECK_DEADLOCK FALSE`: the budgets of calls,
runs and restarts end every behaviour, as a service with no more requests does.
StateStore never stops, and its run checks for deadlock.

Fairness is assumed in two runs.  `lease` (`FairSpec`): time passes, and the event
loop serves a timer that is due and a call that has returned or failed (asyncio
does); nothing is assumed of a run, which may hang.  `source_paging`: a request to
a source ends, because the HTTP clients have time limits, and the workflow goes on
when it did.  `Ends` holds because the source gives boundedly many empty pages with
a larger total; the code has no limit of its own on them.

### What the documents say and the code does not do

| Run | Sentence | What happens |
|---|---|---|
| approval_stale_commit | "stale approval은 commit되지 않는다." (`src/PRODUCTION_EXECUTION_PLAN.md:990`) | two revisions share a delta: approving the older item commits the newer content |

This run is expected to end in a violation.  More gaps between documents and code are in
the models and have no run of their own.

Approvals and commands:

* A held item is never decided again, though the design lists held -> approved
  (`src/docs/implementation/01_MODULE_DESIGN.md:396`).
* A correction that sets `edge_id` (nothing checks it, service.py 141) stores the edge
  under that id: it replaces the approved edge of another link, and the link that was
  decided may be `modified_approved` without an edge.  `target_id` of the operation
  still names the decided link.
* A second correction after a re-run replaces the modified delta of the first, while
  its key keeps the first one in the graph: not both can be traced
  (`src/docs/implementation/03_STEP_BY_STEP_IMPLEMENTATION_PLAN.md:425`).
* A retry that arrives while the first call still runs finds no recorded reply and
  decides again, though every command is said to support an idempotency
  key (`src/docs/implementation/02_STORAGE_AND_CONTRACT_DESIGN.md:14`).
* An item copied by one pass before another command decides it is stored after it,
  and a restart restores it pending (`src/README.md:373`): `ToldIsStored` is about
  commands that do not overlap.
* Two threads may both pass the key check of `apply_delta`, so that one key changes
  the graph twice.  Of two overlapping decisions the later write wins, which takes
  an item from one decided status to another
  (`src/docs/implementation/01_MODULE_DESIGN.md:390`).
* A reject with a reason code that feedback events do not allow raises after the
  item was written, and leaves no feedback.  A restart between storing an item and
  storing its edge brings back an approval without its edge (the reason for
  `crashes = 0` in `ToldApprovalHasEdge`).

Scheduler and audit trail:

* The lease is released right after the run, so two workers may each run once within
  an interval (`src/README_ubuntu.md:123`).
* An event's id contains the number of events held, which a prune lowers: an equal
  command later may replace an event still held, though events are called immutable
  (`audit/models.py:33`).  A command answered after a shifted pass may lose its
  event in a restart.

Runs:

* An analysis stopped before its nodes are stored, or a replay of another scenario,
  leaves proposals whose nodes a restart does not bring back; approving one makes
  every later pass raise at `api/state.py:471` (the reason for `torn` in `EdgesClosed`).
* A replay stages its links again: a decided approval is pending once more, although
  `persist_replay_analysis_trace` (`api/state.py:509`) speaks of not mutating
  operational graph state.
* A run whose id was used before and fails may be stored as "running"; `StoredRunEnded` is about
  ids used once for the status.  A crash after the start event leaves an event
  without a run.  A failed run leaves its step "running" unless it failed over masking.
* An error of the store after the last stage answers 500 for a run that memory shows
  as succeeded, and records no failed event
  (`src/docs/api/README.md:50` describes failures "during execution").
* A triage that arrives between the end of an analysis in memory and its storing is
  overwritten in the store (the reason for `raced`).

Feedback and promotion:

* One request with every flag takes a candidate from draft to active, though the
  route says it goes "through eval, review, canary, and active stages"
  (`api/routes/feedback.py:111`).
* New feedback of the same reason makes a new candidate: the active one is no longer
  found, and its rollback answers 404
  (`src/docs/runbooks/INCIDENT_RESPONSE.md:178` sends the operator there).
* The gate counts list entries, so one event sent twice satisfies `min_cases`.

Sources, model calls, pages:

* A page without a total is taken for the last one and nothing is reported
  (`untold`).  A stored cursor is never read again: each analysis reads everything
  (`src/docs/implementation/03_STEP_BY_STEP_IMPLEMENTATION_PLAN.md:253` has the
  incremental cursor working).  A fetch whose retry succeeded is reported partial.
  Chunks of a text that became shorter stay in the index.
* A refused fallback discards an answer that was there but did not validate.  An
  artifact that cannot be written discards a valid one, and leaves a request that was
  sent and answered without a trace (`model_gateway/client.py:98`).  A
  comparison keeps statuses by profile, so that of two prompts of one profile one
  hides the other, and compares only its first two outputs.
* A finding that is found again is open again, whatever a reviewer said.  A
  chain with exactly `limit` nodes says truncated although nothing is missing.  A
  link that was decided between the reads of a page may be missing on it, and a
  link of a node beyond `limit_nodes` is: an approved one on the full page and a proposal
  on the page of open proposals, with `truncated` as the only sign (the page of open
  proposals says it whenever a node has none).  A link staged again is on it as
  approved and as pending.  Older failed runs and warnings stay in the work queue of a
  project shown as healthy.  The projection takes its findings from results in memory,
  and the work queue from the registry.

State store:

* A rollback followed by a restart, or a new typed table for an old collection,
  leaves rows in the ledger that nothing reads any more
  (`src/README.md:373`): nothing fills a mirror from the ledger.
* A delete that overlaps the first insert of a row leaves the mirror's row: a pruned
  audit event reappears after a restart (`src/README_ubuntu.md:121`).  That is `mixed`
  in `ConfirmedIsRead`.
* Upsert and delete of one entity may deadlock; the aborted prune has taken its
  events out of memory already.

Every property of a passing run has a mutant: an operator next to the original
that changes it as a plausible bug would (a dropped check, a key recorded too
early, a row deleted by its name alone), under which TLC finds the property
violated.

## 4. What is proved

TLAPS proves these for every value of the constants, from the named assumptions in
the modules (null values are not members of the sets; bounds are naturals; for
StateStore, each typed table is created by one migration and dropped by its rollback alone).

* **ApprovalQueueProofs**: `TypeOK`; `QueueInv`, and from it `VersionTracksDecision`,
  `ApprovedEdgePresent` and the refinement `PromiseKept`.  The two visible invariants
  are not inductive: a thread that has passed the pending check carries a copy of the
  item, a payload and a verdict while others run.  `QueueInv` says what those locals
  still mean: the copy was at version 1, the payload was staged for the link of the
  decision, the link of an approval's key has an edge, a thread about to write
  "approved" is an approval's and its link has an edge.  Of a modification's key nothing
  can be said: its correction may have named another link.  Each step then maps to a
  step of GraphCommit: StageItem to Stage, ReadPending to Grant when it will commit,
  FetchFails and a CheckKey that finds the key to Withdraw, ApplyDelta to Commit,
  WriteItem to Close, the rest to stutters.  The action properties `OnlyStagingReopens`
  and `FreshKeyPerCommit` follow from `SerialInv`: as long as decisions did not overlap,
  one thread is past its lookup, its item is pending until it is written, and the key it
  applies is new.
* **DecisionCommandProofs**: `TypeOK` and the four properties, for any number of
  threads and restarts.  For `ToldIsAudited` the invariant follows an event: in memory
  from the audit step on, in the iteration's dictionary, in the store before the thread
  leaves that iteration without an exception, and so before a reply is remembered,
  stored or sent.  Memory loses events only in a restart, and a restart ends every
  thread.  `ToldApprovalHasEdge` follows an edge in the same way (`EdgeInv`), up to the
  first restart.  `ToldIsStored` and `OneFeedbackPerDecision` rest on `SerialInv`: while
  one command is served, the rows that differ from memory are those its pass has still
  to visit, what has a reply is equal in memory and store, and feedback on an item
  is there only once the item is decided, in the store too.  A restart in any of these
  states keeps all of it, which is what makes a retry find the decision it made.
* **AuditTrailProofs**: `TypeOK`, `ToldKept`, `PrunesNoMore` and the refinement
  `PromiseKept`, for any retention
  policy.  `TrailInv` follows an event through its thread: in memory or in an archive
  from `Record` on, safe (a row or an archive) once its pass visited it, and a thread
  in `pop` or `delete` takes out archived events only.  What is safe never
  becomes unsafe, by any step; what is in memory is lost in a restart only.
  `PrunesNoMore` counts: `BornInv` says that no two events the process, the store or a
  thread knows were created at the same count, so they are in a total order, and
  of a finite set in a total order exactly k have fewer than k before them.
* **PromotionProofs**: `TypeOK`, whose core is that a restore returns a list of the
  rows whatever order it has and that candidates computed from any list are
  candidates.  `ToldNotUndone` and `ToldIsRecorded` rest on `RecordInv`, for each target
  on which no two requests overlapped: it has one request at most, that request does not
  take its improvement backwards between reading and writing, and the store may be
  behind memory where a request broke off, but neither is behind what was told.
  `ConcernBlocks` rests on `ConcernInv`: a pass over the feedback list has stored what it
  has passed even if the list grew meanwhile, and an event whose id is not used twice
  stays in list and rows, also when a restart returns the rows in another order.
* **RunLifecycleProofs**: of RunLifecycle, `TypeOK` and the five properties, by
  four invariants that rest on one another's types.  `ShapeInv`: what a request looks like
  at each place, and which collections it may still have to store.  `RunInv`: of every
  request that serves a run, each fact its answer will claim is in the store or its
  collection is still in the request's list (`Recorded`, `OwnRows`); a run id used
  once has one request (`OneRequest`); `ToldRunStored`, `StoredRunEnded` and
  `RunningIsRun` are conjuncts.  `TriageInv`: a finding on which requests did not
  overlap has one writer, and nothing is settled of it while that writer is at work.
  `LinkInv`: a link that memory or store knows anything of has its source node in
  memory, and in the store unless an analysis carries it there.
  Of SchedulerLease, `LeaseTypeOK`, `CoveredOwnsRow`, `LeaseExcludes`.  Exclusion
  relates two workers; what is inductive is that a run whose lease has not run out
  by any clock (`Covered`) still has the row it wrote: no other worker can have
  found it expired, and a late release deletes only its own row.
* **TraceChainProofs**: `TypeOK` and the three properties, for every graph and request.  For
  `WalkConnected` the inductive invariant says that a selected node's turn is to come (it
  is in the queue or being expanded) or over, and that what is over has its neighbours
  selected, unless the limit was reached.  For `DepthIsDistance` it says what makes a
  walk breadth-first: the queue goes from nearer to farther nodes by one step at most, and
  while a node is expanded none nearer than it waits (`OrderInv`).  `TruncationTold`
  follows from both.  The reference `Within` is a recursive function; that such a
  function exists, and that it grows, is proved by induction over the naturals.
  Of Dashboard, `DashboardTypeOK` and all five properties, for any nodes, links, readers
  and bounds.  `HealthyIsQuiet` follows from the types alone: a failed run that is not
  the last one has a later one.  `QueueFollowsTriage` needs `StatusInv`: every finding
  of a result is registered, it is open exactly if it was not triaged since it was last
  found, and the store has the statuses of memory, so that a restart brings back what
  `settled` says.  `ProposalHasLink` needs `NodesInv`: unless `torn`, the nodes are in
  memory as soon as an item is there, and in the store unless a run is between staging
  and its end; that every decision in progress is of an item that exists is part of it.
  Then the ends of the proposals are the candidates of their page.  `LinksAccounted`
  needs `LiveInv`: what was live when the nodes were read was decided since, or is
  between these nodes and approved or proposed.  Both rest on `FirstCount` for the
  limit: the order of the nodes is total, so the ranks of n of them are 0 to n - 1, and
  the page has all or exactly as many as the limit.  `VerifyingHelps` needs what the
  results were computed from (`StatusInv`) and `VerifyingFindsNoMore`: a rule looks at
  verification links only to find less.
* **ModelGatewayProofs**: `TypeOK` and the three properties, for any number of retries and
  candidates.  The job does not change and the policy is asked in the step
  that sends; most of the proof of `PolicyHeld` is that the attempt asked about is the one
  made (`AttemptsTyped`, `Placed`).  `EveryAttemptTraced` counts: the keys of the traces
  so far are of earlier attempts (`KeysPast`), so a return adds one to both counts, and an
  answer that is lost to none; it is the last request of its call (`LostLast`).
  `AnswerJustified` rests on what the call in progress has sent (`CallSoFar`): one request
  for each attempt made, none that passed or was lost, and the last answer if there was any.
  Of SourcePaging, `PagingTypeOK`, `IndexFaithful` and `LossBounded`, for any source, page
  size, retries and changes.  `LossBounded` looks at the end of a fetch only; `LossInv` says
  for a fetch under way that of the items before the offset at most `moves` were there all
  the time and not read, and that the artifacts in excess of the items read, together with
  the items read that are not before the offset (any more), are at most `moves`.  A page
  read in full keeps both (an item read again was behind the offset, `ReadCount`), and a
  source without an item, or with it at the end, lets at most one other item cross the
  offset (`FrontMoved`).  `IndexFaithful` rests on `NoLeak`, that no leaking text is in
  the index, and on the last of the places that are put into it (`UpsertedText`).
* **StateStoreProofs**: `TypeOK`, `SchemaWhole`, `LedgerMirrored` and
  `ConfirmedIsRead`, for any number of processes, entities and versions.
  `SchemaInv`: the version table says which tables there are, and a migrating
  process has every version before its own, in the database or in its transaction.
  `MirrorInv`: a transaction wrote what the statement it is at says (`Written`), no
  two transactions hold the same row (`Exclusive`), and where a ledger row appeared
  after a delete found none, that delete takes no mirror row away (`NothingLeft`).
  `ReadInv`: as long as an entity is not `mixed`, its open transactions are all
  upserts or all deletes, so that a delete that found no mirror row still finds none when
  it commits.

An induction schema takes a predicate as its parameter, which the provers cannot
instantiate.  Where a proof needs induction over the naturals it is over a *set* of
naturals that has 0 and the successor of each member: `SetInduction` in
TraceChainProofs derives it from the library's `NatLessThanWellFounded`.

Only model-checked: liveness (`LeaseRecovers`, `Ends`), which is out of the
prover's reach.  Every invariant and action property of a passing run is a theorem.

## 5. Not modelled, and what could follow

* The asyncio tasks of one worker's scheduler: two overlapping `PUT /schedule` start
  two loops.  SchedulerLease has one loop for each worker.
* The Neo4j backend: one transaction of an external server.  Read from the code: the
  `created` flag of its key node is true also when the key is matched again
  (`graph/neo4j_backend.py:104`), so `apply_delta` never skips a commit.
* Extraction, linking and scoring: they compare words of artifacts.  Layout, labels,
  and the neighborhood and hub modes of the graph projection.
* Idempotency keys of commands other than the decision: the same lookup and record.
* A composition of several workers with their own `RuntimeState` over one
  StateStore: each restores at its start only, and nothing in the code makes one
  see what another wrote later.
* Roles and project scope are checked for each request without state.  HTTP
  transport, export and backup, release gate scripts, the user interface, metrics,
  configuration and Qdrant are I/O and presentation without a protocol of their own.

Theorems worth adding next: an abstract store with one copy of each entity that StateStore
implements as long as nothing is `mixed`, and a source at rest that SourcePaging reads
completely, each by a refinement as AuditTrail's and ApprovalQueue's.

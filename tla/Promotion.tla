----------------------------- MODULE Promotion -----------------------------
(***************************************************************************)
(* Feedback, the improvement candidates derived from it, and the decisions *)
(* an administrator records about them and about the model registry: the   *)
(* routes of api/routes/feedback.py and api/routes/admin.py, the eval gate *)
(* of evals/, and the work queue assignments of the dashboard, which are   *)
(* records of the same kind.                                               *)
(*                                                                         *)
(* A candidate is not stored.  It is computed from the feedback events of  *)
(* one reason at every request, and its id is a hash of their ids in the   *)
(* order of the list; a decision is recorded under that id.  Events are    *)
(* appended in memory in the order they arrive and come back from the      *)
(* store in the order of their ids, one for each id.                       *)
(*                                                                         *)
(* Each request is cut where it meets shared state: it reads the candidate *)
(* and its decision, runs the gate on the feedback it finds then, writes   *)
(* the record in memory, stores it, stores every feedback event row by     *)
(* row, and answers.  Idempotency keys are left to DecisionCommand, audit  *)
(* events to AuditTrail.                                                   *)
(***************************************************************************)
EXTENDS Naturals, Sequences, FiniteSets

CONSTANTS
    Inputs,     \* feedback events clients send: an id, a reason code
    Concern,    \* the reason code security_concern
    Models,     \* profiles and prompts of the registry files
    Ready,      \* those that may be activated: a prompt must be canary or active
    Queues,     \* work queue items of the dashboard
    Threads,    \* request threads
    NoTarget, NoEvent,
    MinCases,   \* EvalGatePolicy.min_cases
    MaxCalls,   \* bound: requests in a behaviour
    MaxFeedback,\* bound: feedback events held
    MaxCrashes  \* bound: restarts in a behaviour

Event == [id: Nat, reason: STRING]

\* A candidate is named by what its id is a hash of.
Candidate == [reason: STRING, ids: Seq(Nat)]

Target == Candidate \cup Models \cup Queues

ASSUME PromotionAssumption ==
    /\ Inputs \subseteq Event /\ NoEvent \notin Event
    /\ Concern \in STRING /\ Ready \subseteq Models
    /\ NoTarget \notin Target
    /\ Candidate \cap (Models \cup Queues) = {} /\ Models \cap Queues = {}
    /\ MinCases \in Nat \ {0} /\ MaxCalls \in Nat
    /\ MaxFeedback \in Nat /\ MaxCrashes \in Nat

\* How far an improvement has come.
Order == [draft |-> 0, review_ready |-> 2, canary |-> 4, active |-> 5, rolled_back |-> 6]

\* What a record says: the status of an improvement or of a registry item, or
\* whether a work queue item is assigned.
Value == DOMAIN Order \cup {"assigned", "cleared"}

VARIABLES
    feedback,   \* the list ApprovalService.feedback
    rows,       \* the collection feedback_events
    book,       \* the records in memory: a function on the targets that have one
    stored,     \* the records in the store
    thread,     \* the request threads
    told,       \* what clients were told last of a target
    heard,      \* feedback events that were confirmed
    raced,      \* history: the targets on which two requests overlapped
    calls, crashes

vars == <<feedback, rows, book, stored, thread, told, heard, raced, calls, crashes>>

\* A request: where it is, the record it writes or the event it brought, and how
\* many feedback events it has stored.
Thread == [pc: {"idle", "gate", "write", "upsert", "rows", "reply"},
           target: Target \cup {NoTarget}, value: Value,
           event: Inputs \cup {NoEvent}, row: Nat]

Request(label, x, value, e) ==
    [pc |-> label, target |-> x, value |-> value, event |-> e, row |-> 0]

Idle == Request("idle", NoTarget, "draft", NoEvent)

Records(f) ==
    /\ f = [x \in DOMAIN f |-> f[x]] /\ DOMAIN f \subseteq Target
    /\ \A x \in DOMAIN f : f[x] \in (IF x \in Candidate THEN DOMAIN Order ELSE Value)

TypeOK ==
    /\ feedback \in Seq(Inputs)
    /\ rows \subseteq Inputs /\ heard \subseteq Inputs
    /\ Records(book) /\ Records(stored) /\ Records(told)
    /\ thread \in [Threads -> Thread]
    /\ raced \subseteq Target
    /\ calls \in 0..MaxCalls /\ crashes \in 0..MaxCrashes

None == [x \in {} |-> "draft"]

Init ==
    /\ feedback = <<>> /\ rows = {} /\ heard = {}
    /\ book = None /\ stored = None /\ told = None
    /\ thread = [t \in Threads |-> Idle]
    /\ raced = {} /\ calls = 0 /\ crashes = 0

At(t, label) == thread[t].pc = label
Goto(t, label) == thread' = [thread EXCEPT ![t].pc = label]

With(f, x, v) == [y \in DOMAIN f \cup {x} |-> IF y = x THEN v ELSE f[y]]
Without(f, x) == [y \in DOMAIN f \ {x} |-> f[y]]

-----------------------------------------------------------------------------
(* Candidates and the eval gate                                              *)

\* The events of one reason, in the order of the list.
Group(fb, reason) == SelectSeq(fb, LAMBDA e : e.reason = reason)

ReasonsIn(fb) == {fb[i].reason : i \in DOMAIN fb}

CandidateOf(fb, reason) ==
    LET group == Group(fb, reason) IN
    [reason |-> reason, ids |-> [i \in DOMAIN group |-> group[i].id]]

Candidates(fb) == {CandidateOf(fb, reason) : reason \in ReasonsIn(fb)} \cap Candidate

\* Mutant: the recorded decision is not applied to the candidate.
StatusOf_Unapplied(c) == "draft"

\* The decision recorded for a candidate's id, if there is one.
StatusOf(c) == IF c \in DOMAIN book THEN book[c] ELSE "draft"

\* The report on one dataset, which holds the events of one reason; cases fail
\* only for security concerns.  Its replay drift is below the policy's limit
\* whatever the reason.
Report(fb, reason) ==
    LET total == Cardinality({i \in DOMAIN fb : fb[i].reason = reason})
        failures == IF reason = Concern THEN total ELSE 0
    IN [total |-> total, passed |-> total - failures, failures |-> failures]

\* EvalGatePolicy: enough cases, 95 in 100 passed, no security failure.
Blocks(report) ==
    \/ report.total < MinCases
    \/ report.passed * 100 < report.total * 95
    \/ report.failures > 0

GatePassed(fb) ==
    /\ fb # <<>>
    /\ \A reason \in ReasonsIn(fb) : ~Blocks(Report(fb, reason))

\* _require_forward_improvement_transition: a closed candidate stays closed, an
\* open one does not move backwards.
Forward(from, to) == from # "rolled_back" /\ Order[to] >= Order[from]

-----------------------------------------------------------------------------
(* Requests                                                                  *)

\* A request for a target is received; what was told of a record that has no order
\* is no longer the last word on it.
Begin(t, x, value, label) ==
    /\ calls < MaxCalls /\ At(t, "idle")
    /\ thread' = [thread EXCEPT ![t] = Request(label, x, value, NoEvent)]
    /\ raced' = IF \E u \in Threads : thread[u].target = x THEN raced \cup {x} ELSE raced
    /\ told' = IF x \in Candidate THEN told ELSE Without(told, x)
    /\ calls' = calls + 1
    /\ UNCHANGED <<feedback, rows, book, stored, heard, crashes>>

\* Promotion to the stage the request's flags ask for.
ActivateImprovement(t) ==
    \E c \in Candidates(feedback), target \in {"review_ready", "canary", "active"} :
        /\ Forward(StatusOf(c), target)
        /\ Begin(t, c, target, "gate")

RollbackImprovement(t) ==
    \E c \in Candidates(feedback) :
        /\ StatusOf(c) \in {"canary", "active"}
        /\ Begin(t, c, "rolled_back", "write")

\* A registry item is activated on the word of the request that every gate was
\* passed, and rolled back if its record says active.
ActivateRegistryItem(t) ==
    \E x \in Ready : Begin(t, x, "active", "write")

RollbackRegistryItem(t) ==
    \E x \in Models :
        /\ x \in DOMAIN book /\ book[x] = "active"
        /\ Begin(t, x, "rolled_back", "write")

Assign(t) ==
    \E q \in Queues, v \in {"assigned", "cleared"} : Begin(t, q, v, "write")

\* Feedback, from its route or from a decision on an approval, is appended.
RecordFeedback(t, e) ==
    /\ calls < MaxCalls /\ Len(feedback) < MaxFeedback /\ At(t, "idle")
    /\ feedback' = Append(feedback, e)
    /\ thread' = [thread EXCEPT ![t] = Request("rows", NoTarget, "draft", e)]
    /\ calls' = calls + 1
    /\ UNCHANGED <<rows, book, stored, told, heard, raced, crashes>>

\* Mutant: the gate looks at the candidate's own events only.
RunGate_OwnCases(t) ==
    /\ At(t, "gate")
    /\ IF GatePassed(Group(feedback, thread[t].target.reason))
       THEN Goto(t, "write") ELSE thread' = [thread EXCEPT ![t] = Idle]
    /\ UNCHANGED <<feedback, rows, book, stored, told, heard, raced, calls, crashes>>

\* The gate runs on the feedback of this moment.
RunGate(t) ==
    /\ At(t, "gate")
    /\ IF GatePassed(feedback) THEN Goto(t, "write")
                               ELSE thread' = [thread EXCEPT ![t] = Idle]
    /\ UNCHANGED <<feedback, rows, book, stored, told, heard, raced, calls, crashes>>

WriteRecord(t) ==
    /\ At(t, "write")
    /\ book' = With(book, thread[t].target, thread[t].value)
    /\ Goto(t, "upsert")
    /\ UNCHANGED <<feedback, rows, stored, told, heard, raced, calls, crashes>>

\* An assignment is answered once it is stored; the other requests go on to
\* persist_approval_state.
StoreRecord(t) ==
    /\ At(t, "upsert")
    /\ stored' = With(stored, thread[t].target, thread[t].value)
    /\ Goto(t, IF thread[t].target \in Queues THEN "reply" ELSE "rows")
    /\ UNCHANGED <<feedback, rows, book, told, heard, raced, calls, crashes>>

\* persist_approval_state iterates over the list itself, so it meets what others
\* append meanwhile; a row is found by its id.
StoreFeedback(t) ==
    /\ At(t, "rows") /\ thread[t].row < Len(feedback)
    /\ LET e == feedback[thread[t].row + 1] IN
       rows' = {r \in rows : r.id # e.id} \cup {e}
    /\ thread' = [thread EXCEPT ![t].row = @ + 1]
    /\ UNCHANGED <<feedback, book, stored, told, heard, raced, calls, crashes>>

EndOfFeedback(t) ==
    /\ At(t, "rows") /\ thread[t].row = Len(feedback)
    /\ Goto(t, "reply")
    /\ UNCHANGED <<feedback, rows, book, stored, told, heard, raced, calls, crashes>>

AnswerRecord(t) ==
    /\ At(t, "reply") /\ thread[t].target # NoTarget
    /\ told' = With(told, thread[t].target, thread[t].value)
    /\ thread' = [thread EXCEPT ![t] = Idle]
    /\ UNCHANGED <<feedback, rows, book, stored, heard, raced, calls, crashes>>

AnswerFeedback(t) ==
    /\ At(t, "reply") /\ thread[t].event # NoEvent
    /\ heard' = heard \cup {thread[t].event}
    /\ thread' = [thread EXCEPT ![t] = Idle]
    /\ UNCHANGED <<feedback, rows, book, stored, told, raced, calls, crashes>>

\* The store raises, or an iteration over a dictionary that grew: status 500.
Break(t) ==
    /\ thread[t].pc \in {"upsert", "rows", "reply"}
    /\ thread' = [thread EXCEPT ![t] = Idle]
    /\ UNCHANGED <<feedback, rows, book, stored, told, heard, raced, calls, crashes>>

\* The list of the rows in the order of their ids.
Listings(S) ==
    {s \in [1..Cardinality(S) -> S] :
        /\ \A e \in S : \E i \in 1..Cardinality(S) : s[i] = e
        /\ \A i, j \in 1..Cardinality(S) : i < j => s[i].id < s[j].id}

\* Mutant: the records of work queue items are left in the store.
Restart_NoAssignments ==
    /\ crashes < MaxCrashes
    /\ feedback' \in Listings(rows)
    /\ book' = [x \in DOMAIN stored \ Queues |-> stored[x]]
    /\ thread' = [t \in Threads |-> Idle]
    /\ crashes' = crashes + 1
    /\ UNCHANGED <<rows, stored, told, heard, raced, calls>>

Restart ==
    /\ crashes < MaxCrashes
    /\ feedback' \in Listings(rows) /\ book' = stored
    /\ thread' = [t \in Threads |-> Idle]
    /\ crashes' = crashes + 1
    /\ UNCHANGED <<rows, stored, told, heard, raced, calls>>

Step(t) ==
    \/ ActivateImprovement(t) \/ RollbackImprovement(t)
    \/ ActivateRegistryItem(t) \/ RollbackRegistryItem(t) \/ Assign(t)
    \/ \E e \in Inputs : RecordFeedback(t, e)
    \/ RunGate(t) \/ WriteRecord(t) \/ StoreRecord(t)
    \/ StoreFeedback(t) \/ EndOfFeedback(t)
    \/ AnswerRecord(t) \/ AnswerFeedback(t) \/ Break(t)

Next == Restart \/ \E t \in Threads : Step(t)

Spec == Init /\ [][Next]_vars

-----------------------------------------------------------------------------
(* Properties                                                                *)

\* An improvement never falls behind what an administrator was told of it, in
\* memory or in the store, over restarts, later requests and failures: a confirmed
\* rollback stays, a confirmed stage is not left backwards.  Two requests for the
\* same candidate that overlap may break this; nothing else does.
ToldNotUndone ==
    \A c \in DOMAIN told \ raced :
        c \in Candidate =>
            /\ c \in DOMAIN book /\ Order[book[c]] >= Order[told[c]]
            /\ c \in DOMAIN stored /\ Order[stored[c]] >= Order[told[c]]

\* The last confirmed activation, rollback or assignment is what memory and store
\* say, as long as requests for the same target do not overlap.
ToldIsRecorded ==
    \A x \in DOMAIN told \ raced :
        x \notin Candidate =>
            /\ x \in DOMAIN book /\ book[x] = told[x]
            /\ x \in DOMAIN stored /\ stored[x] = told[x]

\* A security concern that was confirmed stops every promotion from then on, over
\* restarts and whatever arrives meanwhile, unless its id is used for another event.
Unambiguous(e) == \A f \in Inputs : f.id = e.id => f = e

ConcernBlocks ==
    [][ (\E e \in heard : e.reason = Concern /\ Unambiguous(e))
        => \A t \in Threads : At(t, "gate") => thread'[t].pc # "write" ]_vars
=============================================================================

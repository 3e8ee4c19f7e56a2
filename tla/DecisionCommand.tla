-------------------------- MODULE DecisionCommand --------------------------
(***************************************************************************)
(* POST /approvals/{approval_id}/decision from its idempotency check to    *)
(* its reply, in a process that keeps its state in memory, mirrors it into *)
(* a state store row by row, and is rebuilt from that store when it is     *)
(* killed and started again.                                               *)
(*                                                                         *)
(* ApprovalQueue has the decision itself in detail; here a decision        *)
(* approves or rejects an item of which one revision is staged, and is     *)
(* reduced to the three steps at which it meets persistence: the item is   *)
(* read, the edge is put into the graph, the item is written.  Every       *)
(* command then persists the whole approval state, whoever changed it,     *)
(* collection after collection, and several commands do so at a time.      *)
(* The store takes a row at a time and every row is a transaction.         *)
(***************************************************************************)
EXTENDS Naturals, FiniteSets

CONSTANTS
    Items,      \* approval items, each with an edge of its own
    Threads,    \* request threads
    Keys,       \* idempotency keys clients make up
    NoCommand, NoItem,
    MaxCalls,   \* bound: calls received in a behaviour
    MaxCrashes  \* bound: restarts in a behaviour

Command == [key: Keys, item: Items, action: {"approve", "reject"}]

Status == {"pending", "approved", "rejected"}

ASSUME CommandAssumption ==
    /\ NoCommand \notin Command /\ NoItem \notin Items
    /\ MaxCalls \in Nat /\ MaxCrashes \in Nat

Reply == [command: Command, reply: Status]

\* A call: what it asks for, and its number.
Call == Command \X (1..MaxCalls)

\* What the process holds in memory and what the store holds: the items, the
\* edges of the approved graph, the feedback and the audit events calls left, and
\* the replies recorded for idempotency keys with the commands they answered.
State == [items: [Items -> Status], edges: SUBSET Items,
          feedback: SUBSET Call, audit: SUBSET Call, replies: SUBSET Reply]

VARIABLES
    mem,     \* RuntimeState
    disk,    \* the state store
    thread,  \* the request threads
    told,    \* replies clients have received
    calls, crashes,
    mode     \* history: "overlapped" once two commands were in progress at once

vars == <<mem, disk, thread, told, calls, mode, crashes>>

\* A request thread: where it is, what it was asked to do by which call, the
\* status of the item it will return, and of its pass over the approval state the items it
\* has still to visit, the row read for the next upsert, and the dictionary it
\* iterates over as it was at the start.
Thread ==
    [pc: {"idle", "read", "apply", "write", "audit", "items", "upsert", "feedback",
          "events", "eventrows", "edges", "edgerows", "remember", "record"},
     cmd: Command \cup {NoCommand}, call: 0..MaxCalls, reply: Status,
     queue: SUBSET Items, item: Items \cup {NoItem}, status: Status,
     mark: (SUBSET Call) \cup (SUBSET Items)]

Idle == [pc |-> "idle", cmd |-> NoCommand, call |-> 0, reply |-> "pending",
         queue |-> {}, item |-> NoItem, status |-> "pending", mark |-> {}]

TypeOK ==
    /\ mem \in State /\ disk \in State
    /\ thread \in [Threads -> Thread]
    /\ told \subseteq Reply
    /\ calls \in 0..MaxCalls /\ crashes \in 0..MaxCrashes
    /\ mode \in {"serial", "overlapped"}

\* The items are staged and stored, and nothing has been decided.
Fresh == [items |-> [i \in Items |-> "pending"], edges |-> {}, feedback |-> {},
          audit |-> {}, replies |-> {}]

Init ==
    /\ mem = Fresh /\ disk = Fresh
    /\ thread = [t \in Threads |-> Idle]
    /\ told = {}
    /\ calls = 0 /\ crashes = 0 /\ mode = "serial"

CallOf(t) == <<thread[t].cmd, thread[t].call>>

At(t, label) == thread[t].pc = label
Goto(t, label) == thread' = [thread EXCEPT ![t].pc = label]

-----------------------------------------------------------------------------
(* The command                                                               *)

Recorded(k) == {r \in mem.replies : r.command.key = k}

\* A key that was answered: the same request gets the recorded reply again, a
\* different one is refused (409).
Replay(t, c) ==
    /\ calls < MaxCalls /\ At(t, "idle")
    /\ Recorded(c.key) # {}
    /\ told' = told \cup {r \in Recorded(c.key) : r.command = c}
    /\ calls' = calls + 1
    /\ UNCHANGED <<mem, disk, thread, mode, crashes>>

\* A new key, or one whose first call has not been answered yet.
Accept(t, c) ==
    /\ calls < MaxCalls /\ At(t, "idle")
    /\ Recorded(c.key) = {}
    /\ thread' = [thread EXCEPT ![t].cmd = c, ![t].call = calls + 1, ![t].pc = "read"]
    /\ calls' = calls + 1
    /\ mode' = IF \E u \in Threads : ~At(u, "idle") THEN "overlapped" ELSE mode
    /\ UNCHANGED <<mem, disk, told, crashes>>

\* An item decided before is returned as it is.
ReadDecided(t) ==
    LET status == mem.items[thread[t].cmd.item] IN
    /\ At(t, "read") /\ status # "pending"
    /\ thread' = [thread EXCEPT ![t].reply = status, ![t].pc = "audit"]
    /\ UNCHANGED <<mem, disk, told, calls, mode, crashes>>

\* A pending one is decided, from the copy read here.
ReadPending(t) ==
    LET approve == thread[t].cmd.action = "approve" IN
    /\ At(t, "read") /\ mem.items[thread[t].cmd.item] = "pending"
    /\ thread' = [thread EXCEPT ![t].reply = IF approve THEN "approved" ELSE "rejected",
                                ![t].pc = IF approve THEN "apply" ELSE "write"]
    /\ UNCHANGED <<mem, disk, told, calls, mode, crashes>>

ApplyDelta(t) ==
    /\ At(t, "apply")
    /\ mem' = [mem EXCEPT !.edges = @ \cup {thread[t].cmd.item}]
    /\ Goto(t, "write")
    /\ UNCHANGED <<disk, told, calls, mode, crashes>>

WriteItem(t) ==
    /\ At(t, "write")
    /\ mem' = [mem EXCEPT !.items[thread[t].cmd.item] = thread[t].reply,
                          !.feedback = @ \cup {CallOf(t)}]
    /\ Goto(t, "audit")
    /\ UNCHANGED <<disk, told, calls, mode, crashes>>

\* Mutant: the event is recorded only when the item was decided here.
RecordAudit_Decided(t) ==
    /\ At(t, "audit")
    /\ mem' = IF CallOf(t) \in mem.feedback
              THEN [mem EXCEPT !.audit = @ \cup {CallOf(t)}] ELSE mem
    /\ thread' = [thread EXCEPT ![t].queue = Items, ![t].pc = "items"]
    /\ UNCHANGED <<disk, told, calls, mode, crashes>>

\* The audit event, then the pass over the approval state begins.
RecordAudit(t) ==
    /\ At(t, "audit")
    /\ mem' = [mem EXCEPT !.audit = @ \cup {CallOf(t)}]
    /\ thread' = [thread EXCEPT ![t].queue = Items, ![t].pc = "items"]
    /\ UNCHANGED <<disk, told, calls, mode, crashes>>

-----------------------------------------------------------------------------
(* persist_approval_state                                                    *)

\* The next item of the queue is read from memory ...
CopyItem(t) ==
    /\ At(t, "items")
    /\ \E i \in thread[t].queue :
          thread' = [thread EXCEPT ![t].item = i, ![t].status = mem.items[i],
                                   ![t].queue = @ \ {i}, ![t].pc = "upsert"]
    /\ UNCHANGED <<mem, disk, told, calls, mode, crashes>>

\* Mutant: only items that are still pending are stored.
UpsertItem_Pending(t) ==
    /\ At(t, "upsert")
    /\ disk' = IF thread[t].status = "pending"
               THEN [disk EXCEPT !.items[thread[t].item] = thread[t].status] ELSE disk
    /\ thread' = [thread EXCEPT ![t].item = NoItem, ![t].status = "pending",
                     ![t].pc = IF thread[t].queue = {} THEN "feedback" ELSE "items"]
    /\ UNCHANGED <<mem, told, calls, mode, crashes>>

\* ... and stored as it was read.
UpsertItem(t) ==
    /\ At(t, "upsert")
    /\ disk' = [disk EXCEPT !.items[thread[t].item] = thread[t].status]
    /\ thread' = [thread EXCEPT ![t].item = NoItem, ![t].status = "pending",
                     ![t].pc = IF thread[t].queue = {} THEN "feedback" ELSE "items"]
    /\ UNCHANGED <<mem, told, calls, mode, crashes>>

\* Feedback is a list that only grows: a row is never written twice with
\* different contents, and growing the list does not disturb the iteration.
UpsertFeedback(t) ==
    /\ At(t, "feedback")
    /\ disk' = [disk EXCEPT !.feedback = @ \cup mem.feedback]
    /\ Goto(t, "events")
    /\ UNCHANGED <<mem, told, calls, mode, crashes>>

\* The audit events and the edges are dictionaries: the iteration over one
\* that grows meanwhile raises, with some of its rows stored.
BeginEvents(t) ==
    /\ At(t, "events")
    /\ thread' = [thread EXCEPT ![t].mark = mem.audit, ![t].pc = "eventrows"]
    /\ UNCHANGED <<mem, disk, told, calls, mode, crashes>>

UpsertEvents(t) ==
    /\ At(t, "eventrows") /\ thread[t].mark = mem.audit
    /\ disk' = [disk EXCEPT !.audit = @ \cup thread[t].mark]
    /\ Goto(t, "edges")
    /\ UNCHANGED <<mem, told, calls, mode, crashes>>

EventsChanged(t) ==
    /\ At(t, "eventrows") /\ thread[t].mark # mem.audit
    /\ \E rows \in SUBSET thread[t].mark : disk' = [disk EXCEPT !.audit = @ \cup rows]
    /\ thread' = [thread EXCEPT ![t] = Idle]
    /\ UNCHANGED <<mem, told, calls, mode, crashes>>

BeginEdges(t) ==
    /\ At(t, "edges")
    /\ thread' = [thread EXCEPT ![t].mark = mem.edges, ![t].pc = "edgerows"]
    /\ UNCHANGED <<mem, disk, told, calls, mode, crashes>>

UpsertEdges(t) ==
    /\ At(t, "edgerows") /\ thread[t].mark = mem.edges
    /\ disk' = [disk EXCEPT !.edges = @ \cup thread[t].mark]
    /\ Goto(t, "remember")
    /\ UNCHANGED <<mem, told, calls, mode, crashes>>

\* Mutant: the failure of the last collection is passed over.
EdgesChanged_Ignored(t) ==
    /\ At(t, "edgerows") /\ thread[t].mark # mem.edges
    /\ \E rows \in SUBSET thread[t].mark : disk' = [disk EXCEPT !.edges = @ \cup rows]
    /\ Goto(t, "remember")
    /\ UNCHANGED <<mem, told, calls, mode, crashes>>

EdgesChanged(t) ==
    /\ At(t, "edgerows") /\ thread[t].mark # mem.edges
    /\ \E rows \in SUBSET thread[t].mark : disk' = [disk EXCEPT !.edges = @ \cup rows]
    /\ thread' = [thread EXCEPT ![t] = Idle]
    /\ UNCHANGED <<mem, told, calls, mode, crashes>>

-----------------------------------------------------------------------------
(* The reply                                                                 *)

Answer(t) == [command |-> thread[t].cmd, reply |-> thread[t].reply]

\* A later answer to the same key replaces the one recorded before.
Remembered(replies, t) ==
    {r \in replies : r.command.key # thread[t].cmd.key} \cup {Answer(t)}

RememberReply(t) ==
    /\ At(t, "remember")
    /\ mem' = [mem EXCEPT !.replies = Remembered(@, t)]
    /\ Goto(t, "record")
    /\ UNCHANGED <<disk, told, calls, mode, crashes>>

RecordReply(t) ==
    /\ At(t, "record")
    /\ disk' = [disk EXCEPT !.replies = Remembered(@, t)]
    /\ told' = told \cup {Answer(t)}
    /\ thread' = [thread EXCEPT ![t] = Idle]
    /\ UNCHANGED <<mem, calls, mode, crashes>>

-----------------------------------------------------------------------------
\* Mutant: the items are not restored.
Restored_NoItems == [disk EXCEPT !.items = Fresh.items]

\* restore_from_state_store
Restored == disk

\* The process is killed and started again.
Restart ==
    /\ crashes < MaxCrashes
    /\ mem' = Restored
    /\ thread' = [t \in Threads |-> Idle]
    /\ crashes' = crashes + 1
    /\ UNCHANGED <<disk, told, calls, mode>>

Decide(t) ==
    ReadDecided(t) \/ ReadPending(t) \/ ApplyDelta(t) \/ WriteItem(t) \/ RecordAudit(t)

Persist(t) ==
    \/ CopyItem(t) \/ UpsertItem(t) \/ UpsertFeedback(t)
    \/ BeginEvents(t) \/ UpsertEvents(t) \/ EventsChanged(t)
    \/ BeginEdges(t) \/ UpsertEdges(t) \/ EdgesChanged(t)

Next ==
    \/ \E t \in Threads, c \in Command : Replay(t, c) \/ Accept(t, c)
    \/ \E t \in Threads : Decide(t) \/ Persist(t) \/ RememberReply(t) \/ RecordReply(t)
    \/ Restart

Spec == Init /\ [][Next]_vars

-----------------------------------------------------------------------------
(* Properties                                                                *)

\* A client that was told its decision can rely on the audit trail: an event
\* for the command is in the store, whatever other commands and restarts did.
Audited(c) == \E n \in 1..MaxCalls : <<c, n>> \in disk.audit

ToldIsAudited == \A r \in told : Audited(r.command)

\* ... and, until the process is first restarted, on the graph: an approval that
\* was confirmed has its edge in the store, although passes over the edges break
\* off when another thread adds one.  A restart may bring the item back as
\* approved without its edge, and the retry that finds it decided confirms it.
ToldApprovalHasEdge ==
    crashes = 0 =>
        \A r \in told : r.reply = "approved" => r.command.item \in disk.edges

\* As long as no two commands were in progress at once, a confirmed decision
\* survives restarts: the stored item has the status the client was told.
ToldIsStored ==
    mode = "serial" => \A r \in told : disk.items[r.command.item] = r.reply

\* ... and sending a decision again, also after a restart in the middle of the
\* first attempt, decides at most once: one call leaves feedback.
OneFeedbackPerDecision ==
    mode = "serial" =>
        \A c \in Command : \A d, e \in mem.feedback : d[1] = c /\ e[1] = c => d = e
=============================================================================

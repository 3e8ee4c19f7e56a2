----------------------------- MODULE AuditTrail -----------------------------
(***************************************************************************)
(* The audit events of one worker process: recorded in memory by every     *)
(* command, stored row by row, and from time to time written to an archive *)
(* and removed from memory and store (POST /audit/retention/archive-prune).*)
(* Request threads overlap at every access to the dictionary of events, at *)
(* every row and at the archive; the process may be killed at any point.   *)
(*                                                                         *)
(* An event's id is a hash of what it says and of the number of events in  *)
(* memory when it was recorded.  The event of an archive-prune also says   *)
(* which archive was written; no two archives have the same name.          *)
(***************************************************************************)
EXTENDS Naturals, FiniteSets

CONSTANTS
    Threads,
    Payloads,    \* what commands say in their events
    Pruned,      \* what archive-prune says in its own
    MaxKept,     \* max_events of the retention policy
    MaxRecords,  \* bound: requests received in a behaviour
    MaxCrashes,  \* bound: restarts in a behaviour
    NoEvent

ASSUME AuditAssumption ==
    /\ MaxKept \in Nat \ {0}
    /\ MaxRecords \in Nat /\ MaxCrashes \in Nat

\* batch: the archive the event names, 0 for none; born: when it was created,
\* as a count of creations.
Event == [payload: Payloads \cup {Pruned}, seq: Nat, batch: Nat, born: Nat]
EventId == (Payloads \cup {Pruned}) \X Nat \X Nat

ASSUME NullAssumption == NoEvent \notin Event

Id(e) == <<e.payload, e.seq, e.batch>>
IdsOf(evs) == {Id(e) : e \in evs}

VARIABLES
    events,    \* AuditService.events
    rows,      \* the rows of audit_events
    archives,  \* the events in archives
    thread,    \* the request threads
    told,      \* ids of events whose command was answered after a whole pass
    loose,     \* ids of events whose command was answered after a shifted pass
    batches,   \* archives written
    clock,     \* events created so far
    cutoff,    \* events created before this count are older than retention_days
    requests, crashes

ghosts == <<told, loose>>
bounds == <<requests, crashes>>
vars == <<events, rows, archives, thread, ghosts, batches, clock, cutoff, bounds>>

\* A thread's locals: what it records, the archive it wrote, whether it stores
\* this event alone, the number of events it counted, the event; the size of
\* the dictionary at the start of its pass, whether events were added to the
\* dictionary since, the ids it visited and the event it is about to store; the
\* events it prunes, and those of them it has still to take out.
Labels == {"idle", "count", "record", "one", "begin", "rows", "upsert",
           "archive", "pop", "delete"}
Thread ==
    [pc: Labels, payload: Payloads \cup {Pruned}, batch: Nat, alone: BOOLEAN,
     seq: Nat, own: Event \cup {NoEvent},
     mark: Nat, shifted: BOOLEAN, seen: SUBSET EventId, item: Event \cup {NoEvent},
     chosen: SUBSET Event, queue: SUBSET Event]

Idle == [pc |-> "idle", payload |-> Pruned, batch |-> 0, alone |-> FALSE,
         seq |-> 0, own |-> NoEvent,
         mark |-> 0, shifted |-> FALSE, seen |-> {}, item |-> NoEvent,
         chosen |-> {}, queue |-> {}]

TypeOK ==
    /\ events \subseteq Event /\ rows \subseteq Event /\ archives \subseteq Event
    /\ thread \in [Threads -> Thread]
    /\ told \subseteq EventId /\ loose \subseteq EventId
    /\ batches \in Nat
    /\ clock \in Nat /\ cutoff \in 0..clock
    /\ requests \in 0..MaxRecords /\ crashes \in 0..MaxCrashes

Init ==
    /\ events = {} /\ rows = {} /\ archives = {}
    /\ thread = [t \in Threads |-> Idle]
    /\ told = {} /\ loose = {}
    /\ batches = 0 /\ clock = 0 /\ cutoff = 0
    /\ requests = 0 /\ crashes = 0

At(t, label) == thread[t].pc = label
Goto(t, label) == thread' = [thread EXCEPT ![t].pc = label]
Leave(t) == thread' = [thread EXCEPT ![t] = Idle]

\* Assignment to a dictionary of events and to a collection of rows.
Put(events_, e) == {f \in events_ : Id(f) # Id(e)} \cup {e}
Without(events_, e) == {f \in events_ : Id(f) # Id(e)}

-----------------------------------------------------------------------------
(* Recording                                                                 *)

\* A command has done its work, or a run is about to start (alone).
Request(t, p, alone) ==
    /\ requests < MaxRecords /\ At(t, "idle")
    /\ thread' = [thread EXCEPT ![t].payload = p, ![t].alone = alone, ![t].pc = "count"]
    /\ requests' = requests + 1
    /\ UNCHANGED <<events, rows, archives, ghosts, batches, clock, cutoff, crashes>>

\* "sequence": len(self.events)
Count(t) ==
    /\ At(t, "count")
    /\ thread' = [thread EXCEPT ![t].seq = Cardinality(events), ![t].pc = "record"]
    /\ UNCHANGED <<events, rows, archives, ghosts, batches, clock, cutoff, bounds>>

Created(t) == [payload |-> thread[t].payload, seq |-> thread[t].seq,
               batch |-> thread[t].batch, born |-> clock]

InPass(t) == thread[t].pc \in {"rows", "upsert"}
New(e) == Id(e) \notin IdsOf(events)

\* A new key may move the entries of the dictionary under a pass.
Record(t) ==
    /\ At(t, "record")
    /\ events' = Put(events, Created(t))
    /\ clock' = clock + 1
    /\ thread' = [u \in Threads |->
          IF u = t
          THEN [thread[t] EXCEPT !.own = Created(t),
                                 !.pc = IF thread[t].alone THEN "one" ELSE "begin"]
          ELSE [thread[u] EXCEPT !.shifted = @ \/ (InPass(u) /\ New(Created(t)))]]
    /\ UNCHANGED <<rows, archives, ghosts, batches, cutoff, bounds>>

\* _persist_audit_event, at the start of a run.
StoreOne(t) ==
    /\ At(t, "one")
    /\ rows' = Put(rows, thread[t].own)
    /\ Leave(t)
    /\ UNCHANGED <<events, archives, ghosts, batches, clock, cutoff, bounds>>

\* The store raises, and the command ends there.
StoreFails(t) ==
    /\ thread[t].pc \in {"one", "upsert", "delete"}
    /\ Leave(t)
    /\ UNCHANGED <<events, rows, archives, ghosts, batches, clock, cutoff, bounds>>

-----------------------------------------------------------------------------
(* The pass of persist_approval_state over the events                        *)

Begin(t) ==
    /\ At(t, "begin")
    /\ thread' = [thread EXCEPT ![t].mark = Cardinality(events), ![t].pc = "rows"]
    /\ UNCHANGED <<events, rows, archives, ghosts, batches, clock, cutoff, bounds>>

\* The iteration notices a dictionary whose size is not what it was.
Changed(t) == Cardinality(events) # thread[t].mark

Copy(t) ==
    /\ At(t, "rows") /\ ~Changed(t)
    /\ \E e \in events :
          /\ Id(e) \notin thread[t].seen
          /\ thread' = [thread EXCEPT ![t].item = e, ![t].seen = @ \cup {Id(e)},
                                      ![t].pc = "upsert"]
    /\ UNCHANGED <<events, rows, archives, ghosts, batches, clock, cutoff, bounds>>

Upsert(t) ==
    /\ At(t, "upsert")
    /\ rows' = Put(rows, thread[t].item)
    /\ thread' = [thread EXCEPT ![t].item = NoEvent, ![t].pc = "rows"]
    /\ UNCHANGED <<events, archives, ghosts, batches, clock, cutoff, bounds>>

\* Mutant: a pass that breaks off is not reported, and the reply is sent.
Break_Ignored(t) ==
    /\ At(t, "rows") /\ Changed(t)
    /\ told' = told \cup {Id(thread[t].own)}
    /\ Leave(t)
    /\ UNCHANGED <<events, rows, archives, loose, batches, clock, cutoff, bounds>>

\* RuntimeError: dictionary changed size during iteration.
Break(t) ==
    /\ At(t, "rows") /\ Changed(t)
    /\ Leave(t)
    /\ UNCHANGED <<events, rows, archives, ghosts, batches, clock, cutoff, bounds>>

\* The iteration is at its end, and the command is answered.  It has visited
\* every event, unless events were both added and removed under it: Python
\* then gives no promise which entries it visits.
Reply(t) ==
    /\ At(t, "rows") /\ ~Changed(t)
    /\ IF thread[t].shifted
       THEN /\ loose' = loose \cup {Id(thread[t].own)}
            /\ UNCHANGED told
       ELSE /\ IdsOf(events) \subseteq thread[t].seen
            /\ told' = told \cup {Id(thread[t].own)}
            /\ UNCHANGED loose
    /\ Leave(t)
    /\ UNCHANGED <<events, rows, archives, batches, clock, cutoff, bounds>>

-----------------------------------------------------------------------------
(* Archive and prune                                                         *)

Expired == {e \in events : e.born < cutoff}
Unexpired == events \ Expired

\* Mutant: the overflow is counted over all events, expired ones included.
Overflow_All ==
    {e \in Unexpired :
        Cardinality({f \in Unexpired : f.born < e.born}) + MaxKept < Cardinality(events)}

\* The oldest of the unexpired events, as many as there are above max_events.
Overflow ==
    {e \in Unexpired :
        Cardinality({f \in Unexpired : f.born < e.born}) + MaxKept < Cardinality(Unexpired)}

Select(t) ==
    /\ requests < MaxRecords /\ At(t, "idle")
    /\ thread' = [thread EXCEPT ![t].chosen = Expired \cup Overflow, ![t].pc = "archive"]
    /\ requests' = requests + 1
    /\ UNCHANGED <<events, rows, archives, ghosts, batches, clock, cutoff, crashes>>

\* Mutant: events are taken out although no archive was written.
Archive_Unwritten(t) ==
    /\ At(t, "archive")
    /\ thread' = [thread EXCEPT ![t].queue = thread[t].chosen, ![t].pc = "pop"]
    /\ UNCHANGED <<events, rows, archives, ghosts, batches, clock, cutoff, bounds>>

\* Without events there is nothing to archive.
Archive(t) ==
    /\ At(t, "archive")
    /\ archives' = archives \cup thread[t].chosen
    /\ batches' = IF thread[t].chosen = {} THEN batches ELSE batches + 1
    /\ thread' = [thread EXCEPT ![t].batch = IF thread[t].chosen = {} THEN 0 ELSE batches',
                                ![t].queue = thread[t].chosen, ![t].pc = "pop"]
    /\ UNCHANGED <<events, rows, ghosts, clock, cutoff, bounds>>

\* The archive cannot be written; the exception leaves the events where they are.
ArchiveFails(t) ==
    /\ At(t, "archive") /\ thread[t].chosen # {}
    /\ Leave(t)
    /\ UNCHANGED <<events, rows, archives, ghosts, batches, clock, cutoff, bounds>>

Pop(t) ==
    /\ At(t, "pop")
    /\ \E e \in thread[t].queue :
          /\ events' = Without(events, e)
          /\ thread' = [thread EXCEPT ![t].queue = @ \ {e}]
    /\ UNCHANGED <<rows, archives, ghosts, batches, clock, cutoff, bounds>>

Popped(t) ==
    /\ At(t, "pop") /\ thread[t].queue = {}
    /\ thread' = [thread EXCEPT ![t].queue = thread[t].chosen, ![t].pc = "delete"]
    /\ UNCHANGED <<events, rows, archives, ghosts, batches, clock, cutoff, bounds>>

Delete(t) ==
    /\ At(t, "delete")
    /\ \E e \in thread[t].queue :
          /\ rows' = Without(rows, e)
          /\ thread' = [thread EXCEPT ![t].queue = @ \ {e}]
    /\ UNCHANGED <<events, archives, ghosts, batches, clock, cutoff, bounds>>

\* archive-prune records its own event and stores what is left.
Deleted(t) ==
    /\ At(t, "delete") /\ thread[t].queue = {}
    /\ thread' = [thread EXCEPT ![t].payload = Pruned, ![t].alone = FALSE,
                                ![t].chosen = {}, ![t].pc = "count"]
    /\ UNCHANGED <<events, rows, archives, ghosts, batches, clock, cutoff, bounds>>

-----------------------------------------------------------------------------
Age ==
    /\ cutoff < clock
    /\ cutoff' = cutoff + 1
    /\ UNCHANGED <<events, rows, archives, thread, ghosts, batches, clock, bounds>>

\* The process is killed, and restores the events from their rows.
Restart ==
    /\ crashes < MaxCrashes
    /\ events' = rows
    /\ thread' = [t \in Threads |-> Idle]
    /\ crashes' = crashes + 1
    /\ UNCHANGED <<rows, archives, ghosts, batches, clock, cutoff, requests>>

Write(t) ==
    \/ \E p \in Payloads, alone \in BOOLEAN : Request(t, p, alone)
    \/ Count(t) \/ Record(t) \/ StoreOne(t) \/ StoreFails(t)

Pass(t) == Begin(t) \/ Copy(t) \/ Upsert(t) \/ Break(t) \/ Reply(t)

Prune(t) ==
    \/ Select(t) \/ Archive(t) \/ ArchiveFails(t) \/ Pop(t) \/ Popped(t)
    \/ Delete(t) \/ Deleted(t)

Next == (\E t \in Threads : Write(t) \/ Pass(t) \/ Prune(t)) \/ Age \/ Restart

Spec == Init /\ [][Next]_vars

-----------------------------------------------------------------------------
(* Properties                                                                *)

\* The trail keeps the promise of AuditPromise: a row leaves the store only
\* after an archive has its event, and a command is answered only when its
\* event is in the store or in an archive, whatever overlaps and fails, as long
\* as events were not both added and removed during its pass.
Promise == INSTANCE AuditPromise WITH kept <- IdsOf(rows), archived <- IdsOf(archives)

PromiseKept == Promise!Spec

\* The event of an answered command is in the store or in an archive for ever;
\* after a shifted pass (persist_approval_state over a dictionary that
\* archive-prune and record change) it is at least in memory, until a restart.
ToldKept ==
    /\ told \subseteq IdsOf(rows) \cup IdsOf(archives)
    /\ crashes = 0 => loose \subseteq IdsOf(events) \cup IdsOf(rows) \cup IdsOf(archives)

\* Pruning takes out every expired event, and of the others the oldest and no
\* more than are above max_events.
PrunesNoMore ==
    [][\A t \in Threads :
         At(t, "idle") /\ thread'[t].pc = "archive" =>
            LET kept == events \ thread'[t].chosen IN
            /\ \A e \in kept : e.born >= cutoff
            /\ \A e \in thread'[t].chosen, f \in kept : e.born < f.born
            /\ Cardinality(kept) <= MaxKept
            /\ (\E e \in thread'[t].chosen : e.born >= cutoff) => Cardinality(kept) = MaxKept]_vars

-----------------------------------------------------------------------------
(* Why the properties hold                                                   *)

\* The ids that survive a crash, and those the process holds or has archived.
Safe == IdsOf(rows) \cup IdsOf(archives)
Held == IdsOf(events) \cup IdsOf(archives)

\* What a thread recorded is in memory until an archive has it.
OwnHeld ==
    \A t \in Threads : At(t, "begin") \/ InPass(t) => Id(thread[t].own) \in Held

\* What a pass has visited is safe, but for the event it is about to store.
SeenSafe ==
    \A t \in Threads :
        /\ ~InPass(t) => thread[t].seen = {}
        /\ At(t, "rows") => thread[t].seen \subseteq Safe
        /\ At(t, "upsert") => thread[t].seen \subseteq Safe \cup {Id(thread[t].item)}

\* Only archived events are taken out.
PrunedArchived ==
    \A t \in Threads : At(t, "pop") \/ At(t, "delete") =>
        thread[t].queue \subseteq thread[t].chosen /\ thread[t].chosen \subseteq archives

\* A thread has the event it is to store.
HasEvent ==
    \A t \in Threads :
        /\ At(t, "one") \/ At(t, "begin") \/ InPass(t) => thread[t].own # NoEvent
        /\ At(t, "upsert") => thread[t].item # NoEvent

TrailInv ==
    /\ IsFiniteSet(events) /\ IsFiniteSet(rows)
    /\ HasEvent /\ OwnHeld /\ SeenSafe /\ PrunedArchived /\ ToldKept
=============================================================================

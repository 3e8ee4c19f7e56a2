----------------------- MODULE DecisionCommandProofs -----------------------
(***************************************************************************)
(* Proofs about DecisionCommand for any number of threads, items, keys,    *)
(* calls and restarts.                                                     *)
(***************************************************************************)
EXTENDS DecisionCommand, TLAPS

LEMMA FreshType == Fresh \in State
BY DEF Fresh, State, Status

LEMMA IdleType == Idle \in Thread
BY CommandAssumption DEF Idle, Thread, Status

LEMMA InitType == Init => TypeOK
BY FreshType, IdleType, CommandAssumption DEF Init, TypeOK

\* An accepted command is carried out by a call.
Busy == \A t \in Threads : ~At(t, "idle") => thread[t].cmd \in Command /\ thread[t].call \in 1..MaxCalls

\* The item copied for the next upsert is an item.
Copied == \A t \in Threads : At(t, "upsert") => thread[t].item \in Items

\* The dictionary iterated over is the one of the collection being stored.
Marked ==
    \A t \in Threads :
        /\ At(t, "eventrows") => thread[t].mark \in SUBSET Call
        /\ At(t, "edgerows")  => thread[t].mark \in SUBSET Items

TypeInv == TypeOK /\ Busy /\ Copied /\ Marked

\* A thread that has stored an item's row goes on to the next item or to the feedback.
LEMMA RowDone ==
    ASSUME NEW r \in Thread, NEW label \in {"feedback", "items"}
    PROVE  [r EXCEPT !.item = NoItem, !.status = "pending", !.pc = label] \in Thread
<1>1. CASE label = "items"
  BY <1>1 DEF Thread, Status
<1>2. CASE label = "feedback"
  BY <1>2 DEF Thread, Status
<1> QED
  BY <1>1, <1>2

\* A thread that has read its item goes on to decide it or to record the command.
Past(r, status, label) == [r EXCEPT !.reply = status, !.pc = label]

LEMMA ReadDone ==
    \A r \in Thread, status \in Status, label \in {"audit", "apply", "write"} :
        /\ Past(r, status, label) \in Thread /\ Past(r, status, label).pc = label
        /\ Past(r, status, label).cmd = r.cmd /\ Past(r, status, label).call = r.call
<1> SUFFICES ASSUME NEW r \in Thread, NEW status \in Status, NEW label \in {"audit", "apply", "write"}
             PROVE  /\ Past(r, status, label) \in Thread /\ Past(r, status, label).pc = label
                    /\ Past(r, status, label).cmd = r.cmd /\ Past(r, status, label).call = r.call
  OBVIOUS
<1> DEFINE s == Past(r, status, label)
<1>1. s = [r EXCEPT !.reply = status, !.pc = label]
  BY DEF Past
<1>2. /\ s.pc = label /\ s.cmd = r.cmd /\ s.call = r.call /\ s.reply = status
      /\ s.queue = r.queue /\ s.item = r.item /\ s.status = r.status /\ s.mark = r.mark
  BY <1>1 DEF Thread
<1>3. s \in Thread
  <2>1. CASE label = "audit"
    BY <1>1, <2>1 DEF Thread
  <2>2. CASE label = "apply"
    BY <1>1, <2>2 DEF Thread
  <2>3. CASE label = "write"
    BY <1>1, <2>3 DEF Thread
  <2> QED
    BY <2>1, <2>2, <2>3
<1> QED
  BY <1>2, <1>3

LEMMA StepType == TypeInv /\ [Next]_vars => TypeInv'
<1> SUFFICES ASSUME TypeInv, [Next]_vars PROVE TypeInv'
  OBVIOUS
<1> USE CommandAssumption DEF TypeInv, TypeOK, Busy, Copied, Marked, At, Thread, Goto
<1>1. ASSUME NEW t \in Threads, NEW c \in Command, Replay(t, c) PROVE TypeInv'
  <2>1. told' \subseteq Reply
    BY <1>1 DEF Replay, Recorded, State
  <2> QED
    BY <1>1, <2>1 DEF Replay
<1>2. ASSUME NEW t \in Threads, NEW c \in Command, Accept(t, c) PROVE TypeInv'
  <2>1. calls + 1 \in 1..MaxCalls
    BY <1>2 DEF Accept
  <2> QED
    BY <1>2, <2>1 DEF Accept
<1>t. ASSUME NEW t \in Threads, NEW status \in Status, NEW label \in {"audit", "apply", "write"},
             thread' = [thread EXCEPT ![t].reply = status, ![t].pc = label],
             thread[t].pc = "read", UNCHANGED <<mem, disk, told, calls, mode, crashes>>
      PROVE TypeInv'
  <2> DEFINE next == Past(thread[t], status, label)
  <2>0. thread[t] \in Thread /\ thread \in [Threads -> Thread]
    OBVIOUS
  <2>c. thread[t].cmd \in Command /\ thread[t].call \in 1..MaxCalls
    BY <1>t
  <2> HIDE DEF Thread
  <2>1. thread' = [thread EXCEPT ![t] = next]
    BY <1>t DEF Past
  <2>2. next \in Thread /\ next.pc = label /\ next.cmd = thread[t].cmd /\ next.call = thread[t].call
    BY SMTT(30), <1>t, <2>0, ReadDone
  <2> HIDE DEF next
  <2>3. thread' \in [Threads -> Thread]
    BY <2>0, <2>1, <2>2
  <2> QED
    BY <1>t, <2>0, <2>c, <2>1, <2>2, <2>3
<1>3. ASSUME NEW t \in Threads, ReadDecided(t) PROVE TypeInv'
  <2> DEFINE status == mem.items[thread[t].cmd.item]
  <2>1. status \in Status
    BY <1>3 DEF ReadDecided, State, Command
  <2>2. /\ thread' = [thread EXCEPT ![t].reply = status, ![t].pc = "audit"]
        /\ thread[t].pc = "read" /\ UNCHANGED <<mem, disk, told, calls, mode, crashes>>
    BY <1>3, Zenon DEF ReadDecided
  <2> HIDE DEF status
  <2> QED
    BY <1>t, <2>1, <2>2
<1>4. ASSUME NEW t \in Threads, ReadPending(t) PROVE TypeInv'
  <2> DEFINE approve == thread[t].cmd.action = "approve"
             status == IF approve THEN "approved" ELSE "rejected"
             label == IF approve THEN "apply" ELSE "write"
  <2>1. status \in Status /\ label \in {"audit", "apply", "write"}
    BY DEF Status
  <2>2. /\ thread' = [thread EXCEPT ![t].reply = status, ![t].pc = label]
        /\ thread[t].pc = "read" /\ UNCHANGED <<mem, disk, told, calls, mode, crashes>>
    BY <1>4, Zenon DEF ReadPending
  <2> HIDE DEF status, label
  <2> QED
    BY <1>t, <2>1, <2>2
<1>5. ASSUME NEW t \in Threads, ApplyDelta(t) PROVE TypeInv'
  <2>1. mem' \in State
    BY SMTT(30), <1>5 DEF ApplyDelta, State, Command
  <2> QED
    BY <1>5, <2>1 DEF ApplyDelta
<1>6. ASSUME NEW t \in Threads, WriteItem(t) PROVE TypeInv'
  <2>1. mem' \in State
    <3> DEFINE c == thread[t].cmd
               n == thread[t].call
    <3>1. c \in Command /\ c.item \in Items /\ n \in 1..MaxCalls /\ thread[t].reply \in Status
      BY <1>6 DEF WriteItem, Command
    <3>2. mem.feedback \cup {<<c, n>>} \in SUBSET Call
      BY <3>1 DEF State, Call
    <3> QED
      BY <1>6, <3>1, <3>2 DEF WriteItem, State, CallOf
  <2> QED
    BY <1>6, <2>1 DEF WriteItem
<1>7. ASSUME NEW t \in Threads, RecordAudit(t) PROVE TypeInv'
  <2>1. mem' \in State
    BY <1>7 DEF RecordAudit, State, CallOf, Call
  <2> QED
    BY <1>7, <2>1 DEF RecordAudit
<1>8. ASSUME NEW t \in Threads, CopyItem(t) PROVE TypeInv'
  <2>1. PICK i \in thread[t].queue :
            thread' = [thread EXCEPT ![t].item = i, ![t].status = mem.items[i],
                                     ![t].queue = @ \ {i}, ![t].pc = "upsert"]
    BY <1>8 DEF CopyItem
  <2>2. i \in Items /\ mem.items[i] \in Status
    BY <2>1 DEF State
  <2> DEFINE next == [thread[t] EXCEPT !.item = i, !.status = mem.items[i],
                                       !.queue = @ \ {i}, !.pc = "upsert"]
  <2>3. next \in Thread /\ next.pc = "upsert" /\ next.cmd = thread[t].cmd
        /\ next.call = thread[t].call /\ next.item = i
    BY <1>8, <2>2 DEF CopyItem
  <2>4. thread' = [thread EXCEPT ![t] = next]
    BY <2>1
  <2> HIDE DEF next
  <2> QED
    BY <1>8, <2>2, <2>3, <2>4 DEF CopyItem
<1>9. ASSUME NEW t \in Threads, UpsertItem(t) PROVE TypeInv'
  <2>1. disk' \in State
    BY <1>9 DEF UpsertItem, State
  <2> DEFINE label == IF thread[t].queue = {} THEN "feedback" ELSE "items"
  <2>2. label \in {"feedback", "items"}
    OBVIOUS
  <2>3. thread' = [thread EXCEPT ![t].item = NoItem, ![t].status = "pending", ![t].pc = label]
    BY <1>9 DEF UpsertItem
  <2>4. "pending" \in Status
    BY DEF Status
  <2> HIDE DEF label
  <2>5. thread' \in [Threads -> Thread]
    <3>0. thread[t] \in Thread
      OBVIOUS
    <3> DEFINE next == [thread[t] EXCEPT !.item = NoItem, !.status = "pending", !.pc = label]
    <3>1. thread' = [thread EXCEPT ![t] = next]
      BY <2>3
    <3> HIDE DEF Thread
    <3>2. next \in Thread
      BY <2>2, <3>0, RowDone
    <3> HIDE DEF next
    <3> QED
      BY <3>1, <3>2
  <2>6. UNCHANGED <<mem, told, calls, mode, crashes>> /\ thread[t].pc = "upsert"
    BY <1>9 DEF UpsertItem
  <2>7. TypeOK'
    BY <2>1, <2>5, <2>6
  <2> QED
    BY <2>2, <2>3, <2>6, <2>7
<1>10. ASSUME NEW t \in Threads, UpsertFeedback(t) PROVE TypeInv'
  <2>1. disk' \in State
    BY <1>10 DEF UpsertFeedback, State
  <2> QED
    BY <1>10, <2>1 DEF UpsertFeedback
<1>11. ASSUME NEW t \in Threads, BeginEvents(t) PROVE TypeInv'
  <2>1. mem.audit \in SUBSET Call
    BY DEF State
  <2> QED
    BY <1>11, <2>1 DEF BeginEvents
<1>12. ASSUME NEW t \in Threads, UpsertEvents(t) PROVE TypeInv'
  <2>1. disk' \in State
    BY <1>12 DEF UpsertEvents, State
  <2> QED
    BY <1>12, <2>1 DEF UpsertEvents
<1>13. ASSUME NEW t \in Threads, EventsChanged(t) PROVE TypeInv'
  <2>1. disk' \in State
    BY <1>13 DEF EventsChanged, State
  <2> QED
    BY <1>13, <2>1, IdleType DEF EventsChanged, Idle
<1>14. ASSUME NEW t \in Threads, BeginEdges(t) PROVE TypeInv'
  <2>1. mem.edges \in SUBSET Items
    BY DEF State
  <2> QED
    BY <1>14, <2>1 DEF BeginEdges
<1>15. ASSUME NEW t \in Threads, UpsertEdges(t) PROVE TypeInv'
  <2>1. disk' \in State
    BY <1>15 DEF UpsertEdges, State
  <2> QED
    BY <1>15, <2>1 DEF UpsertEdges
<1>16. ASSUME NEW t \in Threads, EdgesChanged(t) PROVE TypeInv'
  <2>1. disk' \in State
    BY <1>16 DEF EdgesChanged, State
  <2> QED
    BY <1>16, <2>1, IdleType DEF EdgesChanged, Idle
<1>17. ASSUME NEW t \in Threads, RememberReply(t) PROVE TypeInv'
  <2>1. mem' \in State
    BY <1>17 DEF RememberReply, Remembered, Answer, Reply, State
  <2> QED
    BY <1>17, <2>1 DEF RememberReply
<1>18. ASSUME NEW t \in Threads, RecordReply(t) PROVE TypeInv'
  <2>1. disk' \in State
    BY <1>18 DEF RecordReply, Remembered, Answer, Reply, State
  <2>2. told' \subseteq Reply
    BY <1>18 DEF RecordReply, Answer, Reply
  <2> QED
    BY <1>18, <2>1, <2>2, IdleType DEF RecordReply, Idle
<1>19. CASE Restart
  BY <1>19, IdleType DEF Restart, Restored, Idle
<1>20. CASE UNCHANGED vars
  BY <1>20 DEF vars
<1> QED
  BY <1>1, <1>2, <1>3, <1>4, <1>5, <1>6, <1>7, <1>8, <1>9, <1>10, <1>11, <1>12, <1>13,
     <1>14, <1>15, <1>16, <1>17, <1>18, <1>19, <1>20 DEF Next, Decide, Persist

LEMMA TypeInvariant == Spec => []TypeInv
<1>1. Init => TypeInv
  BY InitType DEF Init, TypeInv, Busy, Copied, Marked, At, Idle
<1> QED
  BY <1>1, StepType, PTL DEF Spec

\* What the process and the store hold keeps its shape, through overlapping
\* passes of persist_approval_state and restarts.
THEOREM TypeCorrect == Spec => []TypeOK
<1>1. TypeInv => TypeOK
  BY DEF TypeInv
<1> QED
  BY <1>1, TypeInvariant, PTL

-----------------------------------------------------------------------------
(* The audit trail                                                           *)

\* Where a thread stands once its audit event is in memory, and once it is stored.
Noted == {"items", "upsert", "feedback", "events", "eventrows", "edges", "edgerows",
          "remember", "record"}
Stored == {"edges", "edgerows", "remember", "record"}

NotedInMemory == \A t \in Threads : thread[t].pc \in Noted => CallOf(t) \in mem.audit
NotedInMark   == \A t \in Threads : At(t, "eventrows") => CallOf(t) \in thread[t].mark
NotedInStore  == \A t \in Threads : thread[t].pc \in Stored => CallOf(t) \in disk.audit

\* A reply is remembered, stored and sent only after its event was stored.
RepliesAudited == \A r \in mem.replies \cup disk.replies \cup told : Audited(r.command)

AuditInv == NotedInMemory /\ NotedInMark /\ NotedInStore /\ RepliesAudited

LEMMA StepAudit == TypeInv /\ AuditInv /\ [Next]_vars => AuditInv'
<1> SUFFICES ASSUME TypeInv, AuditInv, [Next]_vars PROVE AuditInv'
  OBVIOUS
<1> USE DEF AuditInv, NotedInMemory, NotedInMark, NotedInStore, RepliesAudited, Noted, Stored,
            TypeInv, TypeOK, At, Thread, Goto, CallOf, Audited
<1>1. ASSUME NEW t \in Threads, NEW c \in Command, Replay(t, c) PROVE AuditInv'
  BY <1>1 DEF Replay, Recorded
<1>2. ASSUME NEW t \in Threads, NEW c \in Command, Accept(t, c) PROVE AuditInv'
  <2>1. /\ thread'[t].pc = "read" /\ UNCHANGED <<mem, disk, told>>
        /\ \A u \in Threads : u # t => thread'[u] = thread[u]
    BY <1>2 DEF Accept
  <2> QED
    BY <2>1
<1>3. ASSUME NEW t \in Threads, ReadDecided(t) PROVE AuditInv'
  <2>1. /\ thread'[t].pc = "audit" /\ UNCHANGED <<mem, disk, told>>
        /\ \A u \in Threads : u # t => thread'[u] = thread[u]
    BY <1>3 DEF ReadDecided
  <2> QED
    BY <2>1
<1>4. ASSUME NEW t \in Threads, ReadPending(t) PROVE AuditInv'
  BY <1>4 DEF ReadPending
<1>5. ASSUME NEW t \in Threads, ApplyDelta(t) PROVE AuditInv'
  BY <1>5 DEF ApplyDelta, State
<1>6. ASSUME NEW t \in Threads, WriteItem(t) PROVE AuditInv'
  <2>1. /\ thread'[t].pc = "audit" /\ UNCHANGED <<disk, told>>
        /\ \A u \in Threads : u # t => thread'[u] = thread[u]
    BY <1>6 DEF WriteItem
  <2>2. mem'.audit = mem.audit /\ mem'.replies = mem.replies
    BY <1>6 DEF WriteItem, State
  <2> QED
    BY <2>1, <2>2
<1>7. ASSUME NEW t \in Threads, RecordAudit(t) PROVE AuditInv'
  BY <1>7 DEF RecordAudit, State
<1>8. ASSUME NEW t \in Threads, CopyItem(t) PROVE AuditInv'
  BY <1>8 DEF CopyItem
<1>9. ASSUME NEW t \in Threads, UpsertItem(t) PROVE AuditInv'
  BY <1>9 DEF UpsertItem, State
<1>10. ASSUME NEW t \in Threads, UpsertFeedback(t) PROVE AuditInv'
  <2>1. /\ thread[t].pc = "feedback" /\ thread'[t].pc = "events"
        /\ thread'[t].cmd = thread[t].cmd /\ thread'[t].call = thread[t].call
        /\ \A u \in Threads : u # t => thread'[u] = thread[u]
        /\ UNCHANGED <<mem, told>>
    BY <1>10 DEF UpsertFeedback
  <2>2. disk'.audit = disk.audit /\ disk'.replies = disk.replies
    BY <1>10 DEF UpsertFeedback, State
  <2> QED
    BY <2>1, <2>2
<1>11. ASSUME NEW t \in Threads, BeginEvents(t) PROVE AuditInv'
  BY <1>11 DEF BeginEvents
<1>12. ASSUME NEW t \in Threads, UpsertEvents(t) PROVE AuditInv'
  <2>1. /\ thread[t].pc = "eventrows" /\ thread'[t].pc = "edges"
        /\ thread'[t].cmd = thread[t].cmd /\ thread'[t].call = thread[t].call
        /\ \A u \in Threads : u # t => thread'[u] = thread[u]
        /\ UNCHANGED <<mem, told>>
    BY <1>12 DEF UpsertEvents
  <2>2. disk'.audit = disk.audit \cup thread[t].mark /\ disk'.replies = disk.replies
    BY <1>12 DEF UpsertEvents, State
  <2> QED
    BY <2>1, <2>2
<1>13. ASSUME NEW t \in Threads, EventsChanged(t) PROVE AuditInv'
  <2>1. disk.audit \subseteq disk'.audit /\ disk'.replies = disk.replies
    BY <1>13 DEF EventsChanged, State
  <2>2. UNCHANGED <<mem, told>> /\ thread' = [thread EXCEPT ![t] = Idle]
    BY <1>13 DEF EventsChanged
  <2>3. /\ thread'[t].pc = "idle"
        /\ \A u \in Threads : u # t => thread'[u] = thread[u]
    BY <2>2 DEF Idle
  <2>4. NotedInMemory' /\ NotedInMark' /\ NotedInStore'
    BY <2>1, <2>2, <2>3
  <2>5. RepliesAudited'
    BY <2>1, <2>2
  <2> QED
    BY <2>4, <2>5
<1>14. ASSUME NEW t \in Threads, BeginEdges(t) PROVE AuditInv'
  BY <1>14 DEF BeginEdges
<1>15. ASSUME NEW t \in Threads, UpsertEdges(t) PROVE AuditInv'
  BY <1>15 DEF UpsertEdges, State
<1>16. ASSUME NEW t \in Threads, EdgesChanged(t) PROVE AuditInv'
  <2>1. disk.audit \subseteq disk'.audit /\ disk'.replies = disk.replies
    BY <1>16 DEF EdgesChanged, State
  <2>2. UNCHANGED <<mem, told>> /\ thread' = [thread EXCEPT ![t] = Idle]
    BY <1>16 DEF EdgesChanged
  <2>3. /\ thread'[t].pc = "idle"
        /\ \A u \in Threads : u # t => thread'[u] = thread[u]
    BY <2>2 DEF Idle
  <2>4. NotedInMemory' /\ NotedInMark' /\ NotedInStore'
    BY <2>1, <2>2, <2>3
  <2>5. RepliesAudited'
    BY <2>1, <2>2
  <2> QED
    BY <2>4, <2>5
<1>17. ASSUME NEW t \in Threads, RememberReply(t) PROVE AuditInv'
  <2>1. Audited(Answer(t).command)
    BY <1>17 DEF RememberReply, Answer, Busy
  <2>2. /\ mem'.replies \subseteq mem.replies \cup {Answer(t)}
        /\ mem'.audit = mem.audit /\ UNCHANGED <<disk, told>>
    BY <1>17 DEF RememberReply, Remembered, State
  <2>3. RepliesAudited'
    BY <2>1, <2>2
  <2> QED
    BY <1>17, <2>2, <2>3 DEF RememberReply
<1>18. ASSUME NEW t \in Threads, RecordReply(t) PROVE AuditInv'
  <2>1. Audited(Answer(t).command)
    BY <1>18 DEF RecordReply, Answer, Busy
  <2>2. /\ disk'.replies \subseteq disk.replies \cup {Answer(t)}
        /\ told' = told \cup {Answer(t)}
        /\ disk'.audit = disk.audit /\ UNCHANGED mem
    BY <1>18 DEF RecordReply, Remembered, State
  <2>3. RepliesAudited'
    BY <2>1, <2>2
  <2> QED
    BY <1>18, <2>2, <2>3 DEF RecordReply, Idle
<1>19. CASE Restart
  BY <1>19 DEF Restart, Restored, Idle
<1>20. CASE UNCHANGED vars
  BY <1>20 DEF vars
<1> QED
  BY <1>1, <1>2, <1>3, <1>4, <1>5, <1>6, <1>7, <1>8, <1>9, <1>10, <1>11, <1>12, <1>13,
     <1>14, <1>15, <1>16, <1>17, <1>18, <1>19, <1>20 DEF Next, Decide, Persist

\* Whatever calls overlap, whichever of them fail and however often the process
\* is restarted: a client that got a reply finds the event of its command in the
\* store.
THEOREM AuditCorrect == Spec => []ToldIsAudited
<1>1. Init => AuditInv
  BY DEF Init, AuditInv, NotedInMemory, NotedInMark, NotedInStore, RepliesAudited, Noted,
         Stored, At, Idle, Fresh
<1>2. AuditInv => ToldIsAudited
  BY DEF AuditInv, RepliesAudited, ToldIsAudited, Audited
<1> QED
  BY <1>1, <1>2, StepAudit, TypeInvariant, PTL DEF Spec

-----------------------------------------------------------------------------
(* The approved edge                                                         *)

\* Where a thread stands once its item is decided.
Settled == Noted \cup {"audit"}

\* Until the first restart an item is approved in memory only with its edge, which
\* no request removes; a thread that is to confirm an approval finds it there.
EdgeInMemory ==
    /\ \A i \in Items : mem.items[i] = "approved" => i \in mem.edges
    /\ \A t \in Threads : thread[t].pc \in Settled \cup {"write"} /\ thread[t].reply = "approved"
                             => thread[t].cmd.item \in mem.edges

EdgeInMark ==
    \A t \in Threads : At(t, "edgerows") /\ thread[t].reply = "approved"
                          => thread[t].cmd.item \in thread[t].mark

EdgeInStore ==
    /\ \A t \in Threads : thread[t].pc \in {"remember", "record"} /\ thread[t].reply = "approved"
                             => thread[t].cmd.item \in disk.edges
    /\ \A r \in mem.replies \cup told : r.reply = "approved" => r.command.item \in disk.edges

EdgeInv == crashes = 0 => EdgeInMemory /\ EdgeInMark /\ EdgeInStore

LEMMA StepEdge == TypeInv /\ EdgeInv /\ [Next]_vars => EdgeInv'
<1> SUFFICES ASSUME TypeInv, EdgeInv, [Next]_vars, crashes' = 0
             PROVE  EdgeInMemory' /\ EdgeInMark' /\ EdgeInStore'
  BY DEF EdgeInv
<1> DEFINE Goal == EdgeInMemory' /\ EdgeInMark' /\ EdgeInStore'
<1>0. ASSUME crashes' = crashes PROVE crashes = 0 /\ EdgeInMemory /\ EdgeInMark /\ EdgeInStore
  BY <1>0 DEF EdgeInv
<1> USE DEF EdgeInMemory, EdgeInMark, EdgeInStore, Settled, Noted, TypeInv, TypeOK, At,
            Thread, Goto
<1>1. ASSUME NEW t \in Threads, NEW c \in Command, Replay(t, c) PROVE Goal
  BY <1>1, <1>0 DEF Replay, Recorded
<1>2. ASSUME NEW t \in Threads, NEW c \in Command, Accept(t, c) PROVE Goal
  BY <1>2, <1>0 DEF Accept
<1>3. ASSUME NEW t \in Threads, ReadDecided(t) PROVE Goal
  <2>1. thread[t].cmd.item \in Items
    BY <1>3 DEF ReadDecided, Busy, Command
  <2> QED
    BY ZenonT(30), <1>3, <1>0, <2>1 DEF ReadDecided
<1>4. ASSUME NEW t \in Threads, ReadPending(t) PROVE Goal
  BY <1>4, <1>0 DEF ReadPending
<1>5. ASSUME NEW t \in Threads, ApplyDelta(t) PROVE Goal
  BY <1>5, <1>0 DEF ApplyDelta, State
<1>6. ASSUME NEW t \in Threads, WriteItem(t) PROVE Goal
  BY <1>6, <1>0 DEF WriteItem, State
<1>7. ASSUME NEW t \in Threads, RecordAudit(t) PROVE Goal
  BY <1>7, <1>0 DEF RecordAudit, State
<1>8. ASSUME NEW t \in Threads, CopyItem(t) PROVE Goal
  <2>1. PICK i \in thread[t].queue :
            thread' = [thread EXCEPT ![t].item = i, ![t].status = mem.items[i],
                                     ![t].queue = @ \ {i}, ![t].pc = "upsert"]
    BY <1>8 DEF CopyItem
  <2>2. /\ thread[t].pc = "items" /\ thread'[t].pc = "upsert"
        /\ thread'[t].cmd = thread[t].cmd /\ thread'[t].reply = thread[t].reply
        /\ \A u \in Threads : u # t => thread'[u] = thread[u]
        /\ UNCHANGED <<mem, disk, told, crashes>>
    BY <1>8, <2>1 DEF CopyItem
  <2> QED
    BY <1>0, <2>2
<1>9. ASSUME NEW t \in Threads, UpsertItem(t) PROVE Goal
  BY <1>9, <1>0 DEF UpsertItem, State
<1>10. ASSUME NEW t \in Threads, UpsertFeedback(t) PROVE Goal
  BY <1>10, <1>0 DEF UpsertFeedback, State
<1>11. ASSUME NEW t \in Threads, BeginEvents(t) PROVE Goal
  BY <1>11, <1>0 DEF BeginEvents
<1>12. ASSUME NEW t \in Threads, UpsertEvents(t) PROVE Goal
  BY <1>12, <1>0 DEF UpsertEvents, State
<1>i. ASSUME NEW t \in Threads, thread' = [thread EXCEPT ![t] = Idle],
             disk.edges \subseteq disk'.edges, UNCHANGED <<mem, told, crashes>>
      PROVE  Goal
  <2>1. /\ thread'[t].pc = "idle"
        /\ \A u \in Threads : u # t => thread'[u] = thread[u]
    BY <1>i DEF Idle
  <2> QED
    BY <1>i, <1>0, <2>1
<1>13. ASSUME NEW t \in Threads, EventsChanged(t) PROVE Goal
  <2>1. disk.edges \subseteq disk'.edges
    BY <1>13 DEF EventsChanged, State
  <2> QED
    BY <1>13, <1>i, <2>1 DEF EventsChanged
<1>14. ASSUME NEW t \in Threads, BeginEdges(t) PROVE Goal
  BY <1>14, <1>0 DEF BeginEdges
<1>15. ASSUME NEW t \in Threads, UpsertEdges(t) PROVE Goal
  BY <1>15, <1>0 DEF UpsertEdges, State
<1>16. ASSUME NEW t \in Threads, EdgesChanged(t) PROVE Goal
  <2>1. disk.edges \subseteq disk'.edges
    BY <1>16 DEF EdgesChanged, State
  <2> QED
    BY <1>16, <1>i, <2>1 DEF EdgesChanged
<1>17. ASSUME NEW t \in Threads, RememberReply(t) PROVE Goal
  <2>1. /\ mem'.replies \subseteq mem.replies \cup {Answer(t)}
        /\ mem'.items = mem.items /\ mem'.edges = mem.edges
        /\ UNCHANGED <<disk, told, crashes>>
    BY <1>17 DEF RememberReply, Remembered, State
  <2>2. Answer(t).reply = "approved" => Answer(t).command.item \in disk.edges
    BY <1>17, <1>0, <2>1 DEF RememberReply, Answer
  <2> QED
    BY <1>17, <1>0, <2>1, <2>2 DEF RememberReply
<1>18. ASSUME NEW t \in Threads, RecordReply(t) PROVE Goal
  <2>1. Answer(t).reply = "approved" => Answer(t).command.item \in disk.edges
    BY <1>18, <1>0 DEF RecordReply, Answer
  <2>2. disk'.edges = disk.edges /\ told' = told \cup {Answer(t)} /\ UNCHANGED <<mem, crashes>>
    BY <1>18 DEF RecordReply, State
  <2>3. /\ thread'[t].pc = "idle"
        /\ \A u \in Threads : u # t => thread'[u] = thread[u]
    BY <1>18 DEF RecordReply, Idle
  <2> QED
    BY <1>0, <2>1, <2>2, <2>3
<1>19. CASE Restart
  BY <1>19, CommandAssumption DEF Restart
<1>20. CASE UNCHANGED vars
  BY <1>20, <1>0 DEF vars
<1> QED
  BY <1>1, <1>2, <1>3, <1>4, <1>5, <1>6, <1>7, <1>8, <1>9, <1>10, <1>11, <1>12, <1>13,
     <1>14, <1>15, <1>16, <1>17, <1>18, <1>19, <1>20 DEF Next, Decide, Persist

\* Until the process is first restarted, an approval a client was told of has its
\* edge in the store: passes over the edges that break off, and other threads'
\* decisions between a read and a write, take no confirmed edge away
\* (ApprovalService.decide, then persist_approval_state, then the reply).
THEOREM EdgeCorrect == Spec => []ToldApprovalHasEdge
<1>1. Init => EdgeInv
  BY DEF Init, EdgeInv, EdgeInMemory, EdgeInMark, EdgeInStore, Settled, Noted, At, Idle, Fresh
<1>2. EdgeInv => ToldApprovalHasEdge
  BY DEF EdgeInv, EdgeInStore, ToldApprovalHasEdge
<1> QED
  BY <1>1, <1>2, StepEdge, TypeInvariant, PTL DEF Spec

-----------------------------------------------------------------------------
(* Commands one at a time                                                    *)

\* While no two commands were in progress at once, at most one thread has one.
OneAtATime == \A t, u \in Threads : ~At(t, "idle") /\ ~At(u, "idle") => t = u

\* What a thread read of its item is still so when it writes it ...
Deciding ==
    \A t \in Threads : thread[t].pc \in {"apply", "write"} =>
        mem.items[thread[t].cmd.item] = "pending" /\ thread[t].reply # "pending"

\* ... and the item has the status the thread will return.
Decided ==
    \A t \in Threads : thread[t].pc \in Settled =>
        thread[t].reply # "pending" /\ mem.items[thread[t].cmd.item] = thread[t].reply

\* Of the pass over the items: the row copied is the one in memory, and the rows
\* that differ from memory are those still to be visited.
CopyFresh == \A t \in Threads : At(t, "upsert") => thread[t].status = mem.items[thread[t].item]

Passed ==
    \A t \in Threads : thread[t].pc \in Noted => \A i \in Items :
        disk.items[i] # mem.items[i] =>
            /\ thread[t].pc \in {"items", "upsert"}
            /\ i \in thread[t].queue \/ (At(t, "upsert") /\ i = thread[t].item)

\* A recorded reply is the status of its item, in memory and in the store.
RepliesStand ==
    \A r \in mem.replies \cup disk.replies \cup told :
        /\ r.reply # "pending"
        /\ mem.items[r.command.item] = r.reply /\ disk.items[r.command.item] = r.reply

\* Feedback on an item is left once, when the item is decided; it reaches the store
\* after the item did.
FeedbackDecided ==
    /\ disk.feedback \subseteq mem.feedback
    /\ \A d \in mem.feedback : mem.items[d[1].item] # "pending"
    /\ \A d \in disk.feedback : disk.items[d[1].item] # "pending"
    /\ \A d, e \in mem.feedback : d[1].item = e[1].item => d = e

SerialFacts ==
    /\ OneAtATime /\ Deciding /\ Decided /\ CopyFresh /\ Passed
    /\ RepliesStand /\ FeedbackDecided

SerialInv == mode = "serial" => SerialFacts

\* A thread that has ended leaves nothing to show of the others.
LEMMA SerialEnd ==
    ASSUME TypeInv, NEW t \in Threads, thread' = [thread EXCEPT ![t] = Idle],
           SerialFacts, ~At(t, "idle")
    PROVE  OneAtATime' /\ Deciding' /\ Decided' /\ CopyFresh' /\ Passed'
<1>1. \A u \in Threads : u # t => thread[u].pc = "idle"
  BY DEF SerialFacts, OneAtATime, At
<1>2. \A u \in Threads : thread'[u] = IF u = t THEN Idle ELSE thread[u]
  BY DEF TypeInv, TypeOK
<1>3. \A u \in Threads : thread'[u].pc = "idle"
  BY <1>1, <1>2 DEF Idle
<1> QED
  BY <1>3 DEF OneAtATime, Deciding, Decided, CopyFresh, Passed, At, Settled, Noted

LEMMA StepSerial == TypeInv /\ SerialInv /\ [Next]_vars => SerialInv'
<1> SUFFICES ASSUME TypeInv, SerialInv, [Next]_vars, mode' = "serial"
             PROVE  SerialFacts'
  BY DEF SerialInv
<1>0. mode = "serial" /\ SerialFacts
  <2>1. ASSUME NEW t \in Threads, NEW c \in Command, Accept(t, c) PROVE mode = "serial"
    BY <2>1 DEF Accept
  <2>2. \/ mode' = mode \/ \E t \in Threads, c \in Command : Accept(t, c)
    BY DEF Next, Decide, Persist, Replay, ReadDecided, ReadPending, ApplyDelta, WriteItem,
           RecordAudit, CopyItem, UpsertItem, UpsertFeedback, BeginEvents, UpsertEvents,
           EventsChanged, BeginEdges, UpsertEdges, EdgesChanged, RememberReply, RecordReply,
           Restart, vars
  <2> QED
    BY <2>1, <2>2 DEF SerialInv
<1>i. ASSUME NEW t \in Threads, thread' = [thread EXCEPT ![t] = Idle], thread[t].pc # "idle"
      PROVE  OneAtATime' /\ Deciding' /\ Decided' /\ CopyFresh' /\ Passed'
  BY <1>0, <1>i, SerialEnd DEF At
<1> USE <1>0 DEF SerialFacts, OneAtATime, Deciding, Decided, CopyFresh, Passed, RepliesStand,
            FeedbackDecided, Settled, Noted, TypeInv, TypeOK, At, Thread, Goto
<1>1. ASSUME NEW t \in Threads, NEW c \in Command, Replay(t, c) PROVE SerialFacts'
  BY <1>1 DEF Replay, Recorded
<1>2. ASSUME NEW t \in Threads, NEW c \in Command, Accept(t, c) PROVE SerialFacts'
  <2>1. /\ thread[t].pc = "idle" /\ thread'[t].pc = "read" /\ UNCHANGED <<mem, disk, told>>
        /\ \A u \in Threads : u # t => thread'[u] = thread[u]
        /\ \A u \in Threads : thread[u].pc = "idle"
    BY <1>2 DEF Accept
  <2> QED
    BY <2>1
<1>3. ASSUME NEW t \in Threads, ReadDecided(t) PROVE SerialFacts'
  <2>1. /\ thread'[t].reply = mem.items[thread[t].cmd.item] /\ thread'[t].pc = "audit"
        /\ thread'[t].cmd = thread[t].cmd /\ thread[t].pc = "read"
        /\ mem.items[thread[t].cmd.item] # "pending"
        /\ \A u \in Threads : u # t => thread'[u] = thread[u]
        /\ UNCHANGED <<mem, disk, told>>
    BY <1>3 DEF ReadDecided
  <2> QED
    BY <2>1
<1>4. ASSUME NEW t \in Threads, ReadPending(t) PROVE SerialFacts'
  <2>1. /\ thread[t].pc = "read" /\ thread'[t].pc \in {"apply", "write"}
        /\ thread'[t].cmd = thread[t].cmd /\ thread'[t].reply \in {"approved", "rejected"}
        /\ mem.items[thread[t].cmd.item] = "pending"
        /\ \A u \in Threads : u # t => thread'[u] = thread[u]
        /\ UNCHANGED <<mem, disk, told>>
    BY <1>4 DEF ReadPending
  <2> QED
    BY <2>1
<1>5. ASSUME NEW t \in Threads, ApplyDelta(t) PROVE SerialFacts'
  <2>1. /\ thread[t].pc = "apply" /\ thread'[t].pc = "write"
        /\ thread'[t].cmd = thread[t].cmd /\ thread'[t].reply = thread[t].reply
        /\ \A u \in Threads : u # t => thread'[u] = thread[u]
        /\ UNCHANGED <<disk, told>>
    BY <1>5 DEF ApplyDelta
  <2>2. mem'.items = mem.items /\ mem'.feedback = mem.feedback /\ mem'.replies = mem.replies
    BY <1>5 DEF ApplyDelta, State
  <2> QED
    BY <2>1, <2>2
<1>6. ASSUME NEW t \in Threads, WriteItem(t) PROVE SerialFacts'
  <2> DEFINE i == thread[t].cmd.item
             s == thread[t].reply
  <2>1. /\ thread[t].pc = "write" /\ UNCHANGED <<disk, told>>
        /\ thread'[t].pc = "audit" /\ thread'[t].cmd = thread[t].cmd /\ thread'[t].reply = s
        /\ \A u \in Threads : u # t => thread'[u] = thread[u]
    BY <1>6 DEF WriteItem
  <2>2. i \in Items /\ mem.items[i] = "pending" /\ s # "pending"
    BY <2>1 DEF Busy, Command
  <2>3. /\ mem'.items = [mem.items EXCEPT ![i] = s]
        /\ mem'.feedback = mem.feedback \cup {CallOf(t)} /\ mem'.replies = mem.replies
        /\ mem.items \in [Items -> Status]
    BY <1>6 DEF WriteItem, State
  <2>4. /\ mem'.items[i] = s
        /\ \A j \in Items : j # i => mem'.items[j] = mem.items[j]
    BY <2>2, <2>3
  <2>5. \A u \in Threads : u # t => thread[u].pc = "idle"
    BY <2>1
  <2>6. OneAtATime' /\ Deciding' /\ Decided' /\ CopyFresh' /\ Passed'
    BY <2>1, <2>2, <2>4, <2>5
  <2>7. RepliesStand'
    <3>1. \A r \in mem.replies \cup disk.replies \cup told : r.command.item \in Items
      BY DEF State, Reply, Command
    <3> QED
      BY <2>1, <2>2, <2>3, <2>4, <3>1
  <2>8. FeedbackDecided'
    <3>1. \A d \in mem.feedback : d[1].item \in Items /\ d[1].item # i
      BY <2>2 DEF State, Call, Command
    <3>2. CallOf(t)[1].item = i
      BY DEF CallOf
    <3> QED
      BY <2>1, <2>2, <2>3, <2>4, <3>1, <3>2
  <2> QED
    BY <2>6, <2>7, <2>8
<1>7. ASSUME NEW t \in Threads, RecordAudit(t) PROVE SerialFacts'
  <2>1. /\ thread[t].pc = "audit" /\ thread'[t].pc = "items" /\ thread'[t].queue = Items
        /\ thread'[t].cmd = thread[t].cmd /\ thread'[t].reply = thread[t].reply
        /\ \A u \in Threads : u # t => thread'[u] = thread[u]
        /\ UNCHANGED <<disk, told>>
    BY <1>7 DEF RecordAudit
  <2>2. mem'.items = mem.items /\ mem'.feedback = mem.feedback /\ mem'.replies = mem.replies
    BY <1>7 DEF RecordAudit, State
  <2> QED
    BY <2>1, <2>2
<1>8. ASSUME NEW t \in Threads, CopyItem(t) PROVE SerialFacts'
  <2>1. PICK i \in thread[t].queue :
            thread' = [thread EXCEPT ![t].item = i, ![t].status = mem.items[i],
                                     ![t].queue = @ \ {i}, ![t].pc = "upsert"]
    BY <1>8 DEF CopyItem
  <2>2. /\ thread[t].pc = "items" /\ thread'[t].pc = "upsert"
        /\ thread'[t].item = i /\ thread'[t].status = mem.items[i]
        /\ thread'[t].queue = thread[t].queue \ {i}
        /\ thread'[t].cmd = thread[t].cmd /\ thread'[t].reply = thread[t].reply
        /\ \A u \in Threads : u # t => thread'[u] = thread[u]
        /\ UNCHANGED <<mem, disk, told>>
    BY <1>8, <2>1 DEF CopyItem
  <2> QED
    BY <2>2
<1>9. ASSUME NEW t \in Threads, UpsertItem(t) PROVE SerialFacts'
  <2>1. /\ thread[t].pc = "upsert" /\ thread'[t].pc \in {"items", "feedback"}
        /\ thread[t].queue # {} => thread'[t].pc = "items"
        /\ thread'[t].queue = thread[t].queue
        /\ thread'[t].cmd = thread[t].cmd /\ thread'[t].reply = thread[t].reply
        /\ \A u \in Threads : u # t => thread'[u] = thread[u]
        /\ UNCHANGED <<mem, told>>
    BY <1>9 DEF UpsertItem
  <2>2. /\ disk'.items = [disk.items EXCEPT ![thread[t].item] = thread[t].status]
        /\ disk'.feedback = disk.feedback /\ disk'.replies = disk.replies
        /\ disk.items \in [Items -> Status] /\ thread[t].status = mem.items[thread[t].item]
    BY <1>9 DEF UpsertItem, State
  <2>3. \A i \in Items : disk'.items[i] = IF i = thread[t].item THEN mem.items[i]
                                        ELSE disk.items[i]
    BY <2>2
  <2>4. OneAtATime' /\ Deciding' /\ Decided' /\ CopyFresh'
    BY <2>1
  <2>5. Passed'
    BY <2>1, <2>3
  <2>6. RepliesStand'
    <3>1. \A r \in mem.replies \cup disk.replies \cup told : r.command.item \in Items
      BY DEF State, Reply, Command
    <3> QED
      BY <2>1, <2>2, <2>3, <3>1
  <2>7. FeedbackDecided'
    <3>1. \A d \in mem.feedback : d[1].item \in Items
      BY DEF State, Call, Command
    <3> QED
      BY <2>1, <2>2, <2>3, <3>1
  <2> QED
    BY <2>4, <2>5, <2>6, <2>7
<1>10. ASSUME NEW t \in Threads, UpsertFeedback(t) PROVE SerialFacts'
  <2>1. /\ thread[t].pc = "feedback" /\ thread'[t].pc = "events"
        /\ thread'[t].cmd = thread[t].cmd /\ thread'[t].reply = thread[t].reply
        /\ \A u \in Threads : u # t => thread'[u] = thread[u]
        /\ UNCHANGED <<mem, told>>
    BY <1>10 DEF UpsertFeedback
  <2>2. /\ disk'.items = disk.items /\ disk'.replies = disk.replies
        /\ disk'.feedback = disk.feedback \cup mem.feedback
    BY <1>10 DEF UpsertFeedback, State
  <2>3. \A d \in mem.feedback : d[1].item \in Items
    BY DEF State, Call, Command
  <2>4. \A i \in Items : disk.items[i] = mem.items[i]
    BY <2>1
  <2> QED
    BY <2>1, <2>2, <2>3, <2>4
<1>11. ASSUME NEW t \in Threads, BeginEvents(t) PROVE SerialFacts'
  <2>1. /\ thread[t].pc = "events" /\ thread'[t].pc = "eventrows"
        /\ thread'[t].cmd = thread[t].cmd /\ thread'[t].reply = thread[t].reply
        /\ \A u \in Threads : u # t => thread'[u] = thread[u]
        /\ UNCHANGED <<mem, disk, told>>
    BY <1>11 DEF BeginEvents
  <2> QED
    BY <2>1
<1>12. ASSUME NEW t \in Threads, UpsertEvents(t) PROVE SerialFacts'
  <2>1. /\ thread[t].pc = "eventrows" /\ thread'[t].pc = "edges"
        /\ thread'[t].cmd = thread[t].cmd /\ thread'[t].reply = thread[t].reply
        /\ \A u \in Threads : u # t => thread'[u] = thread[u]
        /\ UNCHANGED <<mem, told>>
    BY <1>12 DEF UpsertEvents
  <2>2. disk'.items = disk.items /\ disk'.feedback = disk.feedback /\ disk'.replies = disk.replies
    BY <1>12 DEF UpsertEvents, State
  <2> QED
    BY <2>1, <2>2
<1>13. ASSUME NEW t \in Threads, EventsChanged(t) PROVE SerialFacts'
  <2>1. disk'.items = disk.items /\ disk'.replies = disk.replies /\ disk'.feedback = disk.feedback
    BY <1>13 DEF EventsChanged, State
  <2>2. OneAtATime' /\ Deciding' /\ Decided' /\ CopyFresh' /\ Passed'
    BY <1>13, <1>i DEF EventsChanged
  <2>3. UNCHANGED <<mem, told>>
    BY <1>13 DEF EventsChanged
  <2>4. RepliesStand' /\ FeedbackDecided'
    BY <2>1, <2>3
  <2> QED
    BY <2>2, <2>4
<1>14. ASSUME NEW t \in Threads, BeginEdges(t) PROVE SerialFacts'
  <2>1. /\ thread[t].pc = "edges" /\ thread'[t].pc = "edgerows"
        /\ thread'[t].cmd = thread[t].cmd /\ thread'[t].reply = thread[t].reply
        /\ \A u \in Threads : u # t => thread'[u] = thread[u]
        /\ UNCHANGED <<mem, disk, told>>
    BY <1>14 DEF BeginEdges
  <2> QED
    BY <2>1
<1>15. ASSUME NEW t \in Threads, UpsertEdges(t) PROVE SerialFacts'
  <2>1. /\ thread[t].pc = "edgerows" /\ thread'[t].pc = "remember"
        /\ thread'[t].cmd = thread[t].cmd /\ thread'[t].reply = thread[t].reply
        /\ \A u \in Threads : u # t => thread'[u] = thread[u]
        /\ UNCHANGED <<mem, told>>
    BY <1>15 DEF UpsertEdges
  <2>2. disk'.items = disk.items /\ disk'.feedback = disk.feedback /\ disk'.replies = disk.replies
    BY <1>15 DEF UpsertEdges, State
  <2> QED
    BY <2>1, <2>2
<1>16. ASSUME NEW t \in Threads, EdgesChanged(t) PROVE SerialFacts'
  <2>1. disk'.items = disk.items /\ disk'.replies = disk.replies /\ disk'.feedback = disk.feedback
    BY <1>16 DEF EdgesChanged, State
  <2>2. OneAtATime' /\ Deciding' /\ Decided' /\ CopyFresh' /\ Passed'
    BY <1>16, <1>i DEF EdgesChanged
  <2>3. UNCHANGED <<mem, told>>
    BY <1>16 DEF EdgesChanged
  <2>4. RepliesStand' /\ FeedbackDecided'
    BY <2>1, <2>3
  <2> QED
    BY <2>2, <2>4
<1>17. ASSUME NEW t \in Threads, RememberReply(t) PROVE SerialFacts'
  BY <1>17 DEF RememberReply, Remembered, Answer, State
<1>18. ASSUME NEW t \in Threads, RecordReply(t) PROVE SerialFacts'
  <2>1. OneAtATime' /\ Deciding' /\ Decided' /\ CopyFresh' /\ Passed'
    BY <1>18, <1>i DEF RecordReply
  <2>2. /\ disk'.replies \subseteq disk.replies \cup {Answer(t)} /\ told' = told \cup {Answer(t)}
        /\ disk'.items = disk.items /\ disk'.feedback = disk.feedback /\ mem' = mem
    BY <1>18 DEF RecordReply, Remembered, State
  <2>3. /\ Answer(t).reply # "pending"
        /\ mem.items[Answer(t).command.item] = Answer(t).reply
        /\ disk.items[Answer(t).command.item] = Answer(t).reply
    <3>1. thread[t].cmd.item \in Items
      BY <1>18 DEF RecordReply, Busy, Command
    <3> QED
      BY <1>18, <3>1 DEF RecordReply, Answer
  <2>4. RepliesStand' /\ FeedbackDecided'
    BY <2>2, <2>3
  <2> QED
    BY <2>1, <2>4
<1>19. CASE Restart
  BY <1>19 DEF Restart, Restored, Idle
<1>20. CASE UNCHANGED vars
  BY <1>20 DEF vars
<1> HIDE DEF SerialFacts, OneAtATime, Deciding, Decided, CopyFresh, Passed, RepliesStand,
             FeedbackDecided, Settled, Noted, TypeInv, TypeOK, At, Thread, Goto
<1> QED
  BY <1>1, <1>2, <1>3, <1>4, <1>5, <1>6, <1>7, <1>8, <1>9, <1>10, <1>11, <1>12, <1>13,
     <1>14, <1>15, <1>16, <1>17, <1>18, <1>19, <1>20 DEF Next, Decide, Persist

LEMMA SerialInvariant == Spec => []SerialInv
<1>1. Init => SerialInv
  BY DEF Init, SerialInv, SerialFacts, OneAtATime, Deciding, Decided, CopyFresh, Passed,
         RepliesStand, FeedbackDecided, Settled, Noted, At, Idle, Fresh
<1> QED
  BY <1>1, StepSerial, TypeInvariant, PTL DEF Spec

\* A confirmed decision survives: after any number of restarts, and whatever calls
\* followed, the stored item has the status the client was told, as long as calls did
\* not overlap (post_approval_decision with persist_approval_state).
THEOREM StoredCorrect == Spec => []ToldIsStored
<1>1. SerialInv => ToldIsStored
  BY DEF SerialInv, SerialFacts, RepliesStand, ToldIsStored
<1> QED
  BY <1>1, SerialInvariant, PTL

\* Sending a decision again decides at most once, also when the first attempt was cut
\* off by a restart anywhere between the write in memory and the reply.
THEOREM FeedbackCorrect == Spec => []OneFeedbackPerDecision
<1>1. SerialInv => OneFeedbackPerDecision
  BY DEF SerialInv, SerialFacts, FeedbackDecided, OneFeedbackPerDecision
<1> QED
  BY <1>1, SerialInvariant, PTL
=============================================================================

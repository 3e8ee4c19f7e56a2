-------------------------- MODULE AuditTrailProofs --------------------------
(***************************************************************************)
(* Proofs about AuditTrail for any number of threads, payloads, requests   *)
(* and restarts, and any retention policy.                                 *)
(***************************************************************************)
EXTENDS AuditTrail, FiniteSetTheorems, TLAPS

-----------------------------------------------------------------------------
(* Collections of events keyed by id                                         *)

LEMMA PutIds == \A E, e : IdsOf(Put(E, e)) = IdsOf(E) \cup {Id(e)}
BY Zenon DEF Put, IdsOf

LEMMA WithoutIds == \A E, e : IdsOf(Without(E, e)) = IdsOf(E) \ {Id(e)}
BY Zenon DEF Without, IdsOf

LEMMA UnionIds == \A E, F : IdsOf(E \cup F) = IdsOf(E) \cup IdsOf(F)
BY DEF IdsOf

LEMMA MonotoneIds == \A E, F : E \subseteq F => IdsOf(E) \subseteq IdsOf(F)
BY DEF IdsOf

LEMMA IdType == \A e \in Event : Id(e) \in EventId
BY DEF Id, Event, EventId

LEMMA PutFinite == \A E, e : IsFiniteSet(E) => IsFiniteSet(Put(E, e))
<1> SUFFICES ASSUME NEW E, NEW e, IsFiniteSet(E) PROVE IsFiniteSet(Put(E, e))
  OBVIOUS
<1>1. IsFiniteSet({f \in E : Id(f) # Id(e)})
  BY FS_Subset
<1>2. IsFiniteSet({e})
  BY FS_Singleton
<1> QED
  BY <1>1, <1>2, FS_Union DEF Put

LEMMA WithoutFinite == \A E, e : IsFiniteSet(E) => IsFiniteSet(Without(E, e))
BY FS_Subset DEF Without

-----------------------------------------------------------------------------
(* Types                                                                     *)

\* What the types of the collections rest on.
TypeInv == TypeOK /\ HasEvent /\ IsFiniteSet(events) /\ IsFiniteSet(rows)
              /\ PrunedArchived

LEMMA IdleType == Idle \in Thread
BY NullAssumption DEF Idle, Thread, Labels

LEMMA InitType == Init => TypeInv
<1> SUFFICES ASSUME Init PROVE TypeInv
  OBVIOUS
<1>1. IsFiniteSet({})
  BY FS_EmptySet
<1> QED
  BY <1>1, IdleType, AuditAssumption
  DEF Init, TypeInv, TypeOK, HasEvent, PrunedArchived, At, InPass, Idle

\* What a thread becomes that selects events, and one that has taken one out.
LEMMA Selected ==
    ASSUME NEW r \in Thread, NEW old \in SUBSET Event
    PROVE  LET s == [r EXCEPT !.chosen = old, !.pc = "archive"]
           IN  s \in Thread /\ s.pc = "archive" /\ s.seen = r.seen
BY DEF Thread, Labels

Taken(r, e) == [r EXCEPT !.queue = @ \ {e}]

LEMMA TakenOut ==
    \A r \in Thread : \A e :
        /\ Taken(r, e) \in Thread
        /\ Taken(r, e).pc = r.pc /\ Taken(r, e).own = r.own /\ Taken(r, e).item = r.item
        /\ Taken(r, e).chosen = r.chosen /\ Taken(r, e).queue \subseteq r.queue
BY DEF Thread, Taken

\* Every step keeps TypeInv.
LEMMA StepType == TypeInv /\ [Next]_vars => TypeInv'
<1> SUFFICES ASSUME TypeInv, [Next]_vars PROVE TypeInv'
  OBVIOUS
<1> USE DEF TypeInv, TypeOK, HasEvent, PrunedArchived, At, InPass, ghosts, bounds
<1>t. ASSUME NEW t \in Threads
      PROVE /\ thread[t] \in Thread
            /\ thread[t].own # NoEvent => thread[t].own \in Event
            /\ thread[t].item # NoEvent => thread[t].item \in Event
  BY <1>t DEF Thread
<1>c. Cardinality(events) \in Nat
  BY FS_CardinalityType
<1>l. ASSUME NEW t \in Threads, Leave(t),
             UNCHANGED <<events, archives, batches, clock, cutoff, bounds>>,
             rows' \subseteq Event, IsFiniteSet(rows'),
             told' \subseteq EventId, loose' \subseteq EventId
      PROVE TypeInv'
  BY <1>l, IdleType DEF Leave, Idle
<1>1. ASSUME NEW t \in Threads, NEW p \in Payloads, NEW alone \in BOOLEAN,
             Request(t, p, alone)
      PROVE TypeInv'
  BY <1>1, <1>t, AuditAssumption DEF Request, Thread, Labels
<1>2. ASSUME NEW t \in Threads, Count(t) PROVE TypeInv'
  BY <1>2, <1>t, <1>c DEF Count, Thread, Labels
<1>3. ASSUME NEW t \in Threads, Record(t) PROVE TypeInv'
  <2>1. Created(t) \in Event
    BY <1>t DEF Created, Thread, Event
  <2>2. events' \subseteq Event /\ IsFiniteSet(events')
    BY <1>3, <2>1, PutFinite DEF Record, Put
  <2> DEFINE own == Created(t)
  <2>3. own \in Event /\ own # NoEvent
    BY <2>1, NullAssumption
  <2> DEFINE fresh == New(own)
  <2>4. fresh \in BOOLEAN
    BY DEF New
  <2> DEFINE label == IF thread[t].alone THEN "one" ELSE "begin"
             mine == [thread[t] EXCEPT !.own = own, !.pc = label]
             other(u) == [thread[u] EXCEPT !.shifted = @ \/ (InPass(u) /\ fresh)]
  <2>5. thread' = [u \in Threads |-> IF u = t THEN mine ELSE other(u)]
    BY <1>3 DEF Record
  <2>l. label \in {"one", "begin"}
    OBVIOUS
  <2> HIDE DEF own, fresh, label
  <2>6. mine \in Thread /\ mine.pc = label /\ mine.own = own
    BY ZenonT(30), <2>3, <2>l, <1>t DEF Thread, Labels
  <2>7. ASSUME NEW u \in Threads
        PROVE /\ other(u) \in Thread
              /\ other(u).pc = thread[u].pc /\ other(u).own = thread[u].own
              /\ other(u).item = thread[u].item /\ other(u).queue = thread[u].queue
              /\ other(u).chosen = thread[u].chosen
    <3> DEFINE moved == thread[u].shifted \/ (InPass(u) /\ fresh)
    <3>1. moved \in BOOLEAN
      BY <2>4, <1>t DEF Thread
    <3> HIDE DEF moved
    <3>2. other(u) = [thread[u] EXCEPT !.shifted = moved]
      BY DEF moved
    <3> QED
      BY <3>1, <3>2, <1>t DEF Thread
  <2> HIDE DEF mine, other
  <2>8. thread' \in [Threads -> Thread]
    BY <2>5, <2>6, <2>7
  <2>a. UNCHANGED archives
    BY <1>3 DEF Record
  <2>9. HasEvent'
    BY <2>3, <2>5, <2>6, <2>7, <2>l
  <2>b. PrunedArchived'
    BY <2>a, <2>5, <2>6, <2>7, <2>l
  <2> QED
    BY <1>3, <2>2, <2>8, <2>9, <2>b DEF Record
<1>4. ASSUME NEW t \in Threads, StoreOne(t) PROVE TypeInv'
  <2>1. rows' \subseteq Event /\ IsFiniteSet(rows')
    BY <1>4, <1>t, PutFinite DEF StoreOne, Put
  <2> QED
    BY <1>4, <1>l, <2>1 DEF StoreOne
<1>5. ASSUME NEW t \in Threads, StoreFails(t) PROVE TypeInv'
  BY <1>5, <1>l DEF StoreFails
<1>6. ASSUME NEW t \in Threads, Begin(t) PROVE TypeInv'
  BY <1>6, <1>t, <1>c DEF Begin, Thread, Labels
<1>7. ASSUME NEW t \in Threads, Copy(t) PROVE TypeInv'
  <2>1. PICK e \in events :
           thread' = [thread EXCEPT ![t].item = e, ![t].seen = @ \cup {Id(e)},
                                    ![t].pc = "upsert"]
    BY <1>7 DEF Copy
  <2>2. e \in Event /\ e # NoEvent /\ Id(e) \in EventId
    BY NullAssumption, IdType
  <2> DEFINE id == Id(e)
  <2> HIDE DEF id
  <2>3. thread' = [thread EXCEPT ![t].item = e, ![t].seen = @ \cup {id}, ![t].pc = "upsert"]
    BY <2>1 DEF id
  <2>4. id \in EventId
    BY <2>2 DEF id
  <2> QED
    BY <1>7, <1>t, <2>2, <2>3, <2>4 DEF Copy, Thread, Labels
<1>8. ASSUME NEW t \in Threads, Upsert(t) PROVE TypeInv'
  <2>1. rows' \subseteq Event /\ IsFiniteSet(rows')
    BY <1>8, <1>t, PutFinite DEF Upsert, Put
  <2> QED
    BY <1>8, <1>t, <2>1 DEF Upsert, Thread, Labels
<1>9. ASSUME NEW t \in Threads, Break(t) PROVE TypeInv'
  BY <1>9, <1>l DEF Break
<1>10. ASSUME NEW t \in Threads, Reply(t) PROVE TypeInv'
  <2>1. Id(thread[t].own) \in EventId
    BY <1>10, <1>t, IdType DEF Reply
  <2> QED
    BY <1>10, <1>l, <2>1 DEF Reply
<1>11. ASSUME NEW t \in Threads, Select(t) PROVE TypeInv'
  <2> DEFINE old == Expired \cup Overflow
             mine == [thread[t] EXCEPT !.chosen = old, !.pc = "archive"]
  <2>1. old \subseteq Event
    BY DEF Expired, Overflow, Unexpired
  <2>a. requests < MaxRecords /\ requests' = requests + 1
    BY <1>11, Zenon DEF Select
  <2>b. requests' \in 0..MaxRecords
    BY <2>a, AuditAssumption
  <2>2. thread' = [thread EXCEPT ![t] = mine]
    BY <1>11 DEF Select
  <2> HIDE DEF old
  <2>3. mine \in Thread /\ mine.pc = "archive"
    BY <2>1, <1>t, Selected
  <2> HIDE DEF mine
  <2> QED
    BY ZenonT(30), <1>11, <2>b, <2>2, <2>3 DEF Select
<1>12. ASSUME NEW t \in Threads, Archive(t) PROVE TypeInv'
  <2>a. batches' = batches \/ batches' = batches + 1
    BY <1>12, Zenon DEF Archive
  <2>1. batches' \in Nat
    BY <2>a
  <2> DEFINE batch == IF thread[t].chosen = {} THEN 0 ELSE batches'
             mine == [thread[t] EXCEPT !.batch = batch, !.queue = thread[t].chosen,
                                       !.pc = "pop"]
  <2>2. batch \in Nat
    BY <2>1
  <2>3. thread' = [thread EXCEPT ![t] = mine]
    BY <1>12 DEF Archive
  <2> HIDE DEF batch
  <2>4. /\ mine \in Thread /\ mine.pc = "pop"
        /\ mine.queue = thread[t].chosen /\ mine.chosen = thread[t].chosen
    BY ZenonT(30), <1>t, <2>2 DEF Thread, Labels
  <2>5. archives' \subseteq Event
    BY <1>12, <1>t DEF Archive, Thread
  <2> HIDE DEF mine
  <2>6. HasEvent'
    BY <2>3, <2>4
  <2>7. PrunedArchived'
    <3>1. archives \subseteq archives' /\ thread[t].chosen \subseteq archives'
      BY <1>12, Zenon DEF Archive
    <3> QED
      BY <2>3, <2>4, <3>1
  <2>8. UNCHANGED <<events, rows, ghosts, clock, cutoff, bounds>>
    BY <1>12 DEF Archive
  <2> QED
    BY <2>1, <2>3, <2>4, <2>5, <2>6, <2>7, <2>8
<1>13. ASSUME NEW t \in Threads, ArchiveFails(t) PROVE TypeInv'
  BY <1>13, <1>l DEF ArchiveFails
<1>14. ASSUME NEW t \in Threads, Pop(t) PROVE TypeInv'
  <2>1. events' \subseteq Event /\ IsFiniteSet(events')
    BY <1>14, WithoutFinite DEF Pop, Without
  <2>2. PICK e : thread' = [thread EXCEPT ![t].queue = @ \ {e}]
    BY <1>14 DEF Pop
  <2> DEFINE mine == Taken(thread[t], e)
  <2>3. thread' = [thread EXCEPT ![t] = mine]
    BY <2>2 DEF Taken
  <2>4. /\ mine \in Thread /\ mine.pc = thread[t].pc /\ mine.own = thread[t].own
        /\ mine.item = thread[t].item /\ mine.chosen = thread[t].chosen
        /\ mine.queue \subseteq thread[t].queue
    BY <1>t, TakenOut
  <2>5. UNCHANGED <<rows, archives, ghosts, batches, clock, cutoff, bounds>>
    BY <1>14 DEF Pop
  <2> HIDE DEF mine
  <2> QED
    BY <2>1, <2>3, <2>4, <2>5
<1>15. ASSUME NEW t \in Threads, Popped(t) PROVE TypeInv'
  BY <1>15, <1>t DEF Popped, Thread, Labels
<1>16. ASSUME NEW t \in Threads, Delete(t) PROVE TypeInv'
  <2>1. rows' \subseteq Event /\ IsFiniteSet(rows')
    BY <1>16, WithoutFinite DEF Delete, Without
  <2>2. PICK e : thread' = [thread EXCEPT ![t].queue = @ \ {e}]
    BY <1>16 DEF Delete
  <2> DEFINE mine == Taken(thread[t], e)
  <2>3. thread' = [thread EXCEPT ![t] = mine]
    BY <2>2 DEF Taken
  <2>4. /\ mine \in Thread /\ mine.pc = thread[t].pc /\ mine.own = thread[t].own
        /\ mine.item = thread[t].item /\ mine.chosen = thread[t].chosen
        /\ mine.queue \subseteq thread[t].queue
    BY <1>t, TakenOut
  <2>5. UNCHANGED <<events, archives, ghosts, batches, clock, cutoff, bounds>>
    BY <1>16 DEF Delete
  <2> HIDE DEF mine
  <2> QED
    BY <2>1, <2>3, <2>4, <2>5
<1>17. ASSUME NEW t \in Threads, Deleted(t) PROVE TypeInv'
  BY <1>17, <1>t DEF Deleted, Thread, Labels
<1>18. ASSUME Age PROVE TypeInv'
  BY <1>18 DEF Age
<1>19. ASSUME Restart PROVE TypeInv'
  BY <1>19, IdleType, AuditAssumption DEF Restart, Idle
<1>20. CASE UNCHANGED vars
  BY <1>20 DEF vars
<1> QED
  BY <1>1, <1>2, <1>3, <1>4, <1>5, <1>6, <1>7, <1>8, <1>9, <1>10, <1>11, <1>12, <1>13,
     <1>14, <1>15, <1>16, <1>17, <1>18, <1>19, <1>20
  DEF Next, Write, Pass, Prune

\* Every variable stays within its type.
THEOREM TypeCorrect == Spec => []TypeOK
<1>1. TypeInv => TypeOK
  BY DEF TypeInv
<1> QED
  BY InitType, StepType, <1>1, PTL DEF Spec
-----------------------------------------------------------------------------
(* The promise                                                               *)

LEMMA InitTrail == Init => TrailInv
<1> SUFFICES ASSUME Init PROVE TrailInv
  OBVIOUS
<1>1. TypeInv
  BY InitType
<1> QED
  BY <1>1
  DEF Init, TypeInv, TrailInv, OwnHeld, SeenSafe, ToldKept, At, InPass, Idle

\* What is safe stays safe, and what is held stays held but for a restart.
LEMMA Monotone ==
    ASSUME TypeInv, [Next]_vars
    PROVE  Safe \subseteq Safe' /\ archives \subseteq archives' /\ (Held \subseteq Held' \/ Restart)
<1> USE DEF TypeInv, PrunedArchived, At, Safe, Held, ghosts, bounds
<1>1. ASSUME NEW t \in Threads, Record(t) PROVE Held \subseteq Held' /\ UNCHANGED <<rows, archives>>
  BY <1>1, PutIds DEF Record
<1>2. ASSUME NEW t \in Threads, StoreOne(t) \/ Upsert(t)
      PROVE Safe \subseteq Safe' /\ UNCHANGED <<events, archives>>
  BY <1>2, PutIds DEF StoreOne, Upsert
<1>3. ASSUME NEW t \in Threads, Archive(t)
      PROVE archives \subseteq archives' /\ UNCHANGED <<events, rows>>
  BY <1>3, Zenon DEF Archive
<1>4. ASSUME NEW t \in Threads, Pop(t) PROVE Held \subseteq Held' /\ UNCHANGED <<rows, archives>>
  <2>1. PICK e \in thread[t].queue : events' = Without(events, e)
    BY <1>4 DEF Pop
  <2>2. Id(e) \in IdsOf(archives)
    BY <1>4 DEF Pop, IdsOf
  <2>3. UNCHANGED <<rows, archives>>
    BY <1>4 DEF Pop
  <2> QED
    BY <2>1, <2>2, <2>3, WithoutIds
<1>5. ASSUME NEW t \in Threads, Delete(t) PROVE Safe \subseteq Safe' /\ UNCHANGED <<events, archives>>
  <2>1. PICK e \in thread[t].queue : rows' = Without(rows, e)
    BY <1>5 DEF Delete
  <2>2. Id(e) \in IdsOf(archives)
    BY <1>5 DEF Delete, IdsOf
  <2>3. UNCHANGED <<events, archives>>
    BY <1>5 DEF Delete
  <2> QED
    BY <2>1, <2>2, <2>3, WithoutIds
<1>6. CASE Restart
  BY <1>6 DEF Restart
<1>7. CASE UNCHANGED <<events, rows, archives>>
  BY <1>7
<1>8. archives \subseteq archives' => IdsOf(archives) \subseteq IdsOf(archives)'
  BY MonotoneIds DEF IdsOf
<1> QED
  BY ZenonT(30), <1>1, <1>2, <1>3, <1>4, <1>5, <1>6, <1>7, <1>8
  DEF Next, Write, Pass, Prune, Request, Count, StoreFails, Begin, Copy, Break, Reply,
      Select, ArchiveFails, Popped, Deleted, Age, vars

\* What the invariants say of one thread.
Fine(r, safe, held) ==
    /\ r.pc \in {"begin", "rows", "upsert"} => Id(r.own) \in held
    /\ r.pc \notin {"rows", "upsert"} => r.seen = {}
    /\ r.pc = "rows" => r.seen \subseteq safe
    /\ r.pc = "upsert" => r.seen \subseteq safe \cup {Id(r.item)}

\* Every step leaves every thread fine.
LEMMA StepFine ==
    ASSUME TypeInv, TrailInv, [Next]_vars
    PROVE  \A t \in Threads : Fine(thread'[t], Safe', Held')
<1> DEFINE AllFine == \A u \in Threads : Fine(thread'[u], Safe', Held')
<1> SUFFICES AllFine
  OBVIOUS
<1>m. Safe \subseteq Safe' /\ archives \subseteq archives' /\ (Held \subseteq Held' \/ Restart)
  BY Monotone
<1>a. \A t \in Threads : thread[t] \in Thread
  BY DEF TypeInv, TypeOK
<1>d. DOMAIN thread = Threads /\ thread = [t \in Threads |-> thread[t]]
  BY DEF TypeInv, TypeOK
<1>f. \A t \in Threads : Fine(thread[t], Safe, Held)
  BY DEF TrailInv, OwnHeld, SeenSafe, Fine, At, InPass
<1>g. ASSUME Held \subseteq Held', NEW u \in Threads, NEW r,
             r.pc = thread[u].pc, r.own = thread[u].own, r.item = thread[u].item,
             r.seen = thread[u].seen
      PROVE  Fine(r, Safe', Held')
  BY <1>f, <1>g, <1>m DEF Fine
<1>i. Fine(Idle, Safe', Held')
  BY DEF Idle, Fine
<1>u. ASSUME Held \subseteq Held', NEW t \in Threads, NEW r,
             thread' = [thread EXCEPT ![t] = r], Fine(r, Safe', Held')
      PROVE  AllFine
  BY <1>d, <1>g, <1>u
<1>l. ASSUME Held \subseteq Held', NEW t \in Threads, Leave(t) PROVE AllFine
  BY <1>i, <1>l, <1>u DEF Leave
<1>r. CASE Restart
  BY <1>i, <1>r DEF Restart
<1> SUFFICES ASSUME Held \subseteq Held' PROVE AllFine
  BY <1>m, <1>r
<1> HIDE DEF AllFine
\* Steps that end or begin a request, and those of a prune.
<1>q. ASSUME NEW t \in Threads, NEW r \in Thread, thread' = [thread EXCEPT ![t] = r],
             ~InPass(t), r.seen = thread[t].seen,
             r.pc \notin {"begin", "rows", "upsert"}
      PROVE  AllFine
  BY <1>f, <1>q, <1>u DEF Fine, InPass
<1> USE DEF At, InPass
<1>1. ASSUME NEW t \in Threads, NEW p \in Payloads, NEW alone \in BOOLEAN,
             Request(t, p, alone)
      PROVE AllFine
  <2> DEFINE r == [thread[t] EXCEPT !.payload = p, !.alone = alone, !.pc = "count"]
  <2>1. r \in Thread /\ r.seen = thread[t].seen /\ r.pc = "count"
    BY ZenonT(30), <1>a DEF Thread, Labels
  <2>2. thread' = [thread EXCEPT ![t] = r] /\ thread[t].pc = "idle"
    BY <1>1 DEF Request
  <2> QED
    BY <2>1, <2>2, <1>q
<1>2. ASSUME NEW t \in Threads, Count(t) PROVE AllFine
  <2> DEFINE seq == Cardinality(events)
             r == [thread[t] EXCEPT !.seq = seq, !.pc = "record"]
  <2>0. seq \in Nat
    BY FS_CardinalityType DEF TypeInv
  <2>2. thread' = [thread EXCEPT ![t] = r] /\ thread[t].pc = "count"
    BY <1>2 DEF Count
  <2> HIDE DEF seq
  <2>1. r \in Thread /\ r.seen = thread[t].seen /\ r.pc = "record"
    BY ZenonT(30), <1>a, <2>0 DEF Thread, Labels
  <2> QED
    BY <2>1, <2>2, <1>q
<1>3. ASSUME NEW t \in Threads, Record(t) PROVE AllFine
  <2> DEFINE own == Created(t)
             fresh == New(own)
             label == IF thread[t].alone THEN "one" ELSE "begin"
             r == [thread[t] EXCEPT !.own = own, !.pc = label]
             other(u) == [thread[u] EXCEPT !.shifted = @ \/ (InPass(u) /\ fresh)]
  <2>1. thread' = [u \in Threads |-> IF u = t THEN r ELSE other(u)] /\ thread[t].pc = "record"
    BY <1>3 DEF Record
  <2>2. Id(own) \in Held'
    BY <1>3, PutIds DEF Record, Held
  <2>3. label \in {"one", "begin"}
    OBVIOUS
  <2> HIDE DEF own, fresh, label
  <2>4. r.pc = label /\ r.own = own /\ r.seen = thread[t].seen
    BY <1>a DEF Thread
  <2>5. ASSUME NEW u \in Threads
        PROVE /\ other(u).pc = thread[u].pc /\ other(u).own = thread[u].own
              /\ other(u).item = thread[u].item /\ other(u).seen = thread[u].seen
    BY <1>a DEF Thread
  <2>6. Fine(r, Safe', Held')
    BY <2>1, <2>2, <2>3, <2>4, <1>f DEF Fine
  <2>7. ASSUME NEW u \in Threads PROVE Fine(other(u), Safe', Held')
    BY <2>5, <1>g
  <2> HIDE DEF r, other
  <2> QED
    BY <2>1, <2>6, <2>7 DEF AllFine
<1>4. ASSUME NEW t \in Threads, StoreOne(t) \/ StoreFails(t) \/ Break(t) \/ Reply(t) \/ ArchiveFails(t)
      PROVE AllFine
  BY <1>4, <1>l DEF StoreOne, StoreFails, Break, Reply, ArchiveFails
<1>5. ASSUME NEW t \in Threads, Begin(t) PROVE AllFine
  <2> DEFINE mark == Cardinality(events)
             r == [thread[t] EXCEPT !.mark = mark, !.pc = "rows"]
  <2>1. thread' = [thread EXCEPT ![t] = r] /\ thread[t].pc = "begin"
    BY <1>5 DEF Begin
  <2> HIDE DEF mark
  <2>2. r.pc = "rows" /\ r.own = thread[t].own /\ r.seen = thread[t].seen
    BY <1>a DEF Thread
  <2>3. Fine(r, Safe', Held')
    BY <2>1, <2>2, <1>f DEF Fine
  <2> QED
    BY <2>1, <2>3, <1>u
<1>6. ASSUME NEW t \in Threads, Copy(t) PROVE AllFine
  <2>1. PICK e \in events :
           thread' = [thread EXCEPT ![t].item = e, ![t].seen = @ \cup {Id(e)},
                                    ![t].pc = "upsert"]
    BY <1>6 DEF Copy
  <2> DEFINE more == thread[t].seen \cup {Id(e)}
             r == [thread[t] EXCEPT !.item = e, !.seen = more, !.pc = "upsert"]
  <2>2. thread' = [thread EXCEPT ![t] = r] /\ thread[t].pc = "rows"
    BY <1>6, <2>1 DEF Copy
  <2>3. more \subseteq Safe' \cup {Id(e)}
    BY <2>2, <1>f, <1>m DEF Fine
  <2> HIDE DEF more
  <2>4. r.pc = "upsert" /\ r.own = thread[t].own /\ r.seen = more /\ r.item = e
    BY <1>a DEF Thread
  <2>5. Fine(r, Safe', Held')
    BY <2>2, <2>3, <2>4, <1>f DEF Fine
  <2> QED
    BY <2>2, <2>5, <1>u
<1>7. ASSUME NEW t \in Threads, Upsert(t) PROVE AllFine
  <2> DEFINE r == [thread[t] EXCEPT !.item = NoEvent, !.pc = "rows"]
  <2>1. thread' = [thread EXCEPT ![t] = r] /\ thread[t].pc = "upsert"
    BY <1>7 DEF Upsert
  <2>2. Id(thread[t].item) \in Safe'
    BY <1>7, PutIds DEF Upsert, Safe
  <2>3. r.pc = "rows" /\ r.own = thread[t].own /\ r.seen = thread[t].seen
    BY <1>a DEF Thread
  <2>4. Fine(r, Safe', Held')
    BY <2>1, <2>2, <2>3, <1>f, <1>m DEF Fine
  <2> QED
    BY <2>1, <2>4, <1>u
<1>8. ASSUME NEW t \in Threads, Select(t) PROVE AllFine
  <2> DEFINE old == Expired \cup Overflow
             r == [thread[t] EXCEPT !.chosen = old, !.pc = "archive"]
  <2>0. old \subseteq Event
    BY DEF Expired, Overflow, Unexpired, TypeInv, TypeOK
  <2>1. thread' = [thread EXCEPT ![t] = r] /\ thread[t].pc = "idle"
    BY <1>8 DEF Select
  <2> HIDE DEF old
  <2>2. r \in Thread /\ r.seen = thread[t].seen /\ r.pc = "archive"
    BY ZenonT(30), <1>a, <2>0 DEF Thread, Labels
  <2> QED
    BY <2>1, <2>2, <1>q
<1>9. ASSUME NEW t \in Threads, Archive(t) PROVE AllFine
  <2> DEFINE batch == IF thread[t].chosen = {} THEN 0 ELSE batches'
             r == [thread[t] EXCEPT !.batch = batch, !.queue = thread[t].chosen, !.pc = "pop"]
  <2>1. thread' = [thread EXCEPT ![t] = r] /\ thread[t].pc = "archive"
    BY <1>9 DEF Archive
  <2>2. batches' \in Nat
    BY StepType DEF TypeInv, TypeOK
  <2>3. batch \in Nat
    BY <2>2
  <2> HIDE DEF batch
  <2>4. r \in Thread /\ r.seen = thread[t].seen /\ r.pc = "pop"
    BY ZenonT(30), <1>a, <2>3 DEF Thread, Labels
  <2> QED
    BY <2>1, <2>4, <1>q
<1>10. ASSUME NEW t \in Threads, NEW queue \in SUBSET Event, NEW label \in {"pop", "delete"},
              thread' = [thread EXCEPT ![t].queue = queue, ![t].pc = label],
              thread[t].pc \in {"pop", "delete"}
       PROVE AllFine
  <2> DEFINE r == [thread[t] EXCEPT !.queue = queue, !.pc = label]
  <2>1. thread' = [thread EXCEPT ![t] = r]
    BY <1>10
  <2>2. r \in Thread /\ r.seen = thread[t].seen /\ r.pc = label
    BY ZenonT(30), <1>a, <1>10 DEF Thread, Labels
  <2> QED
    BY <2>1, <2>2, <1>q, <1>10
<1>11. ASSUME NEW t \in Threads, Pop(t) \/ Delete(t) PROVE AllFine
  <2>1. PICK e : thread' = [thread EXCEPT ![t].queue = @ \ {e}]
    BY <1>11 DEF Pop, Delete
  <2> DEFINE r == [thread[t] EXCEPT !.queue = @ \ {e}]
  <2>2. thread' = [thread EXCEPT ![t] = r] /\ thread[t].pc \in {"pop", "delete"}
    BY <1>11, <2>1 DEF Pop, Delete
  <2>3. r \in Thread /\ r.seen = thread[t].seen /\ r.pc = thread[t].pc
    BY <1>a DEF Thread
  <2> QED
    BY <2>2, <2>3, <1>q
<1>12. ASSUME NEW t \in Threads, Popped(t) PROVE AllFine
  <2>1. thread[t].chosen \in SUBSET Event
    BY <1>a DEF Thread
  <2> QED
    BY <1>10, <1>12, <2>1 DEF Popped
<1>13. ASSUME NEW t \in Threads, Deleted(t) PROVE AllFine
  <2> DEFINE r == [thread[t] EXCEPT !.payload = Pruned, !.alone = FALSE, !.chosen = {}, !.pc = "count"]
  <2>1. thread' = [thread EXCEPT ![t] = r] /\ thread[t].pc = "delete"
    BY <1>13 DEF Deleted
  <2>2. r \in Thread /\ r.seen = thread[t].seen /\ r.pc = "count"
    BY <1>a DEF Thread, Labels
  <2> QED
    BY <2>1, <2>2, <1>q
<1>14. CASE UNCHANGED thread
  BY <1>14, <1>g DEF AllFine
<1> QED
  BY <1>1, <1>2, <1>3, <1>4, <1>5, <1>6, <1>7, <1>8, <1>9, <1>11, <1>12, <1>13, <1>14, <1>r
  DEF Next, Write, Pass, Prune, Age, vars

\* A reply is sent only for an event that is safe, or after a shifted pass.
LEMMA ReplySafe ==
    ASSUME TypeInv, TrailInv, NEW t \in Threads, Reply(t)
    PROVE  /\ Id(thread[t].own) \in Held
           /\ ~thread[t].shifted => Id(thread[t].own) \in Safe
<1>1. Id(thread[t].own) \in Held /\ thread[t].seen \subseteq Safe
  BY DEF Reply, TrailInv, OwnHeld, SeenSafe, At, InPass
<1>2. ~thread[t].shifted => IdsOf(events) \subseteq thread[t].seen
  BY DEF Reply
<1> QED
  BY <1>1, <1>2 DEF Held, Safe

\* Every step keeps ToldKept.
LEMMA StepTold == TypeInv /\ TrailInv /\ [Next]_vars => ToldKept'
<1> SUFFICES ASSUME TypeInv, TrailInv, [Next]_vars PROVE ToldKept'
  OBVIOUS
<1>m. Safe \subseteq Safe' /\ archives \subseteq archives' /\ (Held \subseteq Held' \/ Restart)
  BY Monotone
<1>k. told \subseteq Safe /\ (crashes = 0 => loose \subseteq Held \cup Safe) /\ crashes \in Nat
  BY AuditAssumption DEF TrailInv, ToldKept, Safe, Held, TypeInv, TypeOK
<1> SUFFICES told' \subseteq Safe' /\ (crashes' = 0 => loose' \subseteq Held' \cup Safe')
  BY DEF ToldKept, Safe, Held
<1> USE DEF ghosts, bounds
<1>1. ASSUME NEW t \in Threads, Reply(t)
      PROVE  told' \subseteq Safe' /\ (crashes' = 0 => loose' \subseteq Held' \cup Safe')
  <2> DEFINE id == Id(thread[t].own)
  <2>1. /\ UNCHANGED <<events, rows, archives, crashes>>
        /\ thread[t].shifted => loose' = loose \cup {id} /\ told' = told
        /\ ~thread[t].shifted => told' = told \cup {id} /\ loose' = loose
    BY <1>1 DEF Reply
  <2>2. id \in Held /\ (~thread[t].shifted => id \in Safe)
    BY <1>1, ReplySafe
  <2>3. Safe' = Safe /\ Held' = Held
    BY <2>1 DEF Safe, Held, IdsOf
  <2> HIDE DEF id
  <2> QED
    BY <2>1, <2>2, <2>3, <1>k
<1>2. CASE Restart
  BY <1>2, <1>k, <1>m DEF Restart
<1>3. CASE UNCHANGED <<told, loose, crashes>> /\ ~Restart
  BY <1>3, <1>k, <1>m
<1> QED
  BY ZenonT(30), <1>1, <1>2, <1>3
  DEF Next, Write, Pass, Prune, Request, Count, Record, StoreOne, StoreFails, Begin, Copy,
      Upsert, Break, Select, Archive, ArchiveFails, Pop, Popped, Delete, Deleted, Age, vars

LEMMA StepTrail == TypeInv /\ TrailInv /\ [Next]_vars => TrailInv'
<1> SUFFICES ASSUME TypeInv, TrailInv, [Next]_vars PROVE TrailInv'
  OBVIOUS
<1>1. OwnHeld' /\ SeenSafe'
  BY StepFine DEF Fine, OwnHeld, SeenSafe, At, InPass
<1> QED
  BY <1>1, StepType, StepTold DEF TypeInv, TrailInv

\* Once a client was told that its command is done, the event is in the store or
\* in an archive for ever, through restarts and prunes; after a shifted pass it
\* is in memory at least, until a restart.
THEOREM ToldCorrect == Spec => []ToldKept
<1>1. TrailInv => ToldKept
  BY DEF TrailInv
<1> QED
  BY InitType, InitTrail, StepType, StepTrail, <1>1, PTL DEF Spec

\* Every step of the trail is one of the promise, or leaves it alone.
LEMMA StepPromise ==
    TypeInv /\ TrailInv /\ [Next]_vars => [Promise!Next]_(Promise!pvars)
<1> SUFFICES ASSUME TypeInv, TrailInv, [Next]_vars
             PROVE  [Promise!Next]_(Promise!pvars)
  OBVIOUS
<1> USE DEF Promise!Next, Promise!Keep, Promise!File, Promise!Drop, Promise!Tell,
            Promise!pvars, ghosts, bounds
<1>1. ASSUME NEW t \in Threads, StoreOne(t) \/ Upsert(t) PROVE Promise!Keep
  <2>1. PICK e : rows' = Put(rows, e)
    BY <1>1 DEF StoreOne, Upsert
  <2>2. UNCHANGED <<archives, told>>
    BY <1>1 DEF StoreOne, Upsert
  <2> QED
    BY <2>1, <2>2, PutIds
<1>2. ASSUME NEW t \in Threads, Archive(t) PROVE Promise!File
  <2>1. archives' = archives \cup thread[t].chosen /\ UNCHANGED <<rows, told>>
    BY <1>2, Zenon DEF Archive, ghosts
  <2> QED
    BY <2>1, UnionIds
<1>3. ASSUME NEW t \in Threads, Delete(t) PROVE Promise!Drop
  <2>1. PICK e \in thread[t].queue : rows' = Without(rows, e)
    BY <1>3 DEF Delete
  <2>2. Id(e) \in IdsOf(archives)
    BY <1>3 DEF Delete, IdsOf, TrailInv, TypeInv, PrunedArchived, At
  <2>3. UNCHANGED <<archives, told>>
    BY <1>3 DEF Delete
  <2> QED
    BY <2>1, <2>2, <2>3, WithoutIds
<1>4. ASSUME NEW t \in Threads, Reply(t) PROVE [Promise!Next]_(Promise!pvars)
  <2>1. CASE thread[t].shifted
    BY <1>4, <2>1 DEF Reply
  <2>2. CASE ~thread[t].shifted
    <3>1. Id(thread[t].own) \in Safe
      BY <1>4, <2>2, ReplySafe
    <3>2. told' = told \cup {Id(thread[t].own)} /\ UNCHANGED <<rows, archives>>
      BY <1>4, <2>2 DEF Reply
    <3>3. Promise!Tell
      BY <3>1, <3>2 DEF Safe
    <3> QED
      BY <3>3
  <2> QED
    BY <2>1, <2>2
<1>5. CASE UNCHANGED <<rows, archives, told>>
  BY <1>5
<1> QED
  BY ZenonT(30), <1>1, <1>2, <1>3, <1>4, <1>5
  DEF Next, Write, Pass, Prune, Request, Count, Record, StoreFails, Begin, Copy, Break,
      Select, ArchiveFails, Pop, Popped, Deleted, Age, Restart, vars

\* The trail implements AuditPromise: no row leaves the store before an archive
\* has its event, and no command is answered before its event is safe.
THEOREM PromiseCorrect == Spec => PromiseKept
<1>1. Init => Promise!Init
  BY DEF Init, Promise!Init, IdsOf
<1> QED
  BY InitType, InitTrail, StepType, StepTrail, StepPromise, <1>1, PTL
  DEF Spec, PromiseKept, Promise!Spec

-----------------------------------------------------------------------------
(* What a prune selects                                                      *)

\* The events of a collection created before e, and how many there are.
Before(U, e) == {f \in U : f.born < e.born}
Rank(U, e) == Cardinality(Before(U, e))

\* The events of a collection that are not among its oldest, those above m.
Newest(U, m) == {e \in U : Rank(U, e) + m >= Cardinality(U)}

\* Among events created one after the other, the ranks are 0, 1, 2, ... in the
\* order of creation.
LEMMA RankOrder ==
    ASSUME NEW U, IsFiniteSet(U), \A e \in U : e.born \in Nat,
           NEW e \in U, NEW f \in U, e.born < f.born
    PROVE  Rank(U, e) < Rank(U, f)
<1>1. Before(U, e) \subseteq Before(U, f)
  BY DEF Before
<1>2. e \in Before(U, f) /\ e \notin Before(U, e)
  BY DEF Before
<1>3. IsFiniteSet(Before(U, f))
  BY FS_Subset DEF Before
<1>4. /\ IsFiniteSet(Before(U, e))
      /\ Cardinality(Before(U, e)) <= Cardinality(Before(U, f))
      /\ Cardinality(Before(U, f)) # Cardinality(Before(U, e))
  BY <1>1, <1>2, <1>3, FS_Subset
<1>5. Cardinality(Before(U, e)) \in Nat /\ Cardinality(Before(U, f)) \in Nat
  BY <1>3, <1>4, FS_CardinalityType
<1> QED
  BY <1>4, <1>5 DEF Rank

LEMMA RankRange ==
    ASSUME NEW U, IsFiniteSet(U), NEW e \in U, \A f \in U : f.born \in Nat
    PROVE  Cardinality(U) \in Nat /\ Rank(U, e) \in 0..Cardinality(U) - 1
<1>1. Before(U, e) \subseteq U /\ e \notin Before(U, e)
  BY DEF Before
<1>2. /\ IsFiniteSet(Before(U, e))
      /\ Cardinality(Before(U, e)) <= Cardinality(U)
      /\ Cardinality(U) # Cardinality(Before(U, e))
  BY <1>1, FS_Subset
<1>3. Cardinality(Before(U, e)) \in Nat /\ Cardinality(U) \in Nat
  BY <1>2, FS_CardinalityType
<1> QED
  BY <1>2, <1>3 DEF Rank

\* So m of them are the newest m, unless there are fewer.
LEMMA NewestCount ==
    ASSUME NEW U, IsFiniteSet(U), \A e \in U : e.born \in Nat,
           \A e, f \in U : e.born = f.born => e = f,
           NEW m \in Nat
    PROVE  /\ Cardinality(Newest(U, m)) <= m
           /\ Cardinality(U) > m => Cardinality(Newest(U, m)) = m
<1> DEFINE n == Cardinality(U)
           r == [e \in U |-> Rank(U, e)]
           K == Newest(U, m)
<1>1. n \in Nat
  BY FS_CardinalityType
<1>2. \A e, f \in U : Rank(U, e) = Rank(U, f) => e = f
  <2> SUFFICES ASSUME NEW e \in U, NEW f \in U, e # f PROVE Rank(U, e) # Rank(U, f)
    OBVIOUS
  <2>1. Rank(U, e) \in Int /\ Rank(U, f) \in Int
    BY RankRange
  <2>2. e.born < f.born \/ f.born < e.born
    <3>1. e.born \in Nat /\ f.born \in Nat /\ e.born # f.born
      OBVIOUS
    <3> QED
      BY <3>1
  <2>3. CASE e.born < f.born
    BY <2>1, <2>3, RankOrder
  <2>4. CASE f.born < e.born
    BY <2>1, <2>4, RankOrder
  <2> QED
    BY <2>2, <2>3, <2>4
<1>3. \A e \in U : Rank(U, e) \in 0..n - 1
  BY RankRange
<1> HIDE DEF n
<1>4. r \in Injection(U, 0..n - 1)
  BY <1>2, <1>3, Zenon DEF Injection, IsInjective
<1>5. IsFiniteSet(0..n - 1) /\ Cardinality(0..n - 1) = n
  BY <1>1, FS_Interval
<1>6. r \in Surjection(U, 0..n - 1)
  BY <1>4, <1>5, FS_Injection DEF n
<1>7. K \subseteq U /\ IsFiniteSet(K)
  BY FS_Subset DEF Newest
<1>8. CASE n <= m
  <2>1. Cardinality(K) <= n /\ Cardinality(K) \in Nat
    BY <1>7, FS_Subset, FS_CardinalityType DEF n
  <2> QED
    BY <1>1, <1>8, <2>1 DEF n
<1>9. CASE n > m
  <2> DEFINE top == (n - m)..(n - 1)
             g == [e \in K |-> Rank(U, e)]
  <2>1. \A e \in U : e \in K <=> Rank(U, e) \in top
    BY <1>1, <1>3 DEF Newest, n
  <2>2. g \in [K -> top]
    BY <1>7, <2>1
  <2>3. \A i \in top : \E e \in K : g[e] = i
    <3> SUFFICES ASSUME NEW i \in top PROVE \E e \in K : g[e] = i
      OBVIOUS
    <3>1. i \in 0..n - 1
      BY <1>1, <1>9
    <3>2. PICK e \in U : r[e] = i
      BY <1>6, <3>1 DEF Surjection
    <3>3. e \in K
      BY <2>1, <3>2
    <3> QED
      BY <3>2, <3>3
  <2>4. \A e, f \in K : g[e] = g[f] => e = f
    BY <1>2, <1>7
  <2> HIDE DEF top, K
  <2>5. g \in Bijection(K, top)
    BY <2>2, <2>3, <2>4, Zenon DEF Bijection, Injection, Surjection, IsInjective
  <2>6. ExistsBijection(K, top)
    BY <2>5, Zenon DEF ExistsBijection
  <2>7. Cardinality(top) = Cardinality(K)
    BY <1>7, <2>6, FS_Bijection
  <2>8. Cardinality(top) = m
    BY <1>1, <1>9, FS_Interval DEF top
  <2> QED
    BY <2>7, <2>8 DEF K
<1> QED
  BY <1>1, <1>8, <1>9 DEF n

\* Every event the process or the store knows of, and those on their way.
Known ==
    {e \in events \cup rows \cup {thread[t].own : t \in Threads}
                  \cup {thread[t].item : t \in Threads} : e # NoEvent}

\* No two events were created at the same count, and none is from the future.
BornInv ==
    \A e, f \in Known : e.born < clock /\ (e.born = f.born => e = f)

LEMMA KnownTyped == TypeInv => Known \subseteq Event /\ clock \in Nat
BY DEF TypeInv, TypeOK, Known, Thread

\* A step knows no event it did not know before, but for the one it creates.
LEMMA KnownStep ==
    ASSUME TypeInv, [Next]_vars
    PROVE  \/ Known' \subseteq Known /\ clock' = clock
           \/ \E t \in Threads : /\ Created(t) \in Event
                                 /\ Known' \subseteq Known \cup {Created(t)}
                                 /\ clock' = clock + 1
<1>t. \A t \in Threads : thread[t] \in Thread
  BY DEF TypeInv, TypeOK
<1> DEFINE Same == Known' \subseteq Known /\ clock' = clock
\* A step after which no thread has another event than before, and the
\* collections have none that was not known.
<1>s. ASSUME events' \subseteq Known \cup {NoEvent}, rows' \subseteq Known \cup {NoEvent},
             \A u \in Threads :
                /\ thread'[u].own \in {thread[u].own, NoEvent}
                /\ thread'[u].item \in {thread[u].item, NoEvent},
             clock' = clock
      PROVE  Same
  BY <1>s DEF Known
<1>k. /\ events \subseteq Known \cup {NoEvent} /\ rows \subseteq Known \cup {NoEvent}
      /\ \A t \in Threads : thread[t].own \in Known \cup {NoEvent}
                            /\ thread[t].item \in Known \cup {NoEvent}
  BY DEF Known
<1>l. ASSUME NEW t \in Threads, Leave(t)
      PROVE  \A u \in Threads :
                /\ thread'[u].own \in {thread[u].own, NoEvent}
                /\ thread'[u].item \in {thread[u].item, NoEvent}
  BY <1>l DEF Leave, Idle, TypeInv, TypeOK
<1>1. ASSUME NEW t \in Threads, NEW p \in Payloads, NEW alone \in BOOLEAN,
             Request(t, p, alone)
      PROVE Same
  <2>1. \A u \in Threads : thread'[u].own = thread[u].own /\ thread'[u].item = thread[u].item
    BY <1>1, <1>t DEF Request, Thread, TypeInv, TypeOK
  <2> QED
    BY <1>1, <1>k, <1>s, <2>1 DEF Request
<1>2. ASSUME NEW t \in Threads, Count(t) PROVE Same
  <2>1. \A u \in Threads : thread'[u].own = thread[u].own /\ thread'[u].item = thread[u].item
    BY <1>2, <1>t DEF Count, Thread, TypeInv, TypeOK
  <2> QED
    BY <1>2, <1>k, <1>s, <2>1 DEF Count, bounds
<1>3. ASSUME NEW t \in Threads, Record(t)
      PROVE  /\ Created(t) \in Event
             /\ Known' \subseteq Known \cup {Created(t)}
             /\ clock' = clock + 1
  <2>1. Created(t) \in Event
    BY <1>t DEF Created, Thread, Event, TypeInv, TypeOK
  <2>2. events' \subseteq events \cup {Created(t)} /\ rows' = rows /\ clock' = clock + 1
    BY <1>3 DEF Record, Put
  <2> DEFINE own == Created(t)
             label == IF thread[t].alone THEN "one" ELSE "begin"
             mine == [thread[t] EXCEPT !.own = own, !.pc = label]
             other(u) == [thread[u] EXCEPT !.shifted = @ \/ (InPass(u) /\ New(own))]
  <2>3. thread' = [u \in Threads |-> IF u = t THEN mine ELSE other(u)]
    BY <1>3 DEF Record
  <2> HIDE DEF own, label
  <2>4. mine.own = own /\ mine.item = thread[t].item
    BY <1>t DEF Thread
  <2>5. \A u \in Threads : other(u).own = thread[u].own /\ other(u).item = thread[u].item
    BY <1>t DEF Thread
  <2> HIDE DEF mine, other
  <2>6. \A u \in Threads : /\ thread'[u].own \in {thread[u].own, own}
                           /\ thread'[u].item = thread[u].item
    BY <2>3, <2>4, <2>5
  <2> QED
    BY <2>1, <2>2, <2>6 DEF Known, own
<1>4. ASSUME NEW t \in Threads, StoreOne(t) PROVE Same
  <2>1. rows' \subseteq rows \cup {thread[t].own}
    BY <1>4 DEF StoreOne, Put
  <2> QED
    BY <1>4, <1>k, <1>l, <1>s, <2>1 DEF StoreOne
<1>5. ASSUME NEW t \in Threads, StoreFails(t) PROVE Same
  BY <1>5, <1>k, <1>l, <1>s DEF StoreFails
<1>6. ASSUME NEW t \in Threads, Begin(t) PROVE Same
  <2>1. \A u \in Threads : thread'[u].own = thread[u].own /\ thread'[u].item = thread[u].item
    BY <1>6, <1>t DEF Begin, Thread, TypeInv, TypeOK
  <2> QED
    BY <1>6, <1>k, <1>s, <2>1 DEF Begin
<1>7. ASSUME NEW t \in Threads, Copy(t) PROVE Same
  <2>1. PICK e \in events : thread' = [thread EXCEPT ![t].item = e,
                                         ![t].seen = @ \cup {Id(e)}, ![t].pc = "upsert"]
    BY <1>7 DEF Copy
  <2>2. \A u \in Threads : thread'[u].own = thread[u].own
                           /\ thread'[u].item \in {thread[u].item, e}
    BY <1>t, <2>1 DEF Thread, TypeInv, TypeOK
  <2> QED
    BY <1>7, <2>2 DEF Copy, Known
<1>8. ASSUME NEW t \in Threads, Upsert(t) PROVE Same
  <2>1. rows' \subseteq rows \cup {thread[t].item}
    BY <1>8 DEF Upsert, Put
  <2>2. \A u \in Threads : /\ thread'[u].own = thread[u].own
                           /\ thread'[u].item \in {thread[u].item, NoEvent}
    BY <1>8, <1>t DEF Upsert, Thread, TypeInv, TypeOK
  <2> QED
    BY <1>8, <1>k, <1>s, <2>1, <2>2 DEF Upsert
<1>9. ASSUME NEW t \in Threads, Break(t) \/ Reply(t) PROVE Same
  BY <1>9, <1>k, <1>l, <1>s DEF Break, Reply
<1>10. ASSUME NEW t \in Threads, Select(t) PROVE Same
  <2> PICK old : old = Expired \cup Overflow
    OBVIOUS
  <2>1. thread' = [thread EXCEPT ![t].chosen = old, ![t].pc = "archive"]
    BY <1>10 DEF Select
  <2>2. \A u \in Threads : thread'[u].own = thread[u].own /\ thread'[u].item = thread[u].item
    BY <1>t, <2>1 DEF Thread, TypeInv, TypeOK
  <2> QED
    BY <1>10, <1>k, <1>s, <2>2 DEF Select
<1>11. ASSUME NEW t \in Threads, Archive(t) PROVE Same
  <2> PICK b : b = IF thread[t].chosen = {} THEN 0 ELSE batches'
    OBVIOUS
  <2>1. thread' = [thread EXCEPT ![t].batch = b, ![t].queue = thread[t].chosen, ![t].pc = "pop"]
    BY <1>11 DEF Archive
  <2>2. \A u \in Threads : thread'[u].own = thread[u].own /\ thread'[u].item = thread[u].item
    BY <1>t, <2>1 DEF Thread, TypeInv, TypeOK
  <2> QED
    BY <1>11, <1>k, <1>s, <2>2 DEF Archive
<1>12. ASSUME NEW t \in Threads, ArchiveFails(t) PROVE Same
  BY <1>12, <1>k, <1>l, <1>s DEF ArchiveFails
<1>13. ASSUME NEW t \in Threads, Pop(t) PROVE Same
  <2>1. PICK e \in thread[t].queue :
           events' = Without(events, e) /\ thread' = [thread EXCEPT ![t].queue = @ \ {e}]
    BY <1>13 DEF Pop
  <2>2. \A u \in Threads : thread'[u].own = thread[u].own /\ thread'[u].item = thread[u].item
    BY <1>t, <2>1 DEF Thread, TypeInv, TypeOK
  <2>3. events' \subseteq events
    BY <2>1 DEF Without
  <2> QED
    BY <1>13, <1>k, <1>s, <2>2, <2>3 DEF Pop
<1>14. ASSUME NEW t \in Threads, Popped(t) \/ Deleted(t) PROVE Same
  <2>1. \A u \in Threads : thread'[u].own = thread[u].own /\ thread'[u].item = thread[u].item
    BY <1>14, <1>t DEF Popped, Deleted, Thread, TypeInv, TypeOK
  <2> QED
    BY <1>14, <1>k, <1>s, <2>1 DEF Popped, Deleted
<1>15. ASSUME NEW t \in Threads, Delete(t) PROVE Same
  <2>1. PICK e \in thread[t].queue :
           rows' = Without(rows, e) /\ thread' = [thread EXCEPT ![t].queue = @ \ {e}]
    BY <1>15 DEF Delete
  <2>2. \A u \in Threads : thread'[u].own = thread[u].own /\ thread'[u].item = thread[u].item
    BY <1>t, <2>1 DEF Thread, TypeInv, TypeOK
  <2>3. rows' \subseteq rows
    BY <2>1 DEF Without
  <2> QED
    BY <1>15, <1>k, <1>s, <2>2, <2>3 DEF Delete
<1>16. CASE Age
  BY <1>16, <1>k, <1>s DEF Age
<1>17. CASE Restart
  BY <1>17, <1>k, <1>s DEF Restart, Idle
<1>18. CASE UNCHANGED vars
  BY <1>18, <1>k, <1>s DEF vars
<1> HIDE DEF Same
<1>w. ASSUME NEW t \in Threads, Write(t) \/ Pass(t) \/ Prune(t)
      PROVE  Same \/ Record(t)
  BY <1>w, <1>1, <1>2, <1>4, <1>5, <1>6, <1>7, <1>8, <1>9, <1>10, <1>11, <1>12, <1>13, <1>14,
     <1>15 DEF Write, Pass, Prune
<1> QED
  BY <1>3, <1>16, <1>17, <1>18, <1>w DEF Next, Same

LEMMA StepBorn == TypeInv /\ BornInv /\ [Next]_vars => BornInv'
<1> SUFFICES ASSUME TypeInv, BornInv, [Next]_vars PROVE BornInv'
  OBVIOUS
<1>0. clock \in Nat /\ \A e \in Known : e.born \in Nat /\ e.born < clock
  BY KnownTyped DEF Event, BornInv
<1>1. CASE Known' \subseteq Known /\ clock' = clock
  BY <1>1 DEF BornInv
<1>2. ASSUME NEW t \in Threads, Known' \subseteq Known \cup {Created(t)}, clock' = clock + 1
      PROVE  BornInv'
  <2>1. Created(t).born = clock
    BY DEF Created
  <2> HIDE DEF Created
  <2>2. ASSUME NEW e \in Known' PROVE e.born < clock'
    BY <1>0, <1>2, <2>1, <2>2
  <2>3. ASSUME NEW e \in Known', NEW f \in Known', e.born = f.born PROVE e = f
    <3>1. CASE e \in Known /\ f \in Known
      BY <2>3, <3>1 DEF BornInv
    <3>2. CASE e \notin Known \/ f \notin Known
      BY <1>0, <1>2, <2>1, <2>3, <3>2
    <3> QED
      BY <3>1, <3>2
  <2> QED
    BY <2>2, <2>3 DEF BornInv
<1> QED
  BY <1>1, <1>2, KnownStep

\* What a prune leaves are the newest of the events that have not expired.
LEMMA KeptNewest ==
    ASSUME TypeInv
    PROVE  events \ (Expired \cup Overflow) = Newest(Unexpired, MaxKept)
<1>1. Unexpired \subseteq events /\ Expired \subseteq events /\ Expired \cap Unexpired = {}
      /\ events = Expired \cup Unexpired
  BY DEF Unexpired, Expired
<1>2. IsFiniteSet(Unexpired)
  BY <1>1, FS_Subset DEF TypeInv
<1>3. \A e \in Unexpired : e.born \in Nat
  BY <1>1 DEF TypeInv, TypeOK, Event
<1>4. MaxKept \in Nat
  BY AuditAssumption
<1>5. \A e \in Unexpired : Cardinality(Unexpired) \in Nat /\ Rank(Unexpired, e) \in Nat
  BY <1>2, <1>3, RankRange
<1>6. Overflow = {e \in Unexpired : Rank(Unexpired, e) + MaxKept < Cardinality(Unexpired)}
  BY DEF Overflow, Rank, Before
<1> HIDE DEF Unexpired, Expired
<1>7. \A e \in Unexpired :
         Rank(Unexpired, e) + MaxKept >= Cardinality(Unexpired)
           <=> ~(Rank(Unexpired, e) + MaxKept < Cardinality(Unexpired))
  BY <1>4, <1>5
<1> QED
  BY <1>1, <1>6, <1>7 DEF Newest

\* For any policy and whatever overlaps: a prune takes out every expired event,
\* and of the others the oldest, exactly as many as there are above max_events
\* (AuditService.archive_and_prune): no two events were created at the same
\* count, so their order is total.
THEOREM PruneCorrect == Spec => PrunesNoMore
<1> DEFINE Cut(t) ==
      At(t, "idle") /\ thread'[t].pc = "archive" =>
        LET kept == events \ thread'[t].chosen IN
        /\ \A e \in kept : e.born >= cutoff
        /\ \A e \in thread'[t].chosen, f \in kept : e.born < f.born
        /\ Cardinality(kept) <= MaxKept
        /\ (\E e \in thread'[t].chosen : e.born >= cutoff) => Cardinality(kept) = MaxKept
<1> DEFINE Cuts == \A t \in Threads : Cut(t)
<1>1. Init => TypeInv /\ BornInv
  BY InitType DEF Init, BornInv, Known, Idle
<1>2. TypeInv /\ BornInv /\ [Next]_vars => Cuts
  <2> SUFFICES ASSUME TypeInv, BornInv, [Next]_vars, NEW t \in Threads,
                      At(t, "idle"), thread'[t].pc = "archive"
               PROVE  Cut(t)
    BY Zenon
  <2>0. thread \in [Threads -> Thread] /\ events \subseteq Event /\ cutoff \in Nat
        /\ clock \in Nat /\ MaxKept \in Nat
    BY AuditAssumption DEF TypeInv, TypeOK
  <2>1. Select(t)
    <3>1. ASSUME NEW u \in Threads, Write(u) \/ Pass(u) \/ Prune(u), u # t
          PROVE  thread'[t].pc = thread[t].pc
      <4>1. CASE Record(u)
        <5> DEFINE fresh == New(Created(u))
        <5>1. thread'[t] = [thread[t] EXCEPT !.shifted = @ \/ (InPass(t) /\ fresh)]
          BY SMTT(30), <3>1, <4>1 DEF Record
        <5> HIDE DEF fresh
        <5> QED
          BY <2>0, <5>1 DEF Thread
      <4>2. CASE ~Record(u)
        BY <2>0, <3>1, <4>2 DEF Write, Pass, Prune, Request, Count, StoreOne, StoreFails, Begin,
           Copy, Upsert, Break, Reply, Select, Archive, ArchiveFails, Pop, Popped, Delete,
           Deleted, Leave
      <4> QED
        BY <4>1, <4>2
    <3>2. ASSUME Write(t) \/ Pass(t) \/ Prune(t)
          PROVE  Select(t)
      BY ZenonT(40), <2>0, <3>2 DEF Write, Pass, Prune, Request, Count, Record, StoreOne,
         StoreFails, Begin, Copy, Upsert, Break, Reply, Archive, ArchiveFails, Pop, Popped,
         Delete, Deleted, At, Thread
    <3>3. ~Age /\ ~Restart /\ ~UNCHANGED vars
      BY DEF Age, Restart, vars, At, Idle
    <3> QED
      BY <3>1, <3>2, <3>3 DEF Next, At
  <2>2. thread'[t].chosen = Expired \cup Overflow
    <3> PICK old : old = Expired \cup Overflow
      OBVIOUS
    <3>1. thread' = [thread EXCEPT ![t].chosen = old, ![t].pc = "archive"]
      BY <2>1 DEF Select
    <3> QED
      BY <2>0, <3>1 DEF Thread
  <2> DEFINE kept == events \ thread'[t].chosen
  <2>3. kept = Newest(Unexpired, MaxKept)
    BY <2>2, KeptNewest
  <2>4. /\ IsFiniteSet(Unexpired)
        /\ \A e \in Unexpired : e.born \in Nat /\ ~(e.born < cutoff)
        /\ \A e, f \in Unexpired : e.born = f.born => e = f
    <3>1. Unexpired \subseteq events /\ \A e \in Unexpired : ~(e.born < cutoff)
      BY DEF Unexpired, Expired
    <3>2. events \subseteq Known
      BY <2>0, NullAssumption DEF Known
    <3>3. IsFiniteSet(Unexpired)
      BY <3>1, FS_Subset DEF TypeInv
    <3> QED
      BY <2>0, <3>1, <3>2, <3>3 DEF BornInv, Event
  <2>5. \A e \in kept : e \in Unexpired /\ e.born >= cutoff
    BY <2>0, <2>3, <2>4 DEF Newest
  <2>6. \A e \in Unexpired : Rank(Unexpired, e) \in Nat /\ Cardinality(Unexpired) \in Nat
    BY <2>4, RankRange
  <2>7. \A e \in Overflow : /\ e \in Unexpired
                            /\ Rank(Unexpired, e) + MaxKept < Cardinality(Unexpired)
    BY DEF Overflow, Rank, Before
  <2>8. ASSUME NEW e \in thread'[t].chosen, NEW f \in kept
        PROVE  e.born < f.born
    <3>1. CASE e \in Expired
      <4>1. e.born \in Nat /\ e.born < cutoff
        BY <2>0, <3>1 DEF Expired, Event
      <4> QED
        BY <2>0, <2>4, <2>5, <4>1
    <3>2. CASE e \in Overflow
      <4>1. e \in Unexpired /\ Rank(Unexpired, e) + MaxKept < Cardinality(Unexpired)
        BY <2>7, <3>2
      <4>2. f \in Unexpired /\ Rank(Unexpired, f) + MaxKept >= Cardinality(Unexpired)
        BY <2>3 DEF Newest
      <4>3. Rank(Unexpired, e) < Rank(Unexpired, f)
        BY <2>0, <2>6, <4>1, <4>2
      <4>4. ~(f.born < e.born)
        <5> SUFFICES ASSUME f.born < e.born PROVE FALSE
          OBVIOUS
        <5>1. Rank(Unexpired, f) < Rank(Unexpired, e)
          BY <2>4, <4>1, <4>2, RankOrder
        <5> QED
          BY <2>6, <4>1, <4>2, <4>3, <5>1
      <4>5. e.born # f.born
        BY <2>4, <2>6, <4>1, <4>2, <4>3
      <4> QED
        BY <2>4, <4>1, <4>2, <4>4, <4>5
    <3> QED
      BY <2>2, <2>8, <3>1, <3>2
  <2>9. /\ Cardinality(kept) <= MaxKept
        /\ Cardinality(Unexpired) > MaxKept => Cardinality(kept) = MaxKept
    BY <2>0, <2>3, <2>4, NewestCount
  <2>10. ASSUME NEW e \in thread'[t].chosen, e.born >= cutoff
         PROVE  Cardinality(Unexpired) > MaxKept
    <3>1. e \in Overflow
      BY <2>0, <2>2, <2>10 DEF Expired, Event
    <3> QED
      BY <2>0, <2>6, <2>7, <3>1
  <2> HIDE DEF kept
  <2> QED
    BY <2>5, <2>8, <2>9, <2>10 DEF kept
<1>3. PrunesNoMore <=> [][Cuts]_vars
  BY DEF PrunesNoMore
<1> HIDE DEF Cuts
<1> QED
  BY <1>1, <1>2, <1>3, StepType, StepBorn, PTL DEF Spec
=============================================================================

-------------------------- MODULE PromotionProofs --------------------------
(* What holds of Promotion for any number of request threads, feedback       *)
(* events, registry items and restarts.                                      *)
EXTENDS Promotion, FiniteSetTheorems, TLAPS

(* A request writes a status when it is about a candidate, and has a target   *)
(* as long as it has not stored its record.                                  *)
Fitting ==
    \A t \in Threads :
        /\ thread[t].target \in Candidate => thread[t].value \in DOMAIN Order
        /\ thread[t].pc \in {"gate", "write", "upsert"} => thread[t].target \in Target

TypeInv == TypeOK /\ Fitting /\ IsFiniteSet(rows)

(* The values of Order, for the arithmetic on it. *)
LEMMA OrderValues ==
    /\ DOMAIN Order = {"draft", "review_ready", "canary", "active", "rolled_back"}
    /\ \A v \in DOMAIN Order : Order[v] \in 0..6
    /\ Order["draft"] = 0 /\ Order["rolled_back"] = 6
    /\ DOMAIN Order \subseteq Value
BY DEF Order, Value

(* Writing one record leaves a function on targets. *)
LEMMA WithRecords ==
    ASSUME NEW f, Records(f), NEW x \in Target,
           NEW v \in IF x \in Candidate THEN DOMAIN Order ELSE Value
    PROVE  /\ Records(With(f, x, v))
           /\ DOMAIN With(f, x, v) = DOMAIN f \cup {x}
           /\ With(f, x, v)[x] = v
           /\ \A y \in DOMAIN f : y # x => With(f, x, v)[y] = f[y]
BY DEF Records, With

LEMMA WithoutRecords ==
    ASSUME NEW f, Records(f), NEW x
    PROVE  /\ Records(Without(f, x))
           /\ DOMAIN Without(f, x) = DOMAIN f \ {x}
           /\ \A y \in DOMAIN f : y # x => Without(f, x)[y] = f[y]
BY DEF Records, Without

(* A request that begins is for a target, and moves its own thread only. *)
LEMMA BeginStep ==
    ASSUME TypeInv,
           NEW t \in Threads, NEW x \in Target, NEW v \in Value,
           NEW label \in {"gate", "write"}, Begin(t, x, v, label),
           x \in Candidate => v \in DOMAIN Order
    PROVE  /\ TypeInv'
           /\ thread'[t].pc = label /\ thread'[t].target = x /\ thread'[t].value = v
           /\ thread'[t].event = NoEvent
           /\ \A u \in Threads : u # t => thread'[u] = thread[u]
           /\ At(t, "idle")
<1>. USE DEF TypeInv, TypeOK, Begin, At
<1>1. thread' = [thread EXCEPT ![t] = Request(label, x, v, NoEvent)]
  OBVIOUS
<1>2. Request(label, x, v, NoEvent) \in Thread
  BY DEF Request, Thread
<1>3. /\ thread' \in [Threads -> Thread]
      /\ thread'[t] = Request(label, x, v, NoEvent)
      /\ \A u \in Threads : u # t => thread'[u] = thread[u]
  BY <1>1, <1>2
<1>4. Records(told')
  BY WithoutRecords
<1>5. raced' \subseteq Target
  OBVIOUS
<1>6. calls' \in 0..MaxCalls
  BY PromotionAssumption DEF PromotionAssumption
<1>7. Fitting'
  BY <1>3, PromotionAssumption DEF Fitting, Request, PromotionAssumption
<1>. QED BY <1>3, <1>4, <1>5, <1>6, <1>7 DEF Request
(* Every step of a request that has begun moves its own thread, to another   *)
(* label or to rest.                                                         *)
Moved(t, label) ==
    /\ thread' \in [Threads -> Thread]
    /\ thread'[t].pc = label
    /\ thread'[t].target = thread[t].target /\ thread'[t].value = thread[t].value
    /\ thread'[t].event = thread[t].event /\ thread'[t].row = thread[t].row
    /\ \A u \in Threads : u # t => thread'[u] = thread[u]

Rested(t) ==
    /\ thread' \in [Threads -> Thread]
    /\ thread'[t] = Idle
    /\ \A u \in Threads : u # t => thread'[u] = thread[u]

LEMMA IdleThread ==
    /\ Idle \in Thread
    /\ Idle.pc = "idle" /\ Idle.target = NoTarget /\ Idle.event = NoEvent
    /\ Idle.value = "draft" /\ NoTarget \notin Candidate
BY PromotionAssumption DEF Idle, Request, Thread, Value, Order, PromotionAssumption, Target

LEMMA GotoStep ==
    ASSUME TypeOK, NEW t \in Threads,
           NEW label \in {"idle", "gate", "write", "upsert", "rows", "reply"},
           Goto(t, label)
    PROVE  Moved(t, label)
BY DEF TypeOK, Goto, Moved, Thread

LEMMA RestStep ==
    ASSUME TypeOK, NEW t \in Threads,
           thread' = [thread EXCEPT ![t] = Idle]
    PROVE  Rested(t)
BY IdleThread DEF TypeOK, Rested

(* A move that does not go back or a rest keeps every thread's value fitting  *)
(* its target.                                                               *)
LEMMA FittingKept ==
    ASSUME TypeInv, NEW t \in Threads,
           \/ Rested(t) \/ Moved(t, "rows") \/ Moved(t, "reply")
           \/ /\ thread[t].pc \in {"gate", "write"}
              /\ Moved(t, "write") \/ Moved(t, "upsert")
    PROVE  Fitting'
<1>1. CASE Rested(t)
  BY <1>1, IdleThread DEF Rested, Fitting, TypeInv
<1>2. CASE Moved(t, "rows") \/ Moved(t, "reply")
  BY <1>2 DEF Moved, Fitting, TypeInv
<1>3. CASE thread[t].pc \in {"gate", "write"} /\ (Moved(t, "write") \/ Moved(t, "upsert"))
  BY <1>3 DEF Moved, Fitting, TypeInv
<1>. QED BY <1>1, <1>2, <1>3

(* The record a request writes is one its target can have. *)
LEMMA FittingRecord ==
    ASSUME TypeInv, NEW t \in Threads, thread[t].target \in Target
    PROVE  thread[t].value \in IF thread[t].target \in Candidate
                               THEN DOMAIN Order ELSE Value
BY DEF TypeInv, TypeOK, Fitting, Thread

(* A step keeps the shapes if what it changes keeps them. *)
LEMMA ShapesKept ==
    ASSUME TypeInv,
           feedback' = feedback \/ feedback' \in Seq(Inputs),
           rows' = rows \/ (rows' \subseteq Inputs /\ IsFiniteSet(rows')),
           heard' = heard \/ heard' \subseteq Inputs,
           book' = book \/ Records(book'),
           stored' = stored \/ Records(stored'),
           told' = told \/ Records(told'),
           thread' \in [Threads -> Thread], Fitting',
           raced' = raced, calls' = calls \/ calls' \in 0..MaxCalls, crashes' = crashes
    PROVE  TypeInv'
<1>1. Records(book') /\ Records(stored') /\ Records(told')
  BY DEF TypeInv, TypeOK
<1>2. IsFiniteSet(rows') /\ rows' \subseteq Inputs
  BY DEF TypeInv, TypeOK
<1>3. feedback' \in Seq(Inputs) /\ heard' \subseteq Inputs
  BY DEF TypeInv, TypeOK
<1>4. raced' \subseteq Target /\ calls' \in 0..MaxCalls /\ crashes' \in 0..MaxCrashes
  BY DEF TypeInv, TypeOK
<1>. QED BY <1>1, <1>2, <1>3, <1>4 DEF TypeInv, TypeOK

(* What a request does when it takes a target: the five requests as one. *)
LEMMA Begins ==
    ASSUME TypeInv, NEW t \in Threads,
           \/ ActivateImprovement(t) \/ RollbackImprovement(t)
           \/ ActivateRegistryItem(t) \/ RollbackRegistryItem(t) \/ Assign(t)
    PROVE  \E x \in Target, v \in Value, label \in {"gate", "write"} :
              /\ Begin(t, x, v, label)
              /\ x \in Candidate => v \in DOMAIN Order /\ Order[v] >= Order[StatusOf(x)]
<1>0. Order["rolled_back"] = 6 /\ \A x : x \in Candidate => Order[StatusOf(x)] \in 0..6
  BY OrderValues DEF StatusOf, TypeInv, TypeOK, Records
<1>1. CASE ActivateImprovement(t)
  <2>1. PICK c \in Candidates(feedback), target \in {"review_ready", "canary", "active"} :
            Forward(StatusOf(c), target) /\ Begin(t, c, target, "gate")
    BY <1>1 DEF ActivateImprovement
  <2>2. c \in Candidate /\ c \in Target
    BY DEF Candidates, Target
  <2>3. target \in DOMAIN Order /\ target \in Value
    BY OrderValues
  <2>. QED BY <2>1, <2>2, <2>3 DEF Forward
<1>2. CASE RollbackImprovement(t)
  <2>1. PICK c \in Candidates(feedback) : Begin(t, c, "rolled_back", "write")
    BY <1>2 DEF RollbackImprovement
  <2>2. c \in Candidate /\ c \in Target
    BY DEF Candidates, Target
  <2>3. "rolled_back" \in DOMAIN Order /\ "rolled_back" \in Value
    BY OrderValues
  <2>. QED BY <1>0, <2>1, <2>2, <2>3
<1>3. CASE ActivateRegistryItem(t)
  <2>1. PICK x \in Ready : Begin(t, x, "active", "write")
    BY <1>3 DEF ActivateRegistryItem
  <2>2. x \in Target /\ x \notin Candidate /\ "active" \in Value
    BY OrderValues, PromotionAssumption DEF Target, PromotionAssumption
  <2>. QED BY <2>1, <2>2
<1>4. CASE RollbackRegistryItem(t)
  <2>1. PICK x \in Models : Begin(t, x, "rolled_back", "write")
    BY <1>4 DEF RollbackRegistryItem
  <2>2. x \in Target /\ x \notin Candidate /\ "rolled_back" \in Value
    BY OrderValues, PromotionAssumption DEF Target, PromotionAssumption
  <2>. QED BY <2>1, <2>2
<1>5. CASE Assign(t)
  <2>1. PICK x \in Queues, v \in {"assigned", "cleared"} : Begin(t, x, v, "write")
    BY <1>5 DEF Assign
  <2>2. x \in Target /\ x \notin Candidate /\ v \in Value
    BY PromotionAssumption DEF Target, PromotionAssumption, Value
  <2>. QED BY <2>1, <2>2
<1>. QED BY <1>1, <1>2, <1>3, <1>4, <1>5

-----------------------------------------------------------------------------
(* Shapes                                                                    *)

LEMMA TypeInit == Init => TypeInv
<1>. SUFFICES ASSUME Init PROVE TypeInv
  OBVIOUS
<1>1. Records(None)
  BY DEF Records, None
<1>2. feedback \in Seq(Inputs)
  BY DEF Init
<1>3. thread \in [Threads -> Thread] /\ \A t \in Threads : thread[t] = Idle
  BY IdleThread DEF Init
<1>4. IsFiniteSet(rows) /\ rows \subseteq Inputs
  BY FS_EmptySet DEF Init
<1>. QED BY <1>1, <1>2, <1>3, <1>4, IdleThread, PromotionAssumption DEF Init, TypeInv, TypeOK, Fitting, PromotionAssumption

LEMMA TypeStep == TypeInv /\ [Next]_vars => TypeInv'
<1>. SUFFICES ASSUME TypeInv, [Next]_vars PROVE TypeInv'
  OBVIOUS
<1>1. CASE UNCHANGED vars
  BY <1>1 DEF vars, TypeInv, TypeOK, Records, Fitting
<1>2. CASE Restart
  <2>1. Cardinality(rows) \in Nat
    BY FS_CardinalityType DEF TypeInv
  <2>2. feedback' \in Seq(Inputs)
    BY <1>2, <2>1 DEF Restart, Listings, TypeInv, TypeOK
  <2>3. thread' \in [Threads -> Thread] /\ \A t \in Threads : thread'[t] = Idle
    BY <1>2, IdleThread DEF Restart
  <2>4. UNCHANGED <<rows, stored, told, heard, raced, calls>> /\ book' = stored
        /\ crashes' \in 0..MaxCrashes
    BY <1>2, PromotionAssumption DEF Restart, TypeInv, TypeOK, PromotionAssumption
  <2>. QED BY <2>2, <2>3, <2>4, IdleThread DEF TypeInv, TypeOK, Records, Fitting
<1>3. ASSUME NEW t \in Threads, Step(t) PROVE TypeInv'
  <2>1. CASE \/ ActivateImprovement(t) \/ RollbackImprovement(t)
             \/ ActivateRegistryItem(t) \/ RollbackRegistryItem(t) \/ Assign(t)
    BY <2>1, Begins, BeginStep
  <2>2. ASSUME NEW e \in Inputs, RecordFeedback(t, e) PROVE TypeInv'
    <3>1. Request("rows", NoTarget, "draft", e) \in Thread
      BY DEF Request, Thread, Value, Order
    <3>2. /\ thread' = [thread EXCEPT ![t] = Request("rows", NoTarget, "draft", e)]
          /\ feedback' = Append(feedback, e) /\ calls < MaxCalls /\ calls' = calls + 1
          /\ UNCHANGED <<rows, book, stored, told, heard, raced, crashes>>
      BY <2>2, Zenon DEF RecordFeedback
    <3>3. thread' \in [Threads -> Thread]
      BY <3>1, <3>2 DEF TypeInv, TypeOK
    <3>4. Fitting'
      BY <3>1, <3>2, IdleThread DEF TypeInv, TypeOK, Fitting, Request
    <3>5. feedback' \in Seq(Inputs) /\ calls' \in 0..MaxCalls
      BY <3>2, PromotionAssumption DEF TypeInv, TypeOK, PromotionAssumption
    <3>. QED BY <3>2, <3>3, <3>4, <3>5, ShapesKept
  <2>3. CASE RunGate(t)
    <3>1. At(t, "gate") /\ (Moved(t, "write") \/ Rested(t))
      BY <2>3, GotoStep, RestStep DEF RunGate, TypeInv
    <3>2. thread' \in [Threads -> Thread] /\ Fitting'
      BY <3>1, FittingKept DEF Moved, Rested, At
    <3>3. UNCHANGED <<feedback, rows, book, stored, told, heard, raced, calls, crashes>>
      BY <2>3, Zenon DEF RunGate
    <3>. QED BY <3>2, <3>3, ShapesKept
  <2>4. CASE WriteRecord(t)
    <3>1. At(t, "write") /\ Moved(t, "upsert")
      BY <2>4, GotoStep DEF WriteRecord, TypeInv
    <3>2. thread' \in [Threads -> Thread] /\ Fitting' /\ thread[t].target \in Target
      BY <3>1, FittingKept DEF Moved, At, Fitting, TypeInv
    <3>3. /\ book' = With(book, thread[t].target, thread[t].value)
          /\ UNCHANGED <<feedback, rows, stored, told, heard, raced, calls, crashes>>
      BY <2>4, Zenon DEF WriteRecord
    <3>4. Records(book')
      BY <3>2, <3>3, WithRecords, FittingRecord DEF TypeInv, TypeOK
    <3>. QED BY <3>2, <3>3, <3>4, ShapesKept
  <2>5. CASE StoreRecord(t)
    <3>1. At(t, "upsert") /\ (Moved(t, "reply") \/ Moved(t, "rows"))
      BY <2>5, GotoStep DEF StoreRecord, TypeInv
    <3>2. thread' \in [Threads -> Thread] /\ Fitting' /\ thread[t].target \in Target
      BY <3>1, FittingKept DEF Moved, At, Fitting, TypeInv
    <3>3. /\ stored' = With(stored, thread[t].target, thread[t].value)
          /\ UNCHANGED <<feedback, rows, book, told, heard, raced, calls, crashes>>
      BY <2>5, Zenon DEF StoreRecord
    <3>4. Records(stored')
      BY <3>2, <3>3, WithRecords, FittingRecord DEF TypeInv, TypeOK
    <3>. QED BY <3>2, <3>3, <3>4, ShapesKept
  <2>6. CASE StoreFeedback(t)
    <3>1. thread[t].row + 1 \in DOMAIN feedback
      BY <2>6 DEF StoreFeedback, TypeInv, TypeOK, Thread
    <3>2. feedback[thread[t].row + 1] \in Inputs
      BY <3>1 DEF TypeInv, TypeOK
    <3>3. rows' \subseteq Inputs /\ IsFiniteSet(rows')
      BY <2>6, <3>2, FS_Subset, FS_AddElement DEF StoreFeedback, TypeInv, TypeOK
    <3>4. /\ thread' = [thread EXCEPT ![t].row = @ + 1]
          /\ UNCHANGED <<feedback, book, stored, told, heard, raced, calls, crashes>>
      BY <2>6, Zenon DEF StoreFeedback
    <3>5. /\ thread' \in [Threads -> Thread]
          /\ \A u \in Threads : thread'[u].target = thread[u].target
                               /\ thread'[u].value = thread[u].value
                               /\ thread'[u].pc = thread[u].pc
      <4>1. thread \in [Threads -> Thread] /\ thread[t].row + 1 \in Nat
        BY DEF TypeInv, TypeOK, Thread
      <4>2. [thread[t] EXCEPT !.row = @ + 1] \in Thread
        BY <4>1 DEF Thread
      <4>. QED BY <3>4, <4>1, <4>2 DEF Thread
    <3>6. Fitting'
      BY <3>5 DEF Fitting, TypeInv
    <3>. QED BY <3>3, <3>4, <3>5, <3>6, ShapesKept
  <2>7. CASE EndOfFeedback(t)
    <3>1. Moved(t, "reply")
      BY <2>7, GotoStep DEF EndOfFeedback, TypeInv
    <3>2. thread' \in [Threads -> Thread] /\ Fitting'
      BY <3>1, FittingKept DEF Moved
    <3>3. UNCHANGED <<feedback, rows, book, stored, told, heard, raced, calls, crashes>>
      BY <2>7, Zenon DEF EndOfFeedback
    <3>. QED BY <3>2, <3>3, ShapesKept
  <2>8. CASE AnswerRecord(t)
    <3>1. Rested(t) /\ thread[t].target \in Target
      BY <2>8, RestStep DEF AnswerRecord, TypeInv, TypeOK, Thread
    <3>2. thread' \in [Threads -> Thread] /\ Fitting'
      BY <3>1, FittingKept DEF Rested
    <3>3. /\ told' = With(told, thread[t].target, thread[t].value)
          /\ UNCHANGED <<feedback, rows, book, stored, heard, raced, calls, crashes>>
      BY <2>8, Zenon DEF AnswerRecord
    <3>4. Records(told')
      BY <3>1, <3>3, WithRecords, FittingRecord DEF TypeInv, TypeOK
    <3>. QED BY <3>2, <3>3, <3>4, ShapesKept
  <2>9. CASE AnswerFeedback(t)
    <3>1. Rested(t)
      BY <2>9, RestStep DEF AnswerFeedback, TypeInv
    <3>2. thread' \in [Threads -> Thread] /\ Fitting'
      BY <3>1, FittingKept DEF Rested
    <3>3. heard' \subseteq Inputs
      BY <2>9 DEF AnswerFeedback, TypeInv, TypeOK, Thread
    <3>4. UNCHANGED <<feedback, rows, book, stored, told, raced, calls, crashes>>
      BY <2>9, Zenon DEF AnswerFeedback
    <3>. QED BY <3>2, <3>3, <3>4, ShapesKept
  <2>10. CASE Break(t)
    <3>1. Rested(t)
      BY <2>10, RestStep DEF Break, TypeInv
    <3>2. thread' \in [Threads -> Thread] /\ Fitting'
      BY <3>1, FittingKept DEF Rested
    <3>3. UNCHANGED <<feedback, rows, book, stored, told, heard, raced, calls, crashes>>
      BY <2>10, Zenon DEF Break
    <3>. QED BY <3>2, <3>3, ShapesKept
  <2>. QED BY <1>3, <2>1, <2>2, <2>3, <2>4, <2>5, <2>6, <2>7, <2>8, <2>9, <2>10 DEF Step
<1>. QED BY <1>1, <1>2, <1>3 DEF Next

(* Feedback, records and threads keep their shape for any number of threads, *)
(* events and restarts.                                                      *)
THEOREM TypeCorrect == Spec => []TypeOK
<1>1. Init => TypeInv
  BY TypeInit
<1>2. TypeInv /\ [Next]_vars => TypeInv'
  BY TypeStep
<1>3. TypeInv => TypeOK
  BY DEF TypeInv
<1>. QED BY <1>1, <1>2, <1>3, PTL DEF Spec

-----------------------------------------------------------------------------
(* What was confirmed of a target on which no two requests overlapped         *)

Alone(x) == \A t, u \in Threads : thread[t].target = x /\ thread[u].target = x => t = u

Says(f, x, v) == x \in DOMAIN f /\ f[x] = v
Reached(f, x, s) == x \in DOMAIN f /\ Order[f[x]] >= Order[s]

(* The request for x, if there is one: it does not take an improvement         *)
(* backwards, and what it has written stays until it is answered.             *)
Serving(x) ==
    \A t \in Threads : thread[t].target = x =>
        /\ x \in Candidate /\ thread[t].pc \in {"gate", "write"}
              => Order[thread[t].value] >= Order[StatusOf(x)]
        /\ thread[t].pc \in {"upsert", "rows", "reply"} => Says(book, x, thread[t].value)
        /\ thread[t].pc \in {"rows", "reply"} => Says(stored, x, thread[t].value)
        /\ x \notin Candidate => x \notin DOMAIN told

(* The store may be behind memory, where a request broke off, but neither is  *)
(* behind what was told.                                                     *)
Standing(x) ==
    /\ x \in Candidate =>
          /\ x \in DOMAIN stored => Reached(book, x, stored[x])
          /\ x \in DOMAIN told => Reached(book, x, told[x]) /\ Reached(stored, x, told[x])
    /\ x \notin Candidate /\ x \in DOMAIN told =>
          Says(book, x, told[x]) /\ Says(stored, x, told[x])

Sound(x) == Alone(x) /\ Serving(x) /\ Standing(x)

RecordInv == \A x \in Target \ raced : Sound(x)

Same(f, g, x) == (x \in DOMAIN g <=> x \in DOMAIN f) /\ (x \in DOMAIN f => g[x] = f[x])

(* A step that leaves the records of x alone, and after which its thread is   *)
(* not about x.                                                              *)
LEMMA Elsewhere ==
    ASSUME NEW x, Sound(x), NEW t \in Threads,
           Same(book, book', x), Same(stored, stored', x), Same(told, told', x),
           \A u \in Threads : u # t => thread'[u] = thread[u],
           thread'[t].target # x
    PROVE  Sound(x)'
BY DEF Sound, Alone, Serving, Standing, Says, Reached, Same, StatusOf

(* A request for x goes on without changing a record. *)
LEMMA Onward ==
    ASSUME NEW x, Sound(x), NEW t \in Threads, thread[t].target = x,
           UNCHANGED <<book, stored, told>>, NEW label, Moved(t, label),
           \/ thread[t].pc = "gate" /\ label = "write"
           \/ thread[t].pc = "rows" /\ label = "reply"
    PROVE  Sound(x)'
BY DEF Sound, Alone, Serving, Standing, Says, Reached, StatusOf, Moved

(* Statuses are compared as numbers. *)
LEMMA Statuses ==
    ASSUME TypeInv, NEW x \in Candidate
    PROVE  /\ x \in DOMAIN book => Order[book[x]] \in 0..6
           /\ x \in DOMAIN stored => Order[stored[x]] \in 0..6
           /\ x \in DOMAIN told => Order[told[x]] \in 0..6
           /\ Order[StatusOf(x)] \in 0..6
           /\ \A t \in Threads : thread[t].target = x => Order[thread[t].value] \in 0..6
BY OrderValues DEF TypeInv, TypeOK, Fitting, Records, StatusOf

(* What the record a request writes changes in the records. *)
LEMMA WithTarget ==
    ASSUME NEW t \in Threads, NEW f
    PROVE  LET g == With(f, thread[t].target, thread[t].value) IN
           /\ DOMAIN g = DOMAIN f \cup {thread[t].target}
           /\ g[thread[t].target] = thread[t].value
           /\ \A y \in DOMAIN f : y # thread[t].target => g[y] = f[y]
<1>. DEFINE x == thread[t].target
            v == thread[t].value
<1>. HIDE DEF x, v
<1>1. /\ DOMAIN With(f, x, v) = DOMAIN f \cup {x}
      /\ With(f, x, v)[x] = v
      /\ \A y \in DOMAIN f : y # x => With(f, x, v)[y] = f[y]
  BY DEF With
<1>. QED BY <1>1 DEF x, v

LEMMA StepRecord == TypeInv /\ RecordInv /\ [Next]_vars => RecordInv'
<1>. SUFFICES ASSUME TypeInv, RecordInv, [Next]_vars, NEW x \in Target, x \notin raced'
              PROVE  Sound(x)'
  BY DEF RecordInv
<1>0. x # NoTarget
  BY PromotionAssumption DEF PromotionAssumption
<1>1. CASE UNCHANGED vars
  BY <1>1 DEF vars, RecordInv, Sound, Alone, Serving, Standing, Says, Reached, StatusOf
<1>2. CASE Restart
  <2>1. /\ Sound(x) /\ book' = stored /\ stored' = stored /\ told' = told
        /\ \A t \in Threads : thread'[t].target = NoTarget
    BY <1>2, IdleThread DEF Restart, RecordInv
  <2>2. Alone(x)' /\ Serving(x)'
    BY <1>0, <2>1 DEF Alone, Serving
  <2>3. Standing(x)'
    BY <2>1, Statuses DEF Sound, Standing, Says, Reached
  <2>. QED BY <2>2, <2>3 DEF Sound
<1>3. ASSUME NEW t \in Threads, Step(t) PROVE Sound(x)'
  <2>1. CASE \/ ActivateImprovement(t) \/ RollbackImprovement(t)
             \/ ActivateRegistryItem(t) \/ RollbackRegistryItem(t) \/ Assign(t)
    <3>1. PICK y \in Target, v \in Value, label \in {"gate", "write"} :
              /\ Begin(t, y, v, label)
              /\ y \in Candidate => v \in DOMAIN Order /\ Order[v] >= Order[StatusOf(y)]
      BY <2>1, Begins
    <3>2. /\ thread'[t].pc = label /\ thread'[t].target = y /\ thread'[t].value = v
          /\ \A u \in Threads : u # t => thread'[u] = thread[u]
      BY <3>1, BeginStep
    <3>3. /\ raced' = IF \E u \in Threads : thread[u].target = y THEN raced \cup {y} ELSE raced
          /\ told' = IF y \in Candidate THEN told ELSE Without(told, y)
          /\ UNCHANGED <<book, stored>>
      BY <3>1 DEF Begin
    <3>4. Sound(x)
      BY <3>3 DEF RecordInv
    <3>5. CASE x # y
      <4>1. Same(told, told', x)
        <5>1. Records(told)
          BY DEF TypeInv, TypeOK
        <5>2. /\ DOMAIN Without(told, y) = DOMAIN told \ {y}
              /\ \A z \in DOMAIN told : z # y => Without(told, y)[z] = told[z]
          BY <5>1, WithoutRecords
        <5>. QED BY <3>3, <3>5, <5>2 DEF Same
      <4>2. Same(book, book', x) /\ Same(stored, stored', x)
        BY <3>3 DEF Same
      <4>. QED BY <3>2, <3>4, <3>5, <4>1, <4>2, Elsewhere
    <3>6. CASE x = y
      <4>1. \A u \in Threads : thread[u].target # x
        BY <3>3, <3>6
      <4>2. x \in Candidate => told' = told
        BY <3>3, <3>6
      <4>3. x \notin Candidate => x \notin DOMAIN told'
        <5>1. Records(told)
          BY DEF TypeInv, TypeOK
        <5>2. DOMAIN Without(told, y) = DOMAIN told \ {y}
          BY <5>1, WithoutRecords
        <5>. QED BY <3>3, <3>6, <5>2
      <4>4. Alone(x)'
        BY <3>2, <4>1 DEF Alone
      <4>5. Serving(x)'
        BY <3>1, <3>2, <3>3, <3>6, <4>1, <4>3 DEF Serving, StatusOf
      <4>6. Standing(x)'
        BY <3>3, <3>4, <4>2, <4>3 DEF Sound, Standing, Says, Reached
      <4>. QED BY <4>4, <4>5, <4>6 DEF Sound
    <3>. QED BY <3>5, <3>6
  <2>2. ASSUME NEW e \in Inputs, RecordFeedback(t, e) PROVE Sound(x)'
    <3>1. /\ thread' = [thread EXCEPT ![t] = Request("rows", NoTarget, "draft", e)]
          /\ UNCHANGED <<book, stored, told, raced>>
      BY <2>2, Zenon DEF RecordFeedback
    <3>2. thread'[t].target = NoTarget /\ \A u \in Threads : u # t => thread'[u] = thread[u]
      BY <3>1 DEF TypeInv, TypeOK, Request
    <3>3. Sound(x) /\ Same(book, book', x) /\ Same(stored, stored', x) /\ Same(told, told', x)
      BY <3>1 DEF RecordInv, Same
    <3>. QED BY <1>0, <3>2, <3>3, Elsewhere
  <2>r. ASSUME Rested(t), UNCHANGED <<book, stored, told, raced>> PROVE Sound(x)'
    <3>1. Sound(x) /\ Same(book, book', x) /\ Same(stored, stored', x) /\ Same(told, told', x)
      BY <2>r DEF RecordInv, Same
    <3>2. thread'[t].target # x /\ \A u \in Threads : u # t => thread'[u] = thread[u]
      BY <2>r, <1>0, IdleThread DEF Rested
    <3>. QED BY <3>1, <3>2, Elsewhere
  <2>m. ASSUME NEW label, Moved(t, label), UNCHANGED <<book, stored, told, raced>>,
               \/ thread[t].pc = "gate" /\ label = "write"
               \/ thread[t].pc = "rows" /\ label = "reply"
        PROVE  Sound(x)'
    <3>1. Sound(x) /\ Same(book, book', x) /\ Same(stored, stored', x) /\ Same(told, told', x)
      BY <2>m DEF RecordInv, Same
    <3>2. thread'[t].target = thread[t].target
          /\ \A u \in Threads : u # t => thread'[u] = thread[u]
      BY <2>m DEF Moved
    <3>. QED BY <2>m, <3>1, <3>2, Elsewhere, Onward
  <2>3. CASE RunGate(t)
    <3>1. At(t, "gate") /\ (Moved(t, "write") \/ Rested(t))
      BY <2>3, GotoStep, RestStep DEF RunGate, TypeInv
    <3>2. UNCHANGED <<book, stored, told, raced>>
      BY <2>3, Zenon DEF RunGate
    <3>. QED BY <2>r, <2>m, <3>1, <3>2 DEF At
  <2>4. CASE WriteRecord(t)
    <3>1. thread[t].pc = "write" /\ Moved(t, "upsert")
      BY <2>4, GotoStep DEF WriteRecord, TypeInv, At
    <3>2. /\ book' = With(book, thread[t].target, thread[t].value)
          /\ UNCHANGED <<stored, told, raced>>
      BY <2>4, Zenon DEF WriteRecord
    <3>3. /\ DOMAIN book' = DOMAIN book \cup {thread[t].target}
          /\ book'[thread[t].target] = thread[t].value
          /\ \A y \in DOMAIN book : y # thread[t].target => book'[y] = book[y]
      BY <3>2, WithTarget
    <3>4. Sound(x)
      BY <3>2 DEF RecordInv
    <3>5. CASE thread[t].target # x
      <4>1. Same(book, book', x) /\ Same(stored, stored', x) /\ Same(told, told', x)
        BY <3>2, <3>3, <3>5 DEF Same
      <4>. QED BY <3>1, <3>4, <3>5, <4>1, Elsewhere DEF Moved
    <3>6. CASE thread[t].target = x
      <4>1. Says(book', x, thread[t].value)
        BY <3>3, <3>6 DEF Says
      <4>2. Alone(x)'
        BY <3>1, <3>4 DEF Moved, Sound, Alone
      <4>3. \A u \in Threads : u # t => thread'[u].target # x
        BY <3>1, <3>4, <3>6 DEF Moved, Sound, Alone
      <4>4. Serving(x)'
        BY <3>1, <3>2, <3>4, <3>6, <4>1, <4>3 DEF Moved, Sound, Serving, Says
      <4>5. Standing(x)'
        <5>1. x \in Candidate => Order[thread[t].value] >= Order[StatusOf(x)]
          BY <3>1, <3>4, <3>6 DEF Sound, Serving
        <5>2. x \notin Candidate => x \notin DOMAIN told
          BY <3>4, <3>6 DEF Sound, Serving
        <5>3. ASSUME x \in Candidate, NEW s, Order[s] \in 0..6, Reached(book, x, s)
              PROVE  Reached(book', x, s)
          <6>1. Order[book[x]] >= Order[s] /\ Order[StatusOf(x)] = Order[book[x]]
            BY <5>3 DEF Reached, StatusOf
          <6>2. Order[thread[t].value] >= Order[s]
            BY <3>6, <5>1, <5>3, <6>1, Statuses
          <6>. QED BY <4>1, <6>2 DEF Says, Reached
        <5>4. x \in Candidate /\ x \in DOMAIN stored => Reached(book', x, stored[x])
          BY <3>4, <5>3, Statuses DEF Sound, Standing
        <5>5. x \in Candidate /\ x \in DOMAIN told => Reached(book', x, told[x])
          BY <3>4, <5>3, Statuses DEF Sound, Standing
        <5>. QED BY <3>2, <3>4, <5>2, <5>4, <5>5 DEF Sound, Standing, Reached
      <4>. QED BY <4>2, <4>4, <4>5 DEF Sound
    <3>. QED BY <3>5, <3>6
  <2>5. CASE StoreRecord(t)
    <3>1. thread[t].pc = "upsert" /\ (Moved(t, "reply") \/ Moved(t, "rows"))
      BY <2>5, GotoStep DEF StoreRecord, TypeInv, At
    <3>2. /\ stored' = With(stored, thread[t].target, thread[t].value)
          /\ UNCHANGED <<book, told, raced>>
      BY <2>5, Zenon DEF StoreRecord
    <3>3. /\ DOMAIN stored' = DOMAIN stored \cup {thread[t].target}
          /\ stored'[thread[t].target] = thread[t].value
          /\ \A y \in DOMAIN stored : y # thread[t].target => stored'[y] = stored[y]
      BY <3>2, WithTarget
    <3>4. Sound(x)
      BY <3>2 DEF RecordInv
    <3>5. CASE thread[t].target # x
      <4>1. Same(book, book', x) /\ Same(stored, stored', x) /\ Same(told, told', x)
        BY <3>2, <3>3, <3>5 DEF Same
      <4>. QED BY <3>1, <3>4, <3>5, <4>1, Elsewhere DEF Moved
    <3>6. CASE thread[t].target = x
      <4>1. Says(stored', x, thread[t].value) /\ Says(book, x, thread[t].value)
        BY <3>1, <3>3, <3>4, <3>6 DEF Says, Sound, Serving
      <4>2. Alone(x)'
        BY <3>1, <3>4 DEF Moved, Sound, Alone
      <4>3. \A u \in Threads : u # t => thread'[u].target # x
        BY <3>1, <3>4, <3>6 DEF Moved, Sound, Alone
      <4>4. x \notin Candidate => x \notin DOMAIN told
        BY <3>4, <3>6 DEF Sound, Serving
      <4>5. Serving(x)'
        BY <3>1, <3>2, <3>6, <4>1, <4>3, <4>4 DEF Moved, Serving, Says
      <4>6. Standing(x)'
        <5>1. x \in Candidate => Order[book[x]] >= Order[stored'[x]] /\ x \in DOMAIN book
          BY <3>6, <4>1, Statuses DEF Says
        <5>2. x \in Candidate /\ x \in DOMAIN told => Reached(book, x, told[x]) /\ Reached(stored', x, told[x])
          BY <3>4, <4>1 DEF Sound, Standing, Reached, Says
        <5>. QED BY <3>2, <4>4, <5>1, <5>2 DEF Standing, Reached
      <4>. QED BY <4>2, <4>5, <4>6 DEF Sound
    <3>. QED BY <3>5, <3>6
  <2>6. CASE StoreFeedback(t)
    <3>1. /\ thread' = [thread EXCEPT ![t].row = @ + 1]
          /\ UNCHANGED <<book, stored, told, raced>>
      BY <2>6, Zenon DEF StoreFeedback
    <3>2. \A u \in Threads : /\ thread'[u].target = thread[u].target
                             /\ thread'[u].value = thread[u].value
                             /\ thread'[u].pc = thread[u].pc
      BY <3>1 DEF TypeInv, TypeOK, Thread
    <3>3. Sound(x)
      BY <3>1 DEF RecordInv
    <3>. QED BY <3>1, <3>2, <3>3 DEF Sound, Alone, Serving, Standing, Says, Reached, StatusOf
  <2>7. CASE EndOfFeedback(t)
    <3>1. thread[t].pc = "rows" /\ Moved(t, "reply")
      BY <2>7, GotoStep DEF EndOfFeedback, TypeInv, At
    <3>2. UNCHANGED <<book, stored, told, raced>>
      BY <2>7, Zenon DEF EndOfFeedback
    <3>. QED BY <2>m, <3>1, <3>2
  <2>8. CASE AnswerRecord(t)
    <3>1. Rested(t) /\ thread[t].target \in Target /\ thread[t].pc = "reply"
      BY <2>8, RestStep DEF AnswerRecord, TypeInv, TypeOK, Thread, At
    <3>2. /\ told' = With(told, thread[t].target, thread[t].value)
          /\ UNCHANGED <<book, stored, raced>>
      BY <2>8, Zenon DEF AnswerRecord
    <3>3. /\ DOMAIN told' = DOMAIN told \cup {thread[t].target}
          /\ told'[thread[t].target] = thread[t].value
          /\ \A y \in DOMAIN told : y # thread[t].target => told'[y] = told[y]
      BY <3>2, WithTarget
    <3>4. Sound(x)
      BY <3>2 DEF RecordInv
    <3>5. thread'[t].target # x /\ \A u \in Threads : u # t => thread'[u] = thread[u]
      BY <3>1, <1>0, IdleThread DEF Rested
    <3>6. CASE thread[t].target # x
      <4>1. Same(book, book', x) /\ Same(stored, stored', x) /\ Same(told, told', x)
        BY <3>2, <3>3, <3>6 DEF Same
      <4>. QED BY <3>4, <3>5, <4>1, Elsewhere
    <3>7. CASE thread[t].target = x
      <4>1. Says(book, x, told'[x]) /\ Says(stored, x, told'[x])
        BY <3>1, <3>3, <3>4, <3>7 DEF Sound, Serving, Says
      <4>2. \A u \in Threads : thread'[u].target # x
        BY <3>4, <3>5, <3>7 DEF Sound, Alone
      <4>3. Alone(x)' /\ Serving(x)'
        BY <4>2 DEF Alone, Serving
      <4>4. Standing(x)'
        BY <3>2, <3>4, <4>1, Statuses DEF Sound, Standing, Reached, Says
      <4>. QED BY <4>3, <4>4 DEF Sound
    <3>. QED BY <3>6, <3>7
  <2>9. CASE AnswerFeedback(t)
    BY <2>9, <2>r, RestStep DEF AnswerFeedback, TypeInv
  <2>10. CASE Break(t)
    BY <2>10, <2>r, RestStep DEF Break, TypeInv
  <2>. QED BY <1>3, <2>1, <2>2, <2>3, <2>4, <2>5, <2>6, <2>7, <2>8, <2>9, <2>10 DEF Step
<1>. QED BY <1>1, <1>2, <1>3 DEF Next

LEMMA RecordInvariant == Spec => []RecordInv
<1>1. Init => RecordInv
  <2>. SUFFICES ASSUME Init, NEW x \in Target PROVE Sound(x)
    BY DEF RecordInv
  <2>1. x # NoTarget /\ \A t \in Threads : thread[t].target = NoTarget
    BY IdleThread, PromotionAssumption DEF Init, PromotionAssumption
  <2>2. DOMAIN book = {} /\ DOMAIN stored = {} /\ DOMAIN told = {}
    BY DEF Init, None
  <2>. QED BY <2>1, <2>2 DEF Sound, Alone, Serving, Standing
<1>2. Spec => []TypeInv
  BY TypeInit, TypeStep, PTL DEF Spec
<1>. QED BY <1>1, <1>2, StepRecord, PTL DEF Spec

(* A confirmed promotion or rollback of an improvement is never undone, in     *)
(* memory or in the store, for any number of threads, restarts and broken      *)
(* requests, unless two requests for that candidate overlapped                 *)
(* (_require_forward_improvement_transition, the routes of admin.py).          *)
THEOREM NotUndoneCorrect == Spec => []ToldNotUndone
<1>1. TypeInv /\ RecordInv => ToldNotUndone
  BY DEF TypeInv, TypeOK, Records, RecordInv, Sound, Standing, Reached, ToldNotUndone
<1>2. Spec => []TypeInv
  BY TypeInit, TypeStep, PTL DEF Spec
<1>. QED BY <1>1, <1>2, RecordInvariant, PTL

(* The last confirmed activation, rollback or assignment is what memory and    *)
(* the store say, as long as requests for the same target do not overlap.      *)
THEOREM RecordCorrect == Spec => []ToldIsRecorded
<1>1. TypeInv /\ RecordInv => ToldIsRecorded
  BY DEF TypeInv, TypeOK, Records, RecordInv, Sound, Standing, Says, ToldIsRecorded
<1>2. Spec => []TypeInv
  BY TypeInit, TypeStep, PTL DEF Spec
<1>. QED BY <1>1, <1>2, RecordInvariant, PTL

-----------------------------------------------------------------------------
(* A confirmed security concern                                               *)

Held(e) == \E i \in DOMAIN feedback : feedback[i] = e

(* A pass over the list has stored what it has passed; an event whose id no    *)
(* other event has keeps its row.                                             *)
RowsPassed ==
    \A t \in Threads : At(t, "rows") =>
        /\ thread[t].row <= Len(feedback)
        /\ \A i \in DOMAIN feedback :
              i <= thread[t].row /\ Unambiguous(feedback[i]) => feedback[i] \in rows

(* The event a request brought is in the list until the request ends, and in   *)
(* the store once its pass is over.                                           *)
Brought ==
    \A t \in Threads : thread[t].event # NoEvent /\ thread[t].pc \in {"rows", "reply"} =>
        /\ Held(thread[t].event)
        /\ At(t, "reply") /\ Unambiguous(thread[t].event) => thread[t].event \in rows

(* A request for a target has brought no event and passed no row. *)
Unpassed ==
    \A t \in Threads : thread[t].pc \in {"gate", "write", "upsert"} =>
        thread[t].event = NoEvent /\ thread[t].row = 0

HeardHeld == \A e \in heard : Unambiguous(e) => e \in rows /\ Held(e)

ConcernInv == Unpassed /\ RowsPassed /\ Brought /\ HeardHeld

(* What a step leaves alone. *)
LEMMA HeldKept ==
    ASSUME TypeInv, NEW e \in Inputs, Held(e),
           \/ feedback' = feedback
           \/ \E f \in Inputs : feedback' = Append(feedback, f)
    PROVE  Held(e)'
<1>1. feedback \in Seq(Inputs)
  BY DEF TypeInv, TypeOK
<1>2. CASE feedback' = feedback
  BY <1>2 DEF Held
<1>3. ASSUME NEW f \in Inputs, feedback' = Append(feedback, f) PROVE Held(e)'
  <2>1. \A i \in DOMAIN feedback : i \in DOMAIN feedback' /\ feedback'[i] = feedback[i]
    BY <1>1, <1>3
  <2>. QED BY <2>1 DEF Held
<1>. QED BY <1>2, <1>3

(* A step of t that leaves feedback, rows and what was heard alone, and after  *)
(* which t has neither brought an event nor passed a row.                      *)
LEMMA ConcernElsewhere ==
    ASSUME TypeInv, ConcernInv, NEW t \in Threads, UNCHANGED <<feedback, rows, heard>>,
           \A u \in Threads : u # t => thread'[u] = thread[u],
           thread'[t].event = NoEvent, thread'[t].row = 0
    PROVE  ConcernInv'
<1>0. feedback \in Seq(Inputs)
  BY DEF TypeInv, TypeOK
<1>1. RowsPassed'
  <2>. SUFFICES ASSUME NEW u \in Threads, thread'[u].pc = "rows"
                PROVE  /\ thread'[u].row <= Len(feedback)
                       /\ \A i \in DOMAIN feedback :
                             i <= thread'[u].row /\ Unambiguous(feedback[i]) => feedback[i] \in rows
    BY DEF RowsPassed, At
  <2>1. CASE u # t
    BY <2>1 DEF ConcernInv, RowsPassed, At
  <2>2. CASE u = t
    BY <1>0, <2>2
  <2>. QED BY <2>1, <2>2
<1>2. Brought'
  BY DEF ConcernInv, Brought, At, Held
<1>3. HeardHeld' /\ Unpassed'
  BY DEF ConcernInv, HeardHeld, Held, Unpassed
<1>. QED BY <1>1, <1>2, <1>3 DEF ConcernInv

LEMMA StepConcern == TypeInv /\ ConcernInv /\ [Next]_vars => ConcernInv'
<1>. SUFFICES ASSUME TypeInv, ConcernInv, [Next]_vars PROVE ConcernInv'
  OBVIOUS
<1>0. feedback \in Seq(Inputs) /\ rows \subseteq Inputs /\ heard \subseteq Inputs
  BY DEF TypeInv, TypeOK
<1>1. CASE UNCHANGED vars
  BY <1>1 DEF vars, ConcernInv, Unpassed, RowsPassed, Brought, HeardHeld, Held, At
<1>2. CASE Restart
  <2>1. /\ feedback' \in Listings(rows) /\ rows' = rows /\ heard' = heard
        /\ \A t \in Threads : thread'[t].pc = "idle"
    BY <1>2, IdleThread DEF Restart
  <2>2. \A e \in rows : Held(e)'
    BY <2>1 DEF Listings, Held
  <2>. QED BY <2>1, <2>2 DEF ConcernInv, Unpassed, RowsPassed, Brought, HeardHeld, At
<1>3. ASSUME NEW t \in Threads, Step(t) PROVE ConcernInv'
  <2>1. CASE \/ ActivateImprovement(t) \/ RollbackImprovement(t)
             \/ ActivateRegistryItem(t) \/ RollbackRegistryItem(t) \/ Assign(t)
    <3>1. PICK y \in Target, v \in Value, label \in {"gate", "write"} :
              Begin(t, y, v, label) /\ (y \in Candidate => v \in DOMAIN Order)
      BY <2>1, Begins
    <3>2. /\ thread'[t].event = NoEvent /\ thread'[t].row = 0
          /\ \A u \in Threads : u # t => thread'[u] = thread[u]
      BY <3>1 DEF Begin, Request, TypeInv, TypeOK
    <3>3. UNCHANGED <<feedback, rows, heard>>
      BY <3>1 DEF Begin
    <3>. QED BY <3>2, <3>3, ConcernElsewhere
  <2>2. ASSUME NEW e \in Inputs, RecordFeedback(t, e) PROVE ConcernInv'
    <3>1. /\ thread' = [thread EXCEPT ![t] = Request("rows", NoTarget, "draft", e)]
          /\ feedback' = Append(feedback, e) /\ UNCHANGED <<rows, heard>>
      BY <2>2, Zenon DEF RecordFeedback
    <3>2. /\ thread'[t].pc = "rows" /\ thread'[t].event = e /\ thread'[t].row = 0
          /\ \A u \in Threads : u # t => thread'[u] = thread[u]
      BY <3>1 DEF TypeInv, TypeOK, Request
    <3>3. /\ DOMAIN feedback' = 1..Len(feedback) + 1 /\ feedback'[Len(feedback) + 1] = e
          /\ DOMAIN feedback = 1..Len(feedback) /\ Len(feedback) \in Nat
          /\ \A i \in DOMAIN feedback : feedback'[i] = feedback[i]
      BY <1>0, <3>1
    <3>4. \A f \in Inputs : Held(f) => Held(f)'
      BY <3>1, HeldKept
    <3>5. RowsPassed'
      <4>. SUFFICES ASSUME NEW u \in Threads, thread'[u].pc = "rows"
                    PROVE  /\ thread'[u].row <= Len(feedback')
                           /\ \A i \in DOMAIN feedback' :
                                 i <= thread'[u].row /\ Unambiguous(feedback'[i])
                                    => feedback'[i] \in rows
        BY <3>1 DEF RowsPassed, At
      <4>1. Len(feedback') = Len(feedback) + 1
        BY <1>0, <3>1
      <4>2. CASE u = t
        BY <3>2, <3>3, <4>1, <4>2
      <4>3. CASE u # t
        <5>1. /\ thread'[u] = thread[u] /\ thread[u].row \in Nat /\ thread[u].row <= Len(feedback)
              /\ \A i \in DOMAIN feedback :
                    i <= thread[u].row /\ Unambiguous(feedback[i]) => feedback[i] \in rows
          BY <3>2, <4>3 DEF ConcernInv, RowsPassed, At, TypeInv, TypeOK, Thread
        <5>. QED BY <3>3, <4>1, <5>1
      <4>. QED BY <4>2, <4>3
    <3>6. Brought'
      <4>1. Held(e)'
        BY <3>3 DEF Held
      <4>2. \A u \in Threads : thread[u].event # NoEvent => thread[u].event \in Inputs
        BY DEF TypeInv, TypeOK, Thread
      <4>. QED BY <3>1, <3>2, <3>4, <4>1, <4>2 DEF ConcernInv, Brought, At
    <3>7. HeardHeld'
      BY <1>0, <3>1, <3>4 DEF ConcernInv, HeardHeld
    <3>8. Unpassed'
      BY <3>2 DEF ConcernInv, Unpassed
    <3>. QED BY <3>5, <3>6, <3>7, <3>8 DEF ConcernInv
  <2>r. ASSUME Rested(t), UNCHANGED <<feedback, rows, heard>> PROVE ConcernInv'
    <3>1. Idle.row = 0
      BY DEF Idle, Request
    <3>. QED BY <2>r, <3>1, ConcernElsewhere, IdleThread DEF Rested
  <2>m. ASSUME NEW label, Moved(t, label), UNCHANGED <<feedback, rows, heard>>,
               thread[t].pc \in {"gate", "write", "upsert"}
        PROVE  ConcernInv'
    BY <2>m, ConcernElsewhere DEF Moved, ConcernInv, Unpassed
  <2>3. CASE RunGate(t)
    <3>1. thread[t].pc = "gate" /\ (Moved(t, "write") \/ Rested(t))
      BY <2>3, GotoStep, RestStep DEF RunGate, TypeInv, At
    <3>2. UNCHANGED <<feedback, rows, heard>>
      BY <2>3, Zenon DEF RunGate
    <3>. QED BY <2>r, <2>m, <3>1, <3>2
  <2>4. CASE WriteRecord(t)
    <3>1. thread[t].pc = "write" /\ Moved(t, "upsert")
      BY <2>4, GotoStep DEF WriteRecord, TypeInv, At
    <3>2. UNCHANGED <<feedback, rows, heard>>
      BY <2>4, Zenon DEF WriteRecord
    <3>. QED BY <2>m, <3>1, <3>2
  <2>5. CASE StoreRecord(t)
    <3>1. thread[t].pc = "upsert" /\ (Moved(t, "reply") \/ Moved(t, "rows"))
      BY <2>5, GotoStep DEF StoreRecord, TypeInv, At
    <3>2. UNCHANGED <<feedback, rows, heard>>
      BY <2>5, Zenon DEF StoreRecord
    <3>. QED BY <2>m, <3>1, <3>2
  <2>6. CASE StoreFeedback(t)
    <3> DEFINE n == thread[t].row + 1
    <3>1. /\ n \in DOMAIN feedback /\ n \in Nat /\ n <= Len(feedback) /\ thread[t].pc = "rows"
      BY <2>6 DEF StoreFeedback, TypeInv, TypeOK, Thread, At
    <3>2. /\ rows' = {r \in rows : r.id # feedback[n].id} \cup {feedback[n]}
          /\ feedback' = feedback /\ heard' = heard
      BY <2>6, Zenon DEF StoreFeedback
    <3>3. /\ \A u \in Threads : thread'[u].event = thread[u].event /\ thread'[u].pc = thread[u].pc
          /\ thread'[t].row = n /\ \A u \in Threads : u # t => thread'[u] = thread[u]
      BY <2>6 DEF StoreFeedback, TypeInv, TypeOK, Thread
    <3>4. feedback[n] \in Inputs
      BY <1>0, <3>1
    <3>5. \A e \in rows : Unambiguous(e) => e \in rows'
      BY <3>2, <3>4 DEF Unambiguous
    <3>6. RowsPassed'
      <4>. SUFFICES ASSUME NEW u \in Threads, thread'[u].pc = "rows"
                    PROVE  /\ thread'[u].row <= Len(feedback)
                           /\ \A i \in DOMAIN feedback :
                                 i <= thread'[u].row /\ Unambiguous(feedback[i])
                                    => feedback[i] \in rows'
        BY <3>2 DEF RowsPassed, At
      <4>1. /\ thread[u].pc = "rows" /\ thread[u].row \in Nat /\ thread[u].row <= Len(feedback)
            /\ \A i \in DOMAIN feedback :
                  i <= thread[u].row /\ Unambiguous(feedback[i]) => feedback[i] \in rows
        BY <3>3 DEF ConcernInv, RowsPassed, At, TypeInv, TypeOK, Thread
      <4>2. CASE u # t
        BY <3>3, <3>5, <4>1, <4>2
      <4>3. CASE u = t
        <5>1. DOMAIN feedback = 1..Len(feedback) /\ feedback[n] \in rows'
          BY <1>0, <3>2
        <5>2. ASSUME NEW i \in DOMAIN feedback, i <= n, Unambiguous(feedback[i])
              PROVE  feedback[i] \in rows'
          <6>1. i = n \/ i <= thread[t].row
            BY <4>1, <4>3, <5>1, <5>2
          <6>. QED BY <3>5, <4>1, <4>3, <5>1, <5>2, <6>1
        <5>. QED BY <3>1, <3>3, <4>3, <5>2
      <4>. QED BY <4>2, <4>3
    <3>7. Brought'
      <4>1. \A e : Held(e)' <=> Held(e)
        BY <3>2 DEF Held
      <4>. QED BY <3>3, <3>5, <4>1 DEF ConcernInv, Brought, At
    <3>8. HeardHeld'
      BY <3>2, <3>5 DEF ConcernInv, HeardHeld, Held
    <3>9. Unpassed'
      BY <3>1, <3>3 DEF ConcernInv, Unpassed
    <3>. QED BY <3>6, <3>7, <3>8, <3>9 DEF ConcernInv
  <2>7. CASE EndOfFeedback(t)
    <3>1. Moved(t, "reply") /\ thread[t].pc = "rows" /\ thread[t].row = Len(feedback)
      BY <2>7, GotoStep DEF EndOfFeedback, TypeInv, At
    <3>2. UNCHANGED <<feedback, rows, heard>>
      BY <2>7, Zenon DEF EndOfFeedback
    <3>3. RowsPassed' /\ Unpassed' /\ HeardHeld'
      BY <3>1, <3>2 DEF Moved, ConcernInv, RowsPassed, Unpassed, HeardHeld, Held, At
    <3>4. \A i \in DOMAIN feedback : Unambiguous(feedback[i]) => feedback[i] \in rows
      BY <1>0, <3>1 DEF ConcernInv, RowsPassed, At
    <3>5. \A e : Held(e) /\ Unambiguous(e) => e \in rows
      BY <3>4 DEF Held
    <3>6. \A e : Held(e)' <=> Held(e)
      BY <3>2 DEF Held
    <3>7. Brought'
      BY <3>1, <3>2, <3>5, <3>6 DEF Moved, ConcernInv, Brought, At
    <3>. QED BY <3>3, <3>7 DEF ConcernInv
  <2>8. CASE AnswerRecord(t)
    <3>1. Rested(t)
      BY <2>8, RestStep DEF AnswerRecord, TypeInv
    <3>2. UNCHANGED <<feedback, rows, heard>>
      BY <2>8, Zenon DEF AnswerRecord
    <3>. QED BY <2>r, <3>1, <3>2
  <2>9. CASE AnswerFeedback(t)
    <3> DEFINE e == thread[t].event
    <3>1. /\ Rested(t) /\ thread[t].pc = "reply" /\ e # NoEvent
          /\ heard' = heard \cup {e} /\ UNCHANGED <<feedback, rows>>
      BY <2>9, RestStep DEF AnswerFeedback, TypeInv, At
    <3>2. Held(e) /\ (Unambiguous(e) => e \in rows)
      BY <3>1 DEF ConcernInv, Brought, At
    <3>3. HeardHeld'
      BY <3>1, <3>2 DEF ConcernInv, HeardHeld, Held
    <3>4. RowsPassed' /\ Brought' /\ Unpassed'
      BY <3>1, IdleThread DEF Rested, ConcernInv, RowsPassed, Brought, Unpassed, Held, At
    <3>. QED BY <3>3, <3>4 DEF ConcernInv
  <2>10. CASE Break(t)
    <3>1. Rested(t)
      BY <2>10, RestStep DEF Break, TypeInv
    <3>2. UNCHANGED <<feedback, rows, heard>>
      BY <2>10, Zenon DEF Break
    <3>. QED BY <2>r, <3>1, <3>2
  <2>. QED BY <1>3, <2>1, <2>2, <2>3, <2>4, <2>5, <2>6, <2>7, <2>8, <2>9, <2>10 DEF Step
<1>. QED BY <1>1, <1>2, <1>3 DEF Next

LEMMA ConcernInvariant == Spec => [](TypeInv /\ ConcernInv)
<1>1. Init => ConcernInv
  BY IdleThread DEF Init, ConcernInv, RowsPassed, Brought, Unpassed, HeardHeld, At
<1>. QED BY <1>1, TypeInit, TypeStep, StepConcern, PTL DEF Spec

(* One security concern among the events is enough for the gate to close. *)
LEMMA ConcernClosesGate ==
    ASSUME TypeInv, NEW e \in Inputs, Held(e), e.reason = Concern
    PROVE  ~GatePassed(feedback)
<1>. DEFINE cases == {i \in DOMAIN feedback : feedback[i].reason = Concern}
<1>1. feedback \in Seq(Inputs)
  BY DEF TypeInv, TypeOK
<1>2. IsFiniteSet(cases) /\ cases # {}
  <2>1. IsFiniteSet(1..Len(feedback))
    BY <1>1, FS_Interval
  <2>2. cases \subseteq 1..Len(feedback)
    BY <1>1
  <2>. QED BY <2>1, <2>2, FS_Subset DEF Held
<1>3. Cardinality(cases) \in Nat /\ Cardinality(cases) # 0
  BY <1>2, FS_EmptySet, FS_CardinalityType
<1>4. Report(feedback, Concern).failures = Cardinality(cases)
  BY DEF Report
<1>. HIDE DEF cases
<1>5. Blocks(Report(feedback, Concern))
  BY <1>3, <1>4 DEF Blocks
<1>6. Concern \in ReasonsIn(feedback)
  BY DEF ReasonsIn, Held
<1>. QED BY <1>5, <1>6 DEF GatePassed

(* Only the gate moves a request that is at the gate. *)
LEMMA OwnThread ==
    ASSUME TypeInv, NEW t \in Threads, NEW u \in Threads, At(t, "gate"), Step(u), ~RunGate(u)
    PROVE  thread'[t] = thread[t]
<1>. USE DEF At, TypeInv, TypeOK
<1>1. CASE \/ ActivateImprovement(u) \/ RollbackImprovement(u)
           \/ ActivateRegistryItem(u) \/ RollbackRegistryItem(u) \/ Assign(u)
  BY <1>1 DEF ActivateImprovement, RollbackImprovement, ActivateRegistryItem,
              RollbackRegistryItem, Assign, Begin
<1>2. ASSUME NEW f \in Inputs, RecordFeedback(u, f) PROVE thread'[t] = thread[t]
  BY <1>2 DEF RecordFeedback
<1>3. CASE WriteRecord(u) \/ StoreRecord(u) \/ EndOfFeedback(u)
  BY <1>3 DEF WriteRecord, StoreRecord, EndOfFeedback, Goto
<1>4. CASE StoreFeedback(u)
  BY <1>4 DEF StoreFeedback
<1>5. CASE AnswerRecord(u) \/ AnswerFeedback(u) \/ Break(u)
  BY <1>5 DEF AnswerRecord, AnswerFeedback, Break
<1>. QED BY <1>1, <1>2, <1>3, <1>4, <1>5 DEF Step

(* A security concern whose confirmation reached the client stops every        *)
(* promotion at the gate from then on, for any number of threads and restarts, *)
(* unless its id is used for another event (run_eval_gate, record_feedback).   *)
THEOREM ConcernCorrect == Spec => ConcernBlocks
<1>. DEFINE Closed == (\E e \in heard : e.reason = Concern /\ Unambiguous(e))
                         => \A t \in Threads : At(t, "gate") => thread'[t].pc # "write"
<1>1. TypeInv /\ ConcernInv /\ [Next]_vars => [Closed]_vars
  <2>. SUFFICES ASSUME TypeInv, ConcernInv, Next, NEW e \in heard, e.reason = Concern,
                       Unambiguous(e), NEW t \in Threads, At(t, "gate")
                PROVE  thread'[t].pc # "write"
    BY DEF vars
  <2>1. e \in Inputs /\ Held(e)
    BY DEF TypeInv, TypeOK, ConcernInv, HeardHeld
  <2>2. ~GatePassed(feedback)
    BY <2>1, ConcernClosesGate
  <2>3. CASE Restart
    BY <2>3, IdleThread DEF Restart
  <2>4. ASSUME NEW u \in Threads, Step(u) PROVE thread'[t].pc # "write"
    <3>1. CASE RunGate(u)
      <4>1. Rested(u)
        BY <2>2, <3>1, RestStep DEF RunGate, TypeInv
      <4>. QED BY <4>1, IdleThread DEF Rested, At
    <3>2. CASE ~RunGate(u)
      <4>1. thread'[t] = thread[t]
        BY <2>4, <3>2, OwnThread DEF At
      <4>. QED BY <4>1 DEF At
    <3>. QED BY <3>1, <3>2
  <2>. QED BY <2>3, <2>4 DEF Next
<1>. QED BY <1>1, ConcernInvariant, PTL DEF Spec, ConcernBlocks
=============================================================================

-------------------------- MODULE TraceChainProofs --------------------------
(***************************************************************************)
(* Proofs about the two read models of the graph: the walk of TraceChain,  *)
(* for any project, links and request, and, after it, the Dashboard.       *)
(*                                                                         *)
(* What a step leaves to do is in the queue: a selected node whose         *)
(* neighbours are not all selected either waits there, or is the one being *)
(* expanded and has the missing ones in rest, or the limit is reached      *)
(* (Frontier).  With the queue empty and the limit not reached nothing is  *)
(* missing, which is WalkConnected.                                        *)
(*                                                                         *)
(* That depths are distances rests on the order of the queue: while a node *)
(* is expanded, no node nearer than it waits, so that all neighbours of    *)
(* nearer nodes are selected and what is met for the first time is farther *)
(* than all that was met before (FirstMet).  Within is defined by          *)
(* recursion; that the definition has a solution, and what holds of it, is *)
(* proved by induction, for which SetInduction is derived from the         *)
(* well-foundedness of < on the natural numbers.                           *)
(*                                                                         *)
(* Of the dashboard: memory and store agree on the statuses of findings,   *)
(* and a finding is open exactly if nobody triaged it since it was last    *)
(* found (StatusInv); while no run was torn by a restart, the nodes are    *)
(* registered as soon as there is a proposal (NodesInv), so the page finds *)
(* the proposals' links; what was live when a page's nodes were read was   *)
(* decided since or is among the links it has (LiveInv); a limit leaves    *)
(* all nodes or as many as it says, since the order of nodes ranks them    *)
(* 0, 1, 2, ... (FirstCount); and the rules only lose findings when a      *)
(* verification link is added (VerifyingFindsNoMore).                      *)
(***************************************************************************)
EXTENDS TraceChain, Dashboard, FiniteSetTheorems, SequenceTheorems, WellFoundedInduction, TLAPS

TypeInv ==
  /\ TypeOK
  /\ IsFiniteSet(Selected)
  /\ pc = "expand" => found[here] < ask.depth

LEMMA CappedInRange ==
  ASSUME NEW top \in Nat \ {0}, NEW x \in 0..top + 1
  PROVE  Capped(x, top) \in 1..top
BY DEF Capped

LEMMA TypeInit == ASSUME ChainAssumption, Init PROVE TypeInv
<1> USE DEF ChainAssumption
<1>1. PICK c \in project, d \in Directions,
           depth \in 0..MaxDepth + 1, limit \in 0..MaxLimit + 1 :
        ask = [center |-> c, direction |-> d,
               depth |-> Capped(depth, MaxDepth),
               limit |-> Capped(limit, MaxLimit)]
  BY DEF Init
<1>2. ask \in Request /\ ask.center = c
  BY <1>1, CappedInRange DEF Init, Request
<1>3. Selected = {ask.center}
  BY DEF Init, Selected
<1>4. ask.depth \in 1..MaxDepth
  BY <1>2 DEF Request
<1>5. found \in [Selected -> 0..ask.depth]
  BY <1>3, <1>4 DEF Init, Selected
<1>6. queue \in Seq(Selected)
  BY <1>3 DEF Init
<1>7. IsFiniteSet(Selected)
  BY <1>3, FS_Singleton
<1> QED
  BY <1>2, <1>3, <1>5, <1>6, <1>7 DEF Init, TypeInv, TypeOK

(* A step of the loop over neighbours that selects n.                      *)
LEMMA SelectKeeps ==
  ASSUME TypeInv, NEW n \in rest, n \notin Selected, pc = "expand",
         found' = [m \in Selected \cup {n} |->
                     IF m = n THEN found[here] + 1 ELSE found[m]],
         ChainAssumption
  PROVE  /\ Selected' = Selected \cup {n}
         /\ found' \in [Selected' -> 0..ask.depth]
         /\ \A m \in Selected : found'[m] = found[m]
         /\ found'[n] = found[here] + 1
         /\ IsFiniteSet(Selected')
         /\ Cardinality(Selected') = Cardinality(Selected) + 1
         /\ Selected' \in SUBSET project
<1>1. Selected' = Selected \cup {n}
  BY DEF Selected
<1>2. found[here] \in 0..ask.depth /\ found[here] < ask.depth
      /\ ask.depth \in Nat
  BY DEF TypeInv, TypeOK, Request, ChainAssumption
<1>3. \A m \in Selected : found[m] \in 0..ask.depth
  BY DEF TypeInv, TypeOK
<1>4. found[here] + 1 \in 0..ask.depth
  BY <1>2
<1>5. found' \in [Selected' -> 0..ask.depth]
  BY <1>1, <1>3, <1>4
<1>6. IsFiniteSet(Selected') /\ Cardinality(Selected') = Cardinality(Selected) + 1
  BY <1>1, FS_AddElement DEF TypeInv
<1>7. Selected' \in SUBSET project
  BY <1>1 DEF TypeInv, TypeOK
<1>8. \A m \in Selected : found'[m] = found[m]
  OBVIOUS
<1>9. found'[n] = found[here] + 1
  OBVIOUS
<1> QED
  BY <1>1, <1>5, <1>6, <1>7, <1>8, <1>9

LEMMA TypeStep ==
  ASSUME ChainAssumption, TypeInv, [Next]_vars
  PROVE  TypeInv'
<1>1. CASE Pop
  <2>1. pc = "walk" /\ queue # <<>> /\ here' = Head(queue)
        /\ queue' = Tail(queue) /\ UNCHANGED <<request, found, truncated>>
    BY <1>1 DEF Pop
  <2>2. Selected' = Selected
    BY <2>1 DEF Selected
  <2>3. here' \in Selected /\ queue' \in Seq(Selected)
    BY <2>1 DEF TypeInv, TypeOK
  <2>4. Adjacent(here') \subseteq project
    BY DEF Adjacent, Records
  <2>5. rest' \in SUBSET project /\ pc' \in {"walk", "expand"}
        /\ (pc' = "expand" => found[here'] < ask.depth)
    <3>1. CASE found[here'] >= ask.depth
      BY <1>1, <3>1 DEF Pop
    <3>2. CASE ~(found[here'] >= ask.depth)
      <4>1. found[here'] \in Nat /\ ask.depth \in Nat
        BY <2>3 DEF TypeInv, TypeOK, Request, ChainAssumption
      <4>2. rest' = {m \in Node : m \in Adjacent(here')} /\ pc' = "expand"
        BY <1>1, <3>2 DEF Pop, Adjacent
      <4> QED BY <2>4, <3>2, <4>1, <4>2
    <3> QED BY <3>1, <3>2
  <2> QED
    BY <2>1, <2>2, <2>3, <2>5 DEF TypeInv, TypeOK, request
<1>2. CASE Look
  <2>1. PICK n \in rest :
          IF n \in Selected
            THEN /\ rest' = rest \ {n}
                 /\ UNCHANGED <<found, queue>>
            ELSE /\ found' = [m \in Selected \cup {n} |->
                                IF m = n THEN found[here] + 1 ELSE found[m]]
                 /\ queue' = Append(queue, n)
                 /\ rest' = IF Cardinality(Selected) + 1 >= ask.limit
                              THEN {} ELSE rest \ {n}
    BY <1>2 DEF Look
  <2>2. pc = "expand" /\ UNCHANGED <<request, here, pc, truncated>>
    BY <1>2 DEF Look
  <2>3. rest' \in SUBSET project
    BY <2>1 DEF TypeInv, TypeOK
  <2>4. CASE n \in Selected
    BY <2>1, <2>2, <2>3, <2>4 DEF TypeInv, TypeOK, Selected, request
  <2>5. CASE n \notin Selected
    <3>1. /\ Selected' = Selected \cup {n}
          /\ found' \in [Selected' -> 0..ask.depth]
          /\ \A m \in Selected : found'[m] = found[m]
          /\ IsFiniteSet(Selected')
          /\ Selected' \in SUBSET project
      BY <2>1, <2>2, <2>5, SelectKeeps
    <3>2. queue \in Seq(Selected') /\ n \in Selected'
      BY <3>1 DEF TypeInv, TypeOK
    <3>3. queue' \in Seq(Selected')
      BY <2>1, <2>5, <3>2
    <3>4. here' \in Selected' /\ found'[here'] = found[here]
      BY <2>2, <3>1 DEF TypeInv, TypeOK
    <3> QED
      BY <2>2, <2>3, <3>1, <3>3, <3>4 DEF TypeInv, TypeOK, request
  <2> QED BY <2>4, <2>5
<1>3. CASE Expanded
  BY <1>3 DEF Expanded, TypeInv, TypeOK, Selected, request
<1>4. CASE Answer
  BY <1>4 DEF Answer, TypeInv, TypeOK, Selected, request, Full
<1>5. CASE UNCHANGED vars
  BY <1>5 DEF vars, TypeInv, TypeOK, Selected
<1> QED
  BY <1>1, <1>2, <1>3, <1>4, <1>5 DEF Next

(* For any links and request the walk stays in the project, no node is     *)
(* deeper than asked and every queued node is selected.                    *)
THEOREM TypeCorrect == Spec => []TypeOK
<1>1. Init => TypeInv
  BY TypeInit, ChainAssumption
<1>2. TypeInv /\ [Next]_vars => TypeInv'
  BY TypeStep, ChainAssumption
<1>3. TypeInv => TypeOK
  BY DEF TypeInv
<1> QED
  BY <1>1, <1>2, <1>3, PTL DEF Spec

-----------------------------------------------------------------------------
Queued(n) == \E i \in 1..Len(queue) : queue[i] = n

Parented ==
  \A n \in Selected \ {ask.center} :
     \E m \in Selected : n \in Adjacent(m) /\ found[n] = found[m] + 1

(* What is left to do for n is in the queue or in rest.                    *)
Left(n) ==
  \/ Adjacent(n) \subseteq Selected
  \/ Queued(n)
  \/ pc = "expand" /\ n = here /\ Adjacent(n) \subseteq Selected \cup rest

Frontier == Full \/ \A n \in Selected : found[n] < ask.depth => Left(n)

Ended == pc = "done" => (queue = <<>> \/ Full) /\ truncated = Full

RestIsAdjacent == pc = "expand" => rest \subseteq Adjacent(here)

WalkInv == TypeInv /\ Parented /\ Frontier /\ Ended /\ RestIsAdjacent

LEMMA WalkInit == ASSUME Init PROVE WalkInv
<1>1. TypeInv
  BY TypeInit, ChainAssumption
<1>2. Selected = {ask.center} /\ queue = <<ask.center>> /\ pc = "walk"
  BY DEF Init, Selected
<1>3. Queued(ask.center)
  BY <1>2 DEF Queued
<1> QED
  BY <1>1, <1>2, <1>3 DEF WalkInv, Parented, Frontier, Left, Ended, RestIsAdjacent

LEMMA WalkStep == ASSUME WalkInv, [Next]_vars PROVE WalkInv'
<1>0. TypeInv' /\ TypeInv
  BY TypeStep, ChainAssumption DEF WalkInv
<1>a. UNCHANGED request => \A n : Adjacent(n)' = Adjacent(n)
  BY DEF request, Adjacent, Records
<1>b. ASSUME UNCHANGED <<request, found>> PROVE Parented' /\ Full' = Full /\ Selected' = Selected
  BY <1>a, <1>b DEF WalkInv, Parented, Selected, Full, request
<1>1. CASE Pop
  <2>1. /\ pc = "walk" /\ queue # <<>> /\ here' = Head(queue)
        /\ queue' = Tail(queue) /\ UNCHANGED <<request, found, truncated>>
        /\ pc' \in {"walk", "expand"}
        /\ pc' = "expand" => rest' = Adjacent(here')
        /\ ~(found[here'] >= ask.depth) => pc' = "expand"
    BY <1>1 DEF Pop
  <2>2. Parented' /\ Full' = Full /\ Selected' = Selected /\ ask' = ask
    BY <2>1, <1>b DEF request
  <2>3. ASSUME NEW n \in Selected, found[n] < ask.depth, Left(n)
        PROVE  Left(n)'
    <3>1. Adjacent(n)' = Adjacent(n)
      BY <2>1, <1>a
    <3>2. CASE Adjacent(n) \subseteq Selected
      BY <3>1, <3>2, <2>2 DEF Left
    <3>3. CASE Queued(n)
      <4>1. PICK i \in 1..Len(queue) : queue[i] = n
        BY <3>3 DEF Queued
      <4>2. CASE i = 1
        <5>1. n = here'
          BY <4>1, <4>2, <2>1, <1>0 DEF TypeInv, TypeOK
        <5>2. found[n] \in Nat /\ ask.depth \in Nat
          BY <1>0, ChainAssumption DEF TypeInv, TypeOK, Request
        <5>3. pc' = "expand" /\ rest' = Adjacent(n)
          BY <5>1, <5>2, <2>1, <2>3, <3>1, <1>a
        <5> QED BY <5>1, <5>3, <3>1 DEF Left
      <4>3. CASE i # 1
        <5>1. i - 1 \in 1..Len(queue') /\ queue'[i - 1] = n
          BY <4>1, <4>3, <2>1, <1>0 DEF TypeInv, TypeOK
        <5> QED BY <5>1 DEF Left, Queued
      <4> QED BY <4>2, <4>3
    <3> QED BY <3>2, <3>3, <2>1, <2>3 DEF Left
  <2>4. Frontier'
    BY <2>1, <2>2, <2>3 DEF WalkInv, Frontier
  <2>5. RestIsAdjacent'
    BY <2>1, <1>a DEF RestIsAdjacent
  <2> QED
    BY <1>0, <2>1, <2>2, <2>4, <2>5 DEF WalkInv, Ended
<1>2. CASE Look
  <2>1. PICK n \in rest :
          IF n \in Selected
            THEN /\ rest' = rest \ {n}
                 /\ UNCHANGED <<found, queue>>
            ELSE /\ found' = [m \in Selected \cup {n} |->
                                IF m = n THEN found[here] + 1 ELSE found[m]]
                 /\ queue' = Append(queue, n)
                 /\ rest' = IF Cardinality(Selected) + 1 >= ask.limit
                              THEN {} ELSE rest \ {n}
    BY <1>2 DEF Look
  <2>2. pc = "expand" /\ UNCHANGED <<request, here, pc, truncated>>
    BY <1>2 DEF Look
  <2>3. /\ rest' \subseteq rest /\ n \in Adjacent(here) /\ RestIsAdjacent' /\ Ended'
        /\ UNCHANGED <<ask, here, pc>>
    BY <2>1, <2>2, <1>a DEF WalkInv, RestIsAdjacent, Ended, request
  <2>4. CASE n \in Selected
    <3>1. /\ rest' = rest \ {n} /\ UNCHANGED <<found, queue>> /\ Parented'
          /\ Full' = Full /\ Selected' = Selected
      BY <2>1, <2>2, <2>4, <1>b
    <3>2. ASSUME NEW k \in Selected, Left(k) PROVE Left(k)'
      BY <3>1, <3>2, <2>2, <2>3, <2>4, <1>a DEF Left, Queued
    <3>3. Frontier'
      BY <3>1, <3>2, <2>3 DEF WalkInv, Frontier
    <3> QED
      BY <1>0, <3>1, <3>3, <2>3 DEF WalkInv
  <2>5. CASE n \notin Selected
    <3>1. /\ Selected' = Selected \cup {n}
          /\ \A m \in Selected : found'[m] = found[m]
          /\ found'[n] = found[here] + 1
          /\ Cardinality(Selected') = Cardinality(Selected) + 1
      BY <2>1, <2>2, <2>5, <1>0, SelectKeeps, ChainAssumption
    <3>2. queue' = Append(queue, n)
          /\ rest' = IF Cardinality(Selected) + 1 >= ask.limit
                       THEN {} ELSE rest \ {n}
      BY <2>1, <2>5
    <3>3. Parented'
      <4>1. SUFFICES ASSUME NEW k \in Selected' \ {ask.center}
                     PROVE  \E m \in Selected' :
                              k \in Adjacent(m)' /\ found'[k] = found'[m] + 1
        BY <2>3 DEF Parented
      <4>2. here \in Selected
        BY <1>0 DEF TypeInv, TypeOK
      <4>3. CASE k = n
        BY <4>2, <4>3, <3>1, <2>2, <2>3, <1>a
      <4>4. CASE k # n
        <5>1. PICK m \in Selected : k \in Adjacent(m) /\ found[k] = found[m] + 1
          BY <4>4, <3>1 DEF WalkInv, Parented
        <5> QED BY <5>1, <4>4, <3>1, <2>2, <1>a
      <4> QED BY <4>3, <4>4
    <3>4. \A i \in 1..Len(queue) : i \in 1..Len(queue') /\ queue'[i] = queue[i]
      BY <3>2, <1>0 DEF TypeInv, TypeOK
    <3>5. Queued(n)'
      <4>1. Len(queue') \in 1..Len(queue') /\ queue'[Len(queue')] = n
        BY <3>2, <1>0 DEF TypeInv, TypeOK
      <4> QED BY <4>1 DEF Queued
    <3>6. Frontier'
      <4>1. CASE Cardinality(Selected) + 1 >= ask.limit
        BY <4>1, <3>1, <2>3 DEF Frontier, Full
      <4>2. CASE ~(Cardinality(Selected) + 1 >= ask.limit)
        <5>1. rest' = rest \ {n}
          BY <4>2, <3>2
        <5>2. ~Full
          <6>1. Cardinality(Selected) \in Nat /\ ask.limit \in Nat
            BY <1>0, FS_CardinalityType, ChainAssumption DEF TypeInv, TypeOK, Request
          <6> QED BY <6>1, <4>2 DEF Full
        <5>3. ASSUME NEW k \in Selected', found'[k] < ask.depth
              PROVE  Left(k)'
          <6>1. CASE k = n
            BY <6>1, <3>5 DEF Left
          <6>2. CASE k # n
            <7>1. k \in Selected /\ found[k] < ask.depth
              BY <6>2, <5>3, <3>1
            <7>2. Left(k) /\ Adjacent(k)' = Adjacent(k)
              BY <7>1, <5>2, <2>2, <1>a DEF WalkInv, Frontier
            <7>3. CASE Adjacent(k) \subseteq Selected
              BY <7>2, <7>3, <3>1 DEF Left
            <7>4. CASE Queued(k)
              BY <7>4, <3>4 DEF Left, Queued
            <7>5. CASE k = here /\ Adjacent(k) \subseteq Selected \cup rest
              BY <7>2, <7>5, <5>1, <3>1, <2>2, <2>3 DEF Left
            <7> QED BY <7>2, <7>3, <7>4, <7>5 DEF Left
          <6> QED BY <6>1, <6>2
        <5> QED BY <5>3, <2>3 DEF Frontier
      <4> QED BY <4>1, <4>2
    <3> QED
      BY <1>0, <3>3, <3>6, <2>3 DEF WalkInv
  <2> QED BY <2>4, <2>5
<1>3. CASE Expanded
  <2>1. /\ pc = "expand" /\ rest = {} /\ pc' = "walk"
        /\ UNCHANGED <<request, found, queue, here, rest, truncated>>
    BY <1>3 DEF Expanded
  <2>2. Parented' /\ Full' = Full /\ Selected' = Selected /\ ask' = ask
    BY <2>1, <1>b DEF request
  <2>3. ASSUME NEW n \in Selected, Left(n) PROVE Left(n)'
    BY <2>1, <2>2, <2>3, <1>a DEF Left, Queued
  <2>4. Frontier'
    BY <2>1, <2>2, <2>3 DEF WalkInv, Frontier
  <2> QED
    BY <1>0, <2>1, <2>2, <2>4 DEF WalkInv, Ended, RestIsAdjacent
<1>4. CASE Answer
  <2>1. /\ pc = "walk" /\ (queue = <<>> \/ Full) /\ pc' = "done"
        /\ truncated' = Full
        /\ UNCHANGED <<request, found, queue, here, rest>>
    BY <1>4 DEF Answer
  <2>2. Parented' /\ Full' = Full /\ Selected' = Selected /\ ask' = ask
    BY <2>1, <1>b DEF request
  <2>3. ASSUME NEW n \in Selected, Left(n) PROVE Left(n)'
    BY <2>1, <2>2, <2>3, <1>a DEF Left, Queued
  <2>4. Frontier'
    BY <2>1, <2>2, <2>3 DEF WalkInv, Frontier
  <2> QED
    BY <1>0, <2>1, <2>2, <2>4 DEF WalkInv, Ended, RestIsAdjacent
<1>5. CASE UNCHANGED vars
  <2>1. UNCHANGED <<request, found, queue, here, rest, pc, truncated, ask>>
    BY <1>5 DEF vars, request
  <2>2. Parented' /\ Full' = Full /\ Selected' = Selected
    BY <2>1, <1>b
  <2>3. ASSUME NEW n \in Selected, Left(n) PROVE Left(n)'
    BY <2>1, <2>2, <2>3, <1>a DEF Left, Queued
  <2>4. Frontier'
    BY <2>1, <2>2, <2>3 DEF WalkInv, Frontier
  <2> QED
    BY <1>0, <2>1, <2>2, <2>4, <1>a DEF WalkInv, Ended, RestIsAdjacent
<1> QED
  BY <1>1, <1>2, <1>3, <1>4, <1>5 DEF Next

(* Every node of an answer was reached over a link from a node one step    *)
(* nearer, and an answer that does not say truncated leaves out no         *)
(* neighbour of a node above the last depth, for any links and request.    *)
THEOREM WalkCorrect == Spec => []WalkConnected
<1>1. WalkInv => WalkConnected
  <2>1. SUFFICES ASSUME WalkInv, pc = "done", ~truncated,
                        NEW n \in Selected, found[n] < ask.depth
                 PROVE  Adjacent(n) \subseteq Selected
    BY DEF WalkConnected, WalkInv, Parented
  <2>2. queue = <<>> /\ ~Full
    BY <2>1 DEF WalkInv, Ended
  <2>3. Left(n) /\ ~Queued(n)
    BY <2>1, <2>2 DEF WalkInv, Frontier, Queued
  <2> QED
    BY <2>1, <2>3 DEF Left
<1> QED
  BY WalkInit, WalkStep, <1>1, PTL DEF Spec

-----------------------------------------------------------------------------
(* Induction over the natural numbers, for sets                            *)

LEMMA Least ==
  ASSUME NEW T, T \subseteq Nat, T # {}
  PROVE  \E x \in T : \A y \in T : x <= y
<1> DEFINE R == OpToRel(<, Nat)
<1>1. IsWellFoundedOn(R, Nat)
  BY NatLessThanWellFounded
<1>2. \A x, y \in Nat : <<y, x>> \in R <=> y < x
  BY DEF OpToRel
<1> HIDE DEF R
<1>3. PICK x \in T : \A y \in T : ~(<<y, x>> \in R)
  BY <1>1, WFMin
<1>4. x \in Nat /\ \A y \in T : y \in Nat /\ ~(y < x)
  BY <1>2, <1>3
<1> QED
  BY <1>4

(* A set that has 0 and with n also n + 1 has every natural number.        *)
LEMMA SetInduction ==
  ASSUME NEW S, 0 \in S, \A n \in Nat : n \in S => n + 1 \in S
  PROVE  \A n \in Nat : n \in S
<1> SUFFICES ASSUME \E n \in Nat : n \notin S PROVE FALSE
  OBVIOUS
<1> DEFINE T == {n \in Nat : n \notin S}
<1>1. PICK x \in T : \A y \in T : x <= y
  <2>1. T \subseteq Nat /\ T # {}
    OBVIOUS
  <2> HIDE DEF T
  <2> QED
    BY <2>1, Least
<1>2. x # 0 /\ x \in Nat
  OBVIOUS
<1>3. x - 1 \in Nat /\ x - 1 \notin T
  BY <1>1, <1>2
<1> QED
  BY <1>2, <1>3

-----------------------------------------------------------------------------
(* The definition of Within by recursion has a solution: it is put together *)
(* from its solutions up to each number.                                   *)

Layers(n) == [0..n -> SUBSET Node]

Solves(g, n) == g[0] = {ask.center} /\ \A j \in 0..n - 1 : g[j + 1] = Grow(g[j])

LEMMA GrowsInNode == ASSUME NEW S \in SUBSET Node PROVE Grow(S) \in SUBSET Node
BY DEF Grow, Adjacent

LEMMA SolutionExists ==
  ASSUME ask.center \in Node
  PROVE  \A n \in Nat : \E g \in Layers(n) : Solves(g, n)
<1> DEFINE S == {n \in Nat : \E g \in Layers(n) : Solves(g, n)}
<1>1. 0 \in S
  <2> DEFINE g == [j \in 0..0 |-> {ask.center}]
  <2>1. g \in Layers(0) /\ Solves(g, 0)
    BY DEF Layers, Solves
  <2> QED
    BY <2>1
<1>2. ASSUME NEW n \in Nat, n \in S PROVE n + 1 \in S
  <2>1. PICK g \in Layers(n) : Solves(g, n)
    BY <1>2
  <2>2. n \in 0..n /\ 0 \in 0..n /\ g[n] \in SUBSET Node
    BY <2>1 DEF Layers
  <2> DEFINE h == [j \in 0..n + 1 |-> IF j = n + 1 THEN Grow(g[n]) ELSE g[j]]
  <2>3. h \in Layers(n + 1)
    <3>1. Grow(g[n]) \in SUBSET Node
      BY <2>2, GrowsInNode
    <3>2. \A j \in 0..n + 1 : j # n + 1 => j \in 0..n
      OBVIOUS
    <3> QED
      BY <2>1, <3>1, <3>2 DEF Layers
  <2>4. Solves(h, n + 1)
    <3>1. h[0] = {ask.center}
      BY <2>1 DEF Solves
    <3>2. ASSUME NEW j \in 0..(n + 1) - 1 PROVE h[j + 1] = Grow(h[j])
      <4>1. CASE j = n
        <5>1. h[j + 1] = Grow(g[n]) /\ h[j] = g[n]
          BY <4>1
        <5> QED
          BY <5>1
      <4>2. CASE j # n
        <5>1. j \in 0..n - 1 /\ h[j + 1] = g[j + 1] /\ h[j] = g[j]
          BY <4>2
        <5> QED
          BY <2>1, <5>1 DEF Solves
      <4> QED
        BY <4>1, <4>2
    <3> QED
      BY <3>1, <3>2 DEF Solves
  <2> QED
    BY <2>3, <2>4
<1> HIDE DEF S
<1>3. \A n \in Nat : n \in S
  BY <1>1, <1>2, SetInduction
<1> QED
  BY <1>3 DEF S

LEMMA SolutionsAgree ==
  ASSUME NEW n \in Nat, NEW m \in Nat, NEW g, Solves(g, n), NEW h, Solves(h, m)
  PROVE  \A j \in Nat : j <= n /\ j <= m => g[j] = h[j]
<1> DEFINE S == {j \in Nat : j <= n /\ j <= m => g[j] = h[j]}
<1>1. 0 \in S
  BY DEF Solves
<1>2. ASSUME NEW j \in Nat, j \in S, j + 1 <= n, j + 1 <= m PROVE g[j + 1] = h[j + 1]
  <2>1. j \in 0..n - 1 /\ j \in 0..m - 1 /\ g[j] = h[j]
    BY <1>2
  <2> QED
    BY <2>1 DEF Solves
<1>3. \A j \in Nat : j \in S => j + 1 \in S
  BY <1>2
<1> HIDE DEF S
<1>4. \A j \in Nat : j \in S
  BY <1>1, <1>3, SetInduction
<1> QED
  BY <1>4 DEF S

(* What Within is at 0 and at a successor.                                 *)
Unfolds(W) == W[0] = {ask.center} /\ \A k \in Nat : W[k + 1] = Grow(W[k])

LEMMA WithinUnfolds == ASSUME ask.center \in Node PROVE Unfolds(Within)
<1> DEFINE sol == [n \in Nat |-> CHOOSE g \in Layers(n) : Solves(g, n)]
           f == [n \in Nat |-> sol[n][n]]
<1>1. \A n \in Nat : sol[n] \in Layers(n) /\ Solves(sol[n], n)
  BY SolutionExists
<1> HIDE DEF sol
<1>2. f[0] = {ask.center}
  BY <1>1 DEF Solves
<1>3. ASSUME NEW n \in Nat PROVE f[n + 1] = Grow(f[n])
  <2>1. f[n + 1] = sol[n + 1][n + 1] /\ f[n] = sol[n][n]
    OBVIOUS
  <2>2. sol[n + 1][n + 1] = Grow(sol[n + 1][n])
    <3>1. Solves(sol[n + 1], n + 1) /\ n \in 0..(n + 1) - 1
      BY <1>1
    <3> QED
      BY <3>1 DEF Solves
  <2>3. sol[n + 1][n] = sol[n][n]
    <3>1. Solves(sol[n + 1], n + 1) /\ Solves(sol[n], n) /\ n + 1 \in Nat /\ n <= n + 1
      BY <1>1
    <3> QED
      BY <3>1, SolutionsAgree
  <2> QED
    BY <2>1, <2>2, <2>3
<1>4. f = [k \in Nat |-> IF k = 0 THEN {ask.center} ELSE Grow(f[k - 1])]
  <2>1. ASSUME NEW k \in Nat, k # 0 PROVE f[k] = Grow(f[k - 1])
    <3>1. k - 1 \in Nat /\ (k - 1) + 1 = k
      BY <2>1
    <3> HIDE DEF f
    <3> QED
      BY <1>3, <3>1
  <2> QED
    BY <1>2, <2>1
<1> HIDE DEF f
<1>5. Within = [k \in Nat |-> IF k = 0 THEN {ask.center} ELSE Grow(Within[k - 1])]
  BY <1>4, Zenon DEF Within
<1>6. ASSUME NEW k \in Nat PROVE Within[k + 1] = Grow(Within[k])
  <2>1. k + 1 \in Nat /\ k + 1 # 0 /\ (k + 1) - 1 = k
    OBVIOUS
  <2> QED
    BY <1>5, <2>1
<1> QED
  BY <1>5, <1>6 DEF Unfolds

-----------------------------------------------------------------------------
(* The breadth-first order                                                 *)

(* The queue goes from nearer to farther nodes, by at most one step.       *)
Ordered ==
  \A i, j \in 1..Len(queue) : i < j =>
     found[queue[i]] <= found[queue[j]] /\ found[queue[j]] <= found[queue[i]] + 1

(* The node being expanded is not farther than those that wait.            *)
Front ==
  pc = "expand" => \A i \in 1..Len(queue) :
     found[here] <= found[queue[i]] /\ found[queue[i]] <= found[here] + 1

(* Neighbours are looked at only while there is room.                      *)
RestOpen == pc = "expand" /\ rest # {} => ~Full

OrderInv ==
  /\ ask.center \in Selected /\ Ordered /\ Front /\ RestOpen
  /\ Cardinality(Selected) <= ask.limit

LEMMA WithinGrows ==
  ASSUME Unfolds(Within)
  PROVE  \A k, j \in Nat : k <= j => Within[k] \subseteq Within[j]
<1> SUFFICES ASSUME NEW k \in Nat PROVE \A j \in Nat : k <= j => Within[k] \subseteq Within[j]
  OBVIOUS
<1> DEFINE S == {d \in Nat : Within[k] \subseteq Within[k + d]}
<1>1. 0 \in S
  OBVIOUS
<1>2. ASSUME NEW d \in Nat, d \in S PROVE d + 1 \in S
  <2>1. Within[(k + d) + 1] = Grow(Within[k + d]) /\ (k + d) + 1 = k + (d + 1)
    BY DEF Unfolds
  <2>2. Within[k + d] \subseteq Within[k + (d + 1)]
    BY <2>1 DEF Grow
  <2> QED
    BY <1>2, <2>2
<1> HIDE DEF S
<1>3. \A d \in Nat : d \in S
  BY <1>1, <1>2, SetInduction
<1>4. ASSUME NEW j \in Nat, k <= j PROVE Within[k] \subseteq Within[j]
  <2>1. j - k \in Nat /\ k + (j - k) = j
    BY <1>4
  <2>2. j - k \in S
    BY <1>3, <2>1
  <2> QED
    BY <2>1, <2>2 DEF S
<1> QED
  BY <1>4

(* Once the neighbours of all selected nodes nearer than k are selected,   *)
(* everything within k is.                                                 *)
LEMMA NearerSelected ==
  ASSUME TypeOK, Unfolds(Within), DepthIsDistance, ask.center \in Selected, NEW k \in Nat,
         \A m \in Selected : found[m] < k => Adjacent(m) \subseteq Selected
  PROVE  Within[k] \subseteq Selected
<1> DEFINE S == {j \in Nat : j <= k => Within[j] \subseteq Selected}
<1>0. \A m \in Selected : found[m] \in Nat
  BY ChainAssumption DEF TypeOK, Request
<1>1. 0 \in S
  BY DEF Unfolds
<1>2. ASSUME NEW j \in Nat, j \in S PROVE j + 1 \in S
  <2>1. SUFFICES ASSUME j + 1 <= k PROVE Within[j + 1] \subseteq Selected
    OBVIOUS
  <2>2. Within[j] \subseteq Selected
    BY <1>2, <2>1
  <2>3. ASSUME NEW m \in Within[j] PROVE Adjacent(m) \subseteq Selected
    <3>1. m \in Selected /\ found[m] \in Nat
      BY <1>0, <2>2
    <3>2. found[m] <= j
      <4> SUFFICES ASSUME found[m] > j PROVE FALSE
        BY <3>1
      <4>1. found[m] > 0 /\ found[m] - 1 \in Nat /\ j <= found[m] - 1
        BY <3>1
      <4>2. m \notin Within[found[m] - 1]
        BY <3>1, <4>1 DEF DepthIsDistance
      <4>3. Within[j] \subseteq Within[found[m] - 1]
        BY <4>1, WithinGrows
      <4> QED
        BY <4>2, <4>3
    <3>3. found[m] < k
      BY <2>1, <3>1, <3>2
    <3> QED
      BY <3>1, <3>3
  <2>4. Within[j + 1] = Grow(Within[j])
    BY DEF Unfolds
  <2> QED
    BY <2>2, <2>3, <2>4 DEF Grow
<1> HIDE DEF S
<1>3. \A j \in Nat : j \in S
  BY <1>1, <1>2, SetInduction
<1>4. k \in S
  BY <1>3
<1> QED
  BY <1>4 DEF S

(* Within is of the request, which no step changes.                        *)
LEMMA WithinStays ==
  ASSUME Unfolds(Within), Unfolds(Within)', UNCHANGED request
  PROVE  \A k \in Nat : Within'[k] = Within[k]
<1> DEFINE S == {k \in Nat : Within'[k] = Within[k]}
<1>1. ask' = ask /\ \A n : Adjacent(n)' = Adjacent(n)
  BY DEF request, Adjacent, Records
<1>2. 0 \in S
  BY <1>1 DEF Unfolds
<1>3. ASSUME NEW k \in Nat, k \in S PROVE k + 1 \in S
  <2>1. Within[k + 1] = Grow(Within[k]) /\ Within'[k + 1] = Grow(Within[k])'
    BY DEF Unfolds
  <2>2. Grow(Within[k])' = Grow(Within[k])
    BY <1>1, <1>3 DEF Grow
  <2> QED
    BY <2>1, <2>2
<1> HIDE DEF S
<1>4. \A k \in Nat : k \in S
  BY <1>2, <1>3, SetInduction
<1> QED
  BY <1>4 DEF S

LEMMA UnfoldsAlways == TypeOK => Unfolds(Within)
<1>1. TypeOK => ask.center \in Node
  BY DEF TypeOK, Request
<1> QED
  BY <1>1, WithinUnfolds

LEMMA UnfoldsNext == TypeOK' => Unfolds(Within)'
BY UnfoldsAlways, PTL

DistanceInv == WalkInv /\ OrderInv /\ DepthIsDistance

LEMMA DistanceInit == ASSUME Init PROVE DistanceInv
<1>1. WalkInv
  BY WalkInit
<1>2. /\ Selected = {ask.center} /\ queue = <<ask.center>> /\ pc = "walk"
      /\ found[ask.center] = 0
  BY DEF Init, Selected
<1>3. Unfolds(Within)
  BY <1>1, UnfoldsAlways DEF WalkInv, TypeInv
<1>4. DepthIsDistance
  BY <1>2, <1>3 DEF DepthIsDistance, Unfolds
<1>5. Cardinality(Selected) = 1 /\ ask.limit \in Nat /\ 1 <= ask.limit
  BY SMTT(30), <1>1, <1>2, FS_Singleton, ChainAssumption DEF WalkInv, TypeInv, TypeOK, Request
<1> QED
  BY <1>1, <1>2, <1>4, <1>5 DEF DistanceInv, OrderInv, Ordered, Front, RestOpen

(* While there is room, a node that is met for the first time is not       *)
(* within the depth of the node it is met from.                            *)
LEMMA FirstMet ==
  ASSUME DistanceInv, pc = "expand", rest # {}
  PROVE  Within[found[here]] \subseteq Selected
<1>1. /\ TypeOK /\ found[here] \in Nat /\ found[here] < ask.depth /\ ~Full
      /\ ask.depth \in Nat /\ \A m \in Selected : found[m] \in Nat
  BY ChainAssumption DEF DistanceInv, OrderInv, RestOpen, WalkInv, TypeInv, TypeOK, Request
<1>2. ASSUME NEW m \in Selected, found[m] < found[here]
      PROVE  Adjacent(m) \subseteq Selected
  <2>1. found[m] < ask.depth /\ m # here
    BY <1>1, <1>2
  <2>2. ~Queued(m)
    <3> SUFFICES ASSUME NEW i \in 1..Len(queue), queue[i] = m PROVE FALSE
      BY DEF Queued
    <3>1. found[here] <= found[m]
      BY DEF DistanceInv, OrderInv, Front
    <3> QED
      BY <1>1, <1>2, <3>1
  <2> QED
    BY <1>1, <2>1, <2>2 DEF DistanceInv, WalkInv, Frontier, Left
<1> QED
  BY <1>1, <1>2, NearerSelected, UnfoldsAlways DEF DistanceInv, OrderInv

LEMMA DistanceStep == ASSUME DistanceInv, [Next]_vars PROVE DistanceInv'
<1>0. /\ WalkInv /\ WalkInv' /\ TypeOK /\ TypeOK' /\ OrderInv /\ DepthIsDistance
      /\ Unfolds(Within) /\ Unfolds(Within)'
  BY WalkStep, UnfoldsAlways, UnfoldsNext DEF DistanceInv, WalkInv, TypeInv
<1>n. /\ \A m \in Selected : found[m] \in Nat
      /\ queue \in Seq(Selected) /\ here \in Selected /\ ask.limit \in Nat
      /\ Cardinality(Selected) \in Nat
  BY <1>0, ChainAssumption, FS_CardinalityType DEF TypeOK, Request, WalkInv, TypeInv
<1>r. UNCHANGED request
  BY DEF Next, Pop, Look, Expanded, Answer, vars, request
<1>w. \A k \in Nat : Within'[k] = Within[k]
  BY <1>0, <1>r, WithinStays
<1>a. ask' = ask /\ \A n : Adjacent(n)' = Adjacent(n)
  BY <1>r DEF request, Adjacent, Records
\* A step that selects nothing changes neither the depths nor the number of nodes.
<1>f. ASSUME found' = found
      PROVE  /\ DepthIsDistance' /\ Selected' = Selected /\ Full' = Full
             /\ ask.center' \in Selected' /\ Cardinality(Selected') <= ask'.limit
  <2>1. Selected' = Selected
    BY <1>f DEF Selected
  <2>2. DepthIsDistance'
    BY <1>0, <1>f, <1>n, <1>w, <2>1 DEF DepthIsDistance
  <2> QED
    BY <1>0, <1>a, <2>1, <2>2 DEF Full, OrderInv
<1>1. CASE Pop
  <2>1. /\ queue # <<>> /\ here' = Head(queue) /\ queue' = Tail(queue) /\ found' = found /\ ~Full
    BY <1>1 DEF Pop
  <2>2. /\ Len(queue') = Len(queue) - 1 /\ Len(queue) \in Nat \ {0} /\ here' = queue[1]
        /\ \A i \in 1..Len(queue') : queue'[i] = queue[i + 1] /\ i + 1 \in 1..Len(queue)
    BY <1>n, <2>1
  <2>3. Ordered'
    <3> SUFFICES ASSUME NEW i \in 1..Len(queue'), NEW j \in 1..Len(queue'), i < j
                 PROVE  /\ found[queue'[i]] <= found[queue'[j]]
                        /\ found[queue'[j]] <= found[queue'[i]] + 1
      BY <2>1 DEF Ordered
    <3>1. i + 1 \in 1..Len(queue) /\ j + 1 \in 1..Len(queue) /\ i + 1 < j + 1
      BY <2>2
    <3> QED
      BY <1>0, <2>2, <3>1 DEF OrderInv, Ordered
  <2>4. Front'
    <3> SUFFICES ASSUME NEW i \in 1..Len(queue')
                 PROVE  /\ found[here'] <= found[queue'[i]]
                        /\ found[queue'[i]] <= found[here'] + 1
      BY <2>1 DEF Front
    <3>1. 1 \in 1..Len(queue) /\ i + 1 \in 1..Len(queue) /\ 1 < i + 1
      BY <2>2
    <3> QED
      BY <1>0, <2>2, <3>1 DEF OrderInv, Ordered
  <2> QED
    BY <1>0, <1>f, <2>1, <2>3, <2>4 DEF DistanceInv, OrderInv, RestOpen
<1>2. CASE Look
  <2>1. PICK n \in rest :
          IF n \in Selected
            THEN /\ rest' = rest \ {n}
                 /\ UNCHANGED <<found, queue>>
            ELSE /\ found' = [m \in Selected \cup {n} |->
                                IF m = n THEN found[here] + 1 ELSE found[m]]
                 /\ queue' = Append(queue, n)
                 /\ rest' = IF Cardinality(Selected) + 1 >= ask.limit
                              THEN {} ELSE rest \ {n}
    BY <1>2 DEF Look
  <2>2. pc = "expand" /\ pc' = pc /\ here' = here /\ ~Full /\ rest # {}
    BY <1>0, <1>2, <2>1 DEF Look, OrderInv, RestOpen
  <2>3. CASE n \in Selected
    <3>1. found' = found /\ queue' = queue
      BY <2>1, <2>3
    <3> QED
      BY <1>0, <1>f, <2>2, <3>1 DEF DistanceInv, OrderInv, Ordered, Front, RestOpen
  <2>4. CASE n \notin Selected
    <3>1. /\ Selected' = Selected \cup {n}
          /\ \A m \in Selected : found'[m] = found[m]
          /\ found'[n] = found[here] + 1
          /\ Cardinality(Selected') = Cardinality(Selected) + 1
      BY <1>0, <2>1, <2>2, <2>4, SelectKeeps, ChainAssumption DEF WalkInv
    <3>2. /\ queue' = Append(queue, n)
          /\ rest' = IF Cardinality(Selected) + 1 >= ask.limit THEN {} ELSE rest \ {n}
      BY <2>1, <2>4
    <3>3. /\ Len(queue') = Len(queue) + 1 /\ Len(queue) \in Nat /\ queue'[Len(queue')] = n
          /\ \A i \in 1..Len(queue) : queue'[i] = queue[i] /\ queue[i] \in Selected
      BY <1>n, <3>2
    <3>4. found[here] \in Nat /\ \A i \in 1..Len(queue) : found[queue[i]] \in Nat
      BY <1>n, <3>3
    <3>5. \A i \in 1..Len(queue) :
             found[here] <= found[queue[i]] /\ found[queue[i]] <= found[here] + 1
      BY <1>0, <2>2 DEF OrderInv, Front
    <3>6. \A i \in 1..Len(queue) : found'[queue'[i]] = found[queue[i]]
      BY <3>1, <3>3
    <3>7. Front'
      <4> SUFFICES ASSUME NEW i \in 1..Len(queue')
                   PROVE  /\ found'[here] <= found'[queue'[i]]
                          /\ found'[queue'[i]] <= found'[here] + 1
        BY <2>2 DEF Front
      <4>1. found'[here] = found[here]
        BY <1>n, <3>1
      <4>2. CASE i \in 1..Len(queue)
        BY <3>5, <3>6, <4>1, <4>2
      <4>3. CASE i = Len(queue')
        BY <3>1, <3>3, <3>4, <4>1, <4>3
      <4> QED
        BY <3>3, <4>2, <4>3
    <3>8. Ordered'
      <4> SUFFICES ASSUME NEW i \in 1..Len(queue'), NEW j \in 1..Len(queue'), i < j
                   PROVE  /\ found'[queue'[i]] <= found'[queue'[j]]
                          /\ found'[queue'[j]] <= found'[queue'[i]] + 1
        BY DEF Ordered
      <4>1. i \in 1..Len(queue)
        BY <3>3
      <4>2. CASE j \in 1..Len(queue)
        BY <1>0, <3>6, <4>1, <4>2 DEF OrderInv, Ordered
      <4>3. CASE j = Len(queue')
        <5>1. found'[queue'[j]] = found[here] + 1 /\ found'[queue'[i]] = found[queue[i]]
          BY <3>1, <3>3, <3>6, <4>1, <4>3
        <5>2. found[here] <= found[queue[i]] /\ found[queue[i]] <= found[here] + 1
              /\ found[here] \in Nat /\ found[queue[i]] \in Nat
          BY <3>4, <3>5, <4>1
        <5> QED
          BY <5>1, <5>2
      <4> QED
        BY <3>3, <4>2, <4>3
    <3>9. DepthIsDistance'
      <4> SUFFICES ASSUME NEW m \in Selected'
                   PROVE  /\ m \in Within'[found'[m]]
                          /\ found'[m] > 0 => m \notin Within'[found'[m] - 1]
        BY DEF DepthIsDistance
      <4>1. CASE m \in Selected
        <5>1. found'[m] = found[m] /\ found[m] \in Nat
          BY <1>n, <3>1, <4>1
        <5>2. m \in Within[found[m]] /\ (found[m] > 0 => m \notin Within[found[m] - 1])
          BY <1>0, <4>1 DEF DepthIsDistance
        <5>3. found[m] > 0 => found[m] - 1 \in Nat
          BY <5>1
        <5> QED
          BY <1>w, <5>1, <5>2, <5>3
      <4>2. CASE m = n
        <5>1. /\ found'[m] = found[here] + 1 /\ found'[m] - 1 = found[here]
              /\ found[here] + 1 \in Nat
          BY <3>1, <3>4, <4>2
        <5>2. m \notin Within[found[here]]
          BY <2>2, <2>4, <4>2, FirstMet
        <5>3. m \in Within[found[here] + 1]
          <6>1. here \in Within[found[here]]
            BY <1>0, <1>n DEF DepthIsDistance
          <6>2. m \in Adjacent(here)
            BY <1>0, <2>1, <2>2, <4>2 DEF WalkInv, RestIsAdjacent
          <6>3. Within[found[here] + 1] = Grow(Within[found[here]])
            BY <1>0, <3>4 DEF Unfolds
          <6> QED
            BY <6>1, <6>2, <6>3 DEF Grow
        <5> QED
          BY <1>w, <3>4, <5>1, <5>2, <5>3
      <4> QED
        BY <3>1, <4>1, <4>2
    <3>10. RestOpen' /\ Cardinality(Selected') <= ask'.limit
      BY <1>n, <1>a, <2>2, <3>1, <3>2 DEF RestOpen, Full
    <3> QED
      BY <1>0, <1>a, <3>1, <3>7, <3>8, <3>9, <3>10 DEF DistanceInv, OrderInv
  <2> QED
    BY <2>3, <2>4
<1>3. CASE Expanded
  <2>1. found' = found /\ queue' = queue /\ pc' = "walk"
    BY <1>3 DEF Expanded
  <2> QED
    BY <1>0, <1>f, <2>1 DEF DistanceInv, OrderInv, Ordered, Front, RestOpen
<1>4. CASE Answer
  <2>1. found' = found /\ queue' = queue /\ pc' = "done"
    BY <1>4 DEF Answer
  <2> QED
    BY <1>0, <1>f, <2>1 DEF DistanceInv, OrderInv, Ordered, Front, RestOpen
<1>5. CASE UNCHANGED vars
  <2>1. UNCHANGED <<found, queue, pc, here, rest>>
    BY <1>5 DEF vars
  <2> QED
    BY <1>0, <1>f, <2>1 DEF DistanceInv, OrderInv, Ordered, Front, RestOpen
<1> QED
  BY <1>1, <1>2, <1>3, <1>4, <1>5 DEF Next

LEMMA DistanceInvariant == Spec => []DistanceInv
BY DistanceInit, DistanceStep, PTL DEF Spec

(* The depth a node is shown at is its distance from the center over the   *)
(* links of the project in the direction asked for, for any links, request *)
(* and order of identifiers, also when the limit cuts the walk short.      *)
THEOREM DistanceCorrect == Spec => []DepthIsDistance
<1>1. DistanceInv => DepthIsDistance
  BY DEF DistanceInv
<1> QED
  BY <1>1, DistanceInvariant, PTL

(* An answer that does not say truncated has exactly the nodes within the  *)
(* depth asked for, and none has more nodes than the limit.                *)
THEOREM TruncationCorrect == Spec => []TruncationTold
<1>1. DistanceInv => TruncationTold
  <2> SUFFICES ASSUME DistanceInv PROVE TruncationTold
    OBVIOUS
  <2>0. /\ TypeOK /\ Unfolds(Within) /\ ask.depth \in Nat /\ DepthIsDistance
        /\ \A m \in Selected : found[m] \in 0..ask.depth
    BY UnfoldsAlways, ChainAssumption DEF DistanceInv, WalkInv, TypeInv, TypeOK, Request
  <2>1. ASSUME pc = "done", ~truncated PROVE Selected = Within[ask.depth]
    <3>1. queue = <<>> /\ ~Full
      BY <2>1 DEF DistanceInv, WalkInv, Ended
    <3>2. \A m \in Selected : found[m] < ask.depth => Adjacent(m) \subseteq Selected
      BY <2>1, <3>1 DEF DistanceInv, WalkInv, Frontier, Left, Queued
    <3>3. Within[ask.depth] \subseteq Selected
      BY <2>0, <3>2, NearerSelected DEF DistanceInv, OrderInv
    <3>4. ASSUME NEW m \in Selected PROVE m \in Within[ask.depth]
      <4>1. m \in Within[found[m]] /\ found[m] \in Nat /\ found[m] <= ask.depth
        BY <2>0 DEF DepthIsDistance
      <4> QED
        BY <2>0, <4>1, WithinGrows
    <3> QED
      BY <3>3, <3>4
  <2> QED
    BY <2>1 DEF TruncationTold, DistanceInv, OrderInv
<1> QED
  BY <1>1, DistanceInvariant, PTL

-----------------------------------------------------------------------------
(* What more verification links do to the findings                         *)

(* Links that say something else than "verifies" are the same in both.     *)
MoreVerified(fewer, more) ==
  /\ fewer \subseteq more /\ more \subseteq Links
  /\ \A l \in more \ fewer : Relation[l] = "verifies"

LEMMA SameOthers ==
  ASSUME NEW fewer, NEW more, MoreVerified(fewer, more), NEW n,
         NEW relations, "verifies" \notin relations
  PROVE  /\ Into(n, more, relations) = Into(n, fewer, relations)
         /\ OutOf(n, more, relations) = OutOf(n, fewer, relations)
BY DEF MoreVerified, Into, OutOf

LEMMA MoreInto ==
  ASSUME NEW fewer, NEW more, MoreVerified(fewer, more), NEW n, NEW relations
  PROVE  Into(n, fewer, relations) \subseteq Into(n, more, relations)
BY DEF MoreVerified, Into

LEMMA VerifyingFindsNoMore ==
  ASSUME NEW fewer, NEW more, MoreVerified(fewer, more)
  PROVE  Findings(more) \subseteq Findings(fewer)
<1>1. Unimplemented(more) \subseteq Unimplemented(fewer)
  <2>1. \A n : Into(n, more, {"satisfies", "implements"})
                 = Into(n, fewer, {"satisfies", "implements"})
    BY SameOthers
  <2> QED
    BY <2>1 DEF Unimplemented
<1>2. Unverified(more) \subseteq Unverified(fewer)
  <2>1. \A n : Into(n, fewer, {"verifies"}) \subseteq Into(n, more, {"verifies"})
    BY MoreInto
  <2> QED
    BY <2>1 DEF Unverified
<1>3. Orphans(more) \subseteq Orphans(fewer)
  <2>1. \A n : OutOf(n, more, {"implements", "satisfies", "derives"})
                 = OutOf(n, fewer, {"implements", "satisfies", "derives"})
    BY SameOthers
  <2> QED
    BY <2>1 DEF Orphans
<1>4. Conflicts(more) \subseteq Conflicts(fewer)
  <2>1. \A n : Into(n, more, {"implements"}) = Into(n, fewer, {"implements"})
    BY SameOthers
  <2> QED
    BY <2>1 DEF Conflicts
<1>5. Hidden(more) \subseteq Hidden(fewer)
  BY DEF Hidden, MoreVerified
<1>6. Uncovered(more) \subseteq Uncovered(fewer)
  <2>1. \A n : Traces(n, more) = Traces(n, fewer)
    BY SameOthers DEF Traces
  <2>2. \A n : Into(n, fewer, {"verifies"}) \subseteq Into(n, more, {"verifies"})
    BY MoreInto
  <2>3. ASSUME NEW b \in OfType("Architecture_Block"), Into(b, more, {"verifies"}) = {},
               \A l \in Traces(b, more) : Into(To[l], more, {"verifies"}) = {}
        PROVE  /\ Into(b, fewer, {"verifies"}) = {}
               /\ \A l \in Traces(b, fewer) : Into(To[l], fewer, {"verifies"}) = {}
    BY <2>1, <2>2, <2>3
  <2> QED
    BY <2>1, <2>3 DEF Uncovered
<1> QED
  BY <1>1, <1>2, <1>3, <1>4, <1>5, <1>6 DEF Findings

-----------------------------------------------------------------------------
(* What the registries look like                                           *)

Registry ==
  [nodes : SUBSET Nodes, edges : SUBSET Links, items : [Links -> ItemStatus],
   found : UNION {[D -> Triages \cup {"open"}] : D \in SUBSET AllFindings},
   runs : Seq(RunStatus), cursors : Seq(Freshness), feedback : 0..MaxFeedback]

Result == [links : SUBSET Links, findings : SUBSET AllFindings]

View == [pc : {"idle", "nodes", "edges"}, nodes : SUBSET Nodes, edges : SUBSET Links,
         live : SUBSET Links, decided : SUBSET Links]

(* A run in progress is the last one of memory, and neither has a cursor   *)
(* nor is in the store; each decision in progress will be one of feedback. *)
DashboardTypeInv ==
  /\ source \subseteq Links
  /\ mem \in Registry /\ disk \in Registry
  /\ Len(mem.runs) <= MaxRuns /\ Len(disk.runs) <= Len(mem.runs)
  /\ Len(mem.cursors) <= Len(mem.runs) /\ Len(disk.cursors) <= Len(disk.runs)
  /\ analyses \in Seq(Result)
  /\ run \in [pc : {"idle", "fetch", "staged"}, links : SUBSET Links]
  /\ run.pc # "idle" => /\ Len(disk.runs) < Len(mem.runs)
                        /\ Len(mem.cursors) < Len(mem.runs)
  /\ deciding \subseteq Links /\ IsFiniteSet(deciding)
  /\ mem.feedback + Cardinality(deciding) <= MaxFeedback
  /\ reader \in [Readers -> View]
  /\ settled \subseteq AllFindings /\ torn \in BOOLEAN
  /\ edits \in 0..MaxEdits /\ triages \in 0..MaxTriages /\ crashes \in 0..MaxCrashes

LEMMA FindingsTyped ==
  ASSUME NEW links \in SUBSET Links
  PROVE  Findings(links) \subseteq AllFindings
BY DEF AllFindings

LEMMA RegisteredTyped ==
  ASSUME NEW m \in Registry, NEW links \in SUBSET Links
  PROVE  /\ Registered(m.found, links)
              \in UNION {[D -> Triages \cup {"open"}] : D \in SUBSET AllFindings}
         /\ DOMAIN Registered(m.found, links) = DOMAIN m.found \cup Findings(links)
<1>1. PICK D \in SUBSET AllFindings : m.found \in [D -> Triages \cup {"open"}]
  BY DEF Registry
<1> DEFINE both == D \cup Findings(links)
<1>2. both \in SUBSET AllFindings /\ DOMAIN m.found = D
  BY <1>1, FindingsTyped
<1>3. Registered(m.found, links) \in [both -> Triages \cup {"open"}]
  BY <1>1, <1>2 DEF Registered
<1> QED
  BY <1>2, <1>3 DEF Registered

LEMMA DashboardTypesHold == DashboardTypeInv => DashboardTypeOK
<1> SUFFICES ASSUME DashboardTypeInv PROVE DashboardTypeOK
  OBVIOUS
<1>1. ASSUME NEW m \in Registry
      PROVE  /\ DOMAIN m.found \subseteq AllFindings
             /\ \A f \in DOMAIN m.found : m.found[f] \in Triages \cup {"open"}
  <2>1. PICK D \in SUBSET AllFindings : m.found \in [D -> Triages \cup {"open"}]
    BY DEF Registry
  <2> QED
    BY <2>1
<1>2. \A m \in {mem, disk} :
        /\ m.nodes \subseteq Nodes /\ m.edges \subseteq Links
        /\ m.items \in [Links -> ItemStatus]
        /\ DOMAIN m.found \subseteq AllFindings
        /\ \A f \in DOMAIN m.found : m.found[f] \in Triages \cup {"open"}
        /\ m.runs \in Seq(RunStatus)
        /\ m.cursors \in Seq(Freshness)
        /\ m.feedback \in 0..MaxFeedback
  BY <1>1 DEF DashboardTypeInv, Registry
<1>3. \A m \in {mem, disk} : Len(m.runs) <= MaxRuns /\ Len(m.cursors) <= Len(m.runs)
  BY DashboardAssumption, LenProperties DEF DashboardTypeInv, Registry
<1> QED
  BY <1>2, <1>3 DEF DashboardTypeInv, DashboardTypeOK, Result, View

LEMMA DashboardTypeInit == DashboardInit => DashboardTypeInv
<1> SUFFICES ASSUME DashboardInit PROVE DashboardTypeInv
  OBVIOUS
<1>1. Empty \in Registry
  <2>1. [f \in {} |-> "open"] \in [{} -> Triages \cup {"open"}]
    OBVIOUS
  <2>2. [f \in {} |-> "open"]
          \in UNION {[D -> Triages \cup {"open"}] : D \in SUBSET AllFindings}
    BY <2>1
  <2>3. /\ [l \in Links |-> "none"] \in [Links -> ItemStatus]
        /\ <<>> \in Seq(RunStatus) /\ <<>> \in Seq(Freshness) /\ 0 \in 0..MaxFeedback
    BY DashboardAssumption DEF ItemStatus
  <2> QED
    BY <2>2, <2>3 DEF Empty, Registry
<1>2. IsFiniteSet({}) /\ Cardinality({}) = 0
  BY FS_EmptySet
<1>3. /\ Empty.runs = <<>> /\ Empty.cursors = <<>> /\ Empty.feedback = 0
  BY DEF Empty
<1>4. source \subseteq Links /\ settled \subseteq AllFindings /\ torn \in BOOLEAN
  BY DashboardAssumption DEF DashboardInit
<1>8. analyses \in Seq(Result)
  BY DEF DashboardInit
<1>9. run \in [pc : {"idle", "fetch", "staged"}, links : SUBSET Links] /\ run.pc = "idle"
  BY DEF DashboardInit, Idle
<1>10. reader \in [Readers -> View]
  BY DEF DashboardInit, NoView, View
<1>5. /\ MaxRuns \in Nat /\ MaxEdits \in Nat /\ MaxTriages \in Nat
      /\ MaxFeedback \in Nat /\ MaxCrashes \in Nat
  BY DashboardAssumption
<1>6. /\ Len(mem.runs) = 0 /\ Len(disk.runs) = 0
      /\ Len(mem.cursors) = 0 /\ Len(disk.cursors) = 0
  BY <1>3 DEF DashboardInit
<1>7. mem \in Registry /\ disk \in Registry /\ mem.feedback = 0
  BY <1>1, <1>3 DEF DashboardInit
<1> QED
  BY <1>2, <1>4, <1>5, <1>6, <1>7, <1>8, <1>9, <1>10 DEF DashboardInit, DashboardTypeInv

-----------------------------------------------------------------------------
(* Every step keeps the types                                              *)

(* A registry with other values in its fields is one.                      *)
LEMMA RegistryKept ==
  ASSUME NEW m \in Registry
  PROVE  /\ m = [nodes |-> m.nodes, edges |-> m.edges, items |-> m.items, found |-> m.found,
                 runs |-> m.runs, cursors |-> m.cursors, feedback |-> m.feedback]
         /\ m.nodes \subseteq Nodes /\ m.edges \subseteq Links
         /\ m.items \in [Links -> ItemStatus]
         /\ m.found \in UNION {[D -> Triages \cup {"open"}] : D \in SUBSET AllFindings}
         /\ m.runs \in Seq(RunStatus) /\ m.cursors \in Seq(Freshness)
         /\ m.feedback \in 0..MaxFeedback
BY DEF Registry

(* The last run gets another status.                                       *)
LEMMA LastRunSet ==
  ASSUME NEW m \in Registry, Len(m.runs) > 0, NEW status \in RunStatus
  PROVE  /\ [m.runs EXCEPT ![Len(m.runs)] = status] \in Seq(RunStatus)
         /\ Len([m.runs EXCEPT ![Len(m.runs)] = status]) = Len(m.runs)
<1>1. m.runs \in Seq(RunStatus)
  BY RegistryKept
<1>2. Len(m.runs) \in 1..Len(m.runs)
  BY <1>1, LenProperties
<1> QED
  BY <1>1, <1>2, ExceptSeq

LEMMA DashboardTypeBeginRun ==
  ASSUME DashboardTypeInv, BeginRun
  PROVE  DashboardTypeInv'
<1>1. mem.runs \in Seq(RunStatus) /\ "running" \in RunStatus /\ disk.runs \in Seq(RunStatus)
  BY RegistryKept DEF DashboardTypeInv, RunStatus
<1>2. /\ Append(mem.runs, "running") \in Seq(RunStatus)
      /\ Len(Append(mem.runs, "running")) = Len(mem.runs) + 1
  BY <1>1, AppendProperties
<1>3. mem' \in Registry /\ mem'.runs = Append(mem.runs, "running")
  BY <1>2 DEF DashboardTypeInv, Registry, BeginRun
<1>4. mem'.cursors = mem.cursors /\ mem'.feedback = mem.feedback
  BY DEF DashboardTypeInv, Registry, BeginRun
<1>5. mem.cursors \in Seq(Freshness)
  BY RegistryKept DEF DashboardTypeInv
<1>6. /\ Len(mem.runs) \in Nat /\ Len(disk.runs) \in Nat /\ Len(mem.cursors) \in Nat
      /\ MaxRuns \in Nat
  BY <1>1, <1>5, LenProperties, DashboardAssumption
<1>7. Len(mem'.runs) = Len(mem.runs) + 1 /\ Len(mem.runs) < MaxRuns
  BY <1>2, <1>3 DEF BeginRun
<1>8. run' \in [pc : {"idle", "fetch", "staged"}, links : SUBSET Links]
  BY DEF DashboardTypeInv, BeginRun
<1>9. /\ UNCHANGED <<source, disk, analyses, deciding, reader, settled, torn, edits, triages,
                     crashes>>
      /\ disk.runs \in Seq(RunStatus) /\ Len(disk.cursors) <= Len(disk.runs)
      /\ Len(disk.runs) <= Len(mem.runs) /\ Len(mem.cursors) <= Len(mem.runs)
  BY <1>1 DEF DashboardTypeInv, BeginRun
<1>10. /\ Len(mem'.runs) <= MaxRuns /\ Len(disk'.runs) <= Len(mem'.runs)
       /\ Len(mem'.cursors) <= Len(mem'.runs)
       /\ Len(disk'.runs) < Len(mem'.runs) /\ Len(mem'.cursors) < Len(mem'.runs)
  BY <1>4, <1>6, <1>7, <1>9
<1> QED
  BY <1>3, <1>4, <1>8, <1>9, <1>10 DEF DashboardTypeInv

LEMMA DashboardTypeFailRun ==
  ASSUME DashboardTypeInv, FailRun
  PROVE  DashboardTypeInv'
<1> USE DEF FailRun
<1>1. /\ mem.runs \in Seq(RunStatus) /\ disk.runs \in Seq(RunStatus)
      /\ mem.cursors \in Seq(Freshness) /\ disk.cursors \in Seq(Freshness)
      /\ "failed" \in RunStatus
  BY RegistryKept DEF DashboardTypeInv, RunStatus
<1>2. /\ Len(mem.runs) \in Nat /\ Len(disk.runs) \in Nat
      /\ Len(mem.cursors) \in Nat /\ Len(disk.cursors) \in Nat
  BY <1>1, LenProperties
<1>3. Len(disk.runs) < Len(mem.runs)
  BY DEF DashboardTypeInv
<1>4. /\ [mem.runs EXCEPT ![Len(mem.runs)] = "failed"] \in Seq(RunStatus)
      /\ Len([mem.runs EXCEPT ![Len(mem.runs)] = "failed"]) = Len(mem.runs)
  BY <1>1, <1>2, <1>3, LastRunSet DEF DashboardTypeInv
<1>5. /\ Append(disk.runs, "failed") \in Seq(RunStatus)
      /\ Len(Append(disk.runs, "failed")) = Len(disk.runs) + 1
  BY <1>1, AppendProperties
<1>6. mem' \in Registry /\ Len(mem'.runs) = Len(mem.runs)
  BY <1>4 DEF DashboardTypeInv, Registry
<1>7. disk' \in Registry /\ Len(disk'.runs) = Len(disk.runs) + 1
  BY <1>5 DEF DashboardTypeInv, Registry
<1>8. /\ mem'.cursors = mem.cursors /\ mem'.feedback = mem.feedback
      /\ disk'.cursors = disk.cursors
  BY DEF DashboardTypeInv, Registry
<1>9. run' \in [pc : {"idle", "fetch", "staged"}, links : SUBSET Links] /\ run'.pc = "idle"
  BY DEF Idle
<1> QED
  BY <1>2, <1>3, <1>6, <1>7, <1>8, <1>9 DEF DashboardTypeInv

LEMMA DashboardTypeStage ==
  ASSUME DashboardTypeInv, Stage
  PROVE  DashboardTypeInv'
<1> USE DEF Stage
<1> DEFINE staged == [l \in Links |-> IF l \in run.links THEN "pending" ELSE mem.items[l]]
<1>1. staged \in [Links -> ItemStatus]
  BY RegistryKept DEF DashboardTypeInv, ItemStatus
<1>2. mem' = [mem EXCEPT !.nodes = Nodes, !.items = staged]
  BY DEF DashboardTypeInv, Registry
<1> HIDE DEF staged
<1>3. /\ mem' \in Registry /\ mem'.runs = mem.runs /\ mem'.cursors = mem.cursors
      /\ mem'.feedback = mem.feedback
  BY <1>1, <1>2 DEF DashboardTypeInv, Registry
<1>4. run' \in [pc : {"idle", "fetch", "staged"}, links : SUBSET Links] /\ run.pc # "idle"
  BY DEF DashboardTypeInv
<1> QED
  BY <1>3, <1>4 DEF DashboardTypeInv

LEMMA DashboardTypeFinishRun ==
  ASSUME DashboardTypeInv, FinishRun
  PROVE  DashboardTypeInv'
<1> DEFINE runs == [mem.runs EXCEPT ![Len(mem.runs)] = "succeeded"]
           registry == Registered(mem.found, run.links)
<1>1. PICK fresh \in Freshness :
        mem' = [mem EXCEPT !.runs = runs, !.cursors = Append(mem.cursors, fresh),
                           !.found = registry]
  BY DEF FinishRun, DashboardTypeInv, Registry
<1>2. /\ mem.runs \in Seq(RunStatus) /\ mem.cursors \in Seq(Freshness)
      /\ "succeeded" \in RunStatus /\ run.links \in SUBSET Links
  BY RegistryKept DEF DashboardTypeInv, RunStatus
<1>3. Len(mem.runs) \in Nat /\ Len(mem.cursors) \in Nat /\ Len(disk.runs) \in Nat
  BY <1>2, LenProperties, RegistryKept DEF DashboardTypeInv
<1>4. Len(mem.cursors) < Len(mem.runs)
  BY DEF FinishRun, DashboardTypeInv
<1>5. runs \in Seq(RunStatus) /\ Len(runs) = Len(mem.runs)
  BY <1>2, <1>3, <1>4, LastRunSet DEF DashboardTypeInv
<1>6. /\ Append(mem.cursors, fresh) \in Seq(Freshness)
      /\ Len(Append(mem.cursors, fresh)) = Len(mem.cursors) + 1
  BY <1>2, AppendProperties
<1>7. registry \in UNION {[D -> Triages \cup {"open"}] : D \in SUBSET AllFindings}
  BY <1>2, RegisteredTyped DEF DashboardTypeInv
<1> HIDE DEF runs, registry
<1>8. /\ mem' \in Registry /\ mem'.runs = runs /\ mem'.feedback = mem.feedback
      /\ mem'.cursors = Append(mem.cursors, fresh)
  BY <1>1, <1>5, <1>6, <1>7 DEF DashboardTypeInv, Registry
<1>9. disk' = mem'
  BY DEF FinishRun
<1>10. /\ run' \in [pc : {"idle", "fetch", "staged"}, links : SUBSET Links]
       /\ run'.pc = "idle"
  BY DEF FinishRun, Idle
<1>11. [links |-> run.links, findings |-> Findings(run.links)] \in Result
  BY <1>2, FindingsTyped DEF Result
<1>12. analyses' \in Seq(Result)
  BY <1>11, AppendProperties DEF FinishRun, DashboardTypeInv
<1> QED
  BY <1>3, <1>4, <1>5, <1>6, <1>8, <1>9, <1>10, <1>12 DEF DashboardTypeInv, FinishRun

LEMMA DashboardTypeTriage ==
  ASSUME DashboardTypeInv, NEW f \in DOMAIN mem.found,
         NEW status \in Triages \cup {"open"}, Triage(f, status)
  PROVE  DashboardTypeInv'
<1>0. mem.found \in UNION {[D -> Triages \cup {"open"}] : D \in SUBSET AllFindings}
  BY RegistryKept DEF DashboardTypeInv
<1>1. PICK D \in SUBSET AllFindings : mem.found \in [D -> Triages \cup {"open"}]
  BY <1>0
<1> DEFINE registry == [mem.found EXCEPT ![f] = status]
<1>2. registry \in [D -> Triages \cup {"open"}]
  BY <1>1
<1>3. registry \in UNION {[E -> Triages \cup {"open"}] : E \in SUBSET AllFindings}
  BY <1>2
<1>4. f \in AllFindings
  BY <1>1
<1> HIDE DEF registry
<1>5. mem' = [mem EXCEPT !.found = registry]
  BY DEF Triage, registry
<1>6. /\ mem' \in Registry /\ mem'.found = registry
      /\ mem'.runs = mem.runs /\ mem'.cursors = mem.cursors /\ mem'.feedback = mem.feedback
  BY <1>3, <1>5 DEF DashboardTypeInv, Registry
<1>7. disk' = [disk EXCEPT !.found = registry, !.items = mem.items, !.edges = mem.edges,
                           !.feedback = mem.feedback]
  BY <1>6 DEF Triage
<1>8. disk' \in Registry /\ disk'.runs = disk.runs /\ disk'.cursors = disk.cursors
  BY <1>3, <1>7 DEF DashboardTypeInv, Registry
<1>9. triages' \in 0..MaxTriages
  <2>1. MaxTriages \in Nat /\ triages \in 0..MaxTriages
    BY DashboardAssumption DEF DashboardTypeInv
  <2>2. triages < MaxTriages /\ triages' = triages + 1
    BY DEF Triage
  <2> QED
    BY <2>1, <2>2
<1>10. settled' \subseteq AllFindings
  BY <1>4 DEF Triage, DashboardTypeInv
<1> QED
  BY <1>6, <1>8, <1>9, <1>10 DEF DashboardTypeInv, Triage

LEMMA DashboardTypeCommit ==
  ASSUME DashboardTypeInv, NEW l \in Links, Commit(l)
  PROVE  DashboardTypeInv'
<1>1. mem' = [mem EXCEPT !.edges = mem.edges \cup {l}]
  BY DEF Commit, DashboardTypeInv, Registry
<1>2. /\ mem' \in Registry /\ mem'.runs = mem.runs /\ mem'.cursors = mem.cursors
      /\ mem'.feedback = mem.feedback
  BY <1>1 DEF DashboardTypeInv, Registry
<1>3. /\ IsFiniteSet(deciding \cup {l})
      /\ Cardinality(deciding \cup {l}) = Cardinality(deciding) + 1
      /\ Cardinality(deciding) \in Nat
  BY FS_AddElement, FS_CardinalityType DEF DashboardTypeInv, Commit
<1>4. mem.feedback \in Nat /\ MaxFeedback \in Nat
  BY RegistryKept, DashboardAssumption DEF DashboardTypeInv
<1>5. /\ deciding' = deciding \cup {l}
      /\ mem.feedback + Cardinality(deciding) < MaxFeedback
  BY DEF Commit
<1>6. /\ deciding' \subseteq Links /\ IsFiniteSet(deciding')
      /\ mem'.feedback + Cardinality(deciding') <= MaxFeedback
  BY <1>2, <1>3, <1>4, <1>5 DEF DashboardTypeInv
<1> QED
  BY <1>2, <1>6 DEF DashboardTypeInv, Commit

LEMMA DashboardTypeMark ==
  ASSUME DashboardTypeInv, NEW l \in Links, NEW status \in ItemStatus, Mark(l, status),
         \/ deciding' = deciding /\ mem.feedback + Cardinality(deciding) < MaxFeedback
         \/ l \in deciding /\ deciding' = deciding \ {l}
  PROVE  DashboardTypeInv'
<1> DEFINE items == [mem.items EXCEPT ![l] = status]
<1>1. items \in [Links -> ItemStatus]
  BY RegistryKept DEF DashboardTypeInv
<1>2. mem.feedback \in Nat /\ MaxFeedback \in Nat
  BY RegistryKept, DashboardAssumption DEF DashboardTypeInv
<1>3. IsFiniteSet(deciding) /\ Cardinality(deciding) \in Nat
  BY FS_CardinalityType DEF DashboardTypeInv
<1>4. l \in deciding => /\ IsFiniteSet(deciding \ {l})
                        /\ Cardinality(deciding \ {l}) = Cardinality(deciding) - 1
                        /\ Cardinality(deciding \ {l}) \in Nat
  BY <1>3, FS_RemoveElement, FS_CardinalityType
<1>5. /\ deciding' \subseteq Links /\ IsFiniteSet(deciding') /\ Cardinality(deciding') \in Nat
      /\ mem.feedback + 1 + Cardinality(deciding') <= MaxFeedback
  <2>1. deciding \subseteq Links /\ mem.feedback + Cardinality(deciding) <= MaxFeedback
    BY DEF DashboardTypeInv
  <2>2. CASE deciding' = deciding /\ mem.feedback + Cardinality(deciding) < MaxFeedback
    BY <1>2, <1>3, <2>1, <2>2
  <2>3. CASE l \in deciding /\ deciding' = deciding \ {l}
    <3> DEFINE n == Cardinality(deciding)
               k == Cardinality(deciding \ {l})
    <3>1. k = n - 1 /\ n \in Nat /\ k \in Nat /\ mem.feedback + n <= MaxFeedback
      BY <1>3, <1>4, <2>1, <2>3
    <3> HIDE DEF n, k
    <3>2. mem.feedback + 1 + k <= MaxFeedback
      BY <1>2, <3>1
    <3> QED
      BY <1>4, <2>1, <2>3, <3>1, <3>2 DEF k
  <2> QED
    BY <2>2, <2>3
<1>6. mem' = [mem EXCEPT !.items = items, !.feedback = mem.feedback + 1]
  BY DEF Mark, DashboardTypeInv, Registry
<1> HIDE DEF items
<1>7. mem.feedback + 1 \in 0..MaxFeedback
  BY <1>2, <1>5
<1>8. /\ mem' \in Registry /\ mem'.runs = mem.runs /\ mem'.cursors = mem.cursors
      /\ mem'.feedback = mem.feedback + 1 /\ mem'.items = items
  BY <1>1, <1>6, <1>7 DEF DashboardTypeInv, Registry
<1>9. disk' = [disk EXCEPT !.items = items, !.edges = mem.edges,
                           !.feedback = mem.feedback + 1]
  BY <1>8 DEF Mark
<1>10. disk' \in Registry /\ disk'.runs = disk.runs /\ disk'.cursors = disk.cursors
  BY <1>1, <1>7, <1>9 DEF DashboardTypeInv, Registry
<1>11. reader' \in [Readers -> View]
  <2>1. NoView \in View
    BY DEF NoView, View
  <2>2. ASSUME NEW r \in Readers PROVE [reader[r] EXCEPT !.decided = @ \cup {l}] \in View
    BY DEF DashboardTypeInv, View
  <2> QED
    BY <2>1, <2>2 DEF Mark
<1> QED
  BY <1>5, <1>8, <1>10, <1>11 DEF DashboardTypeInv, Mark

LEMMA DashboardTypeRestart ==
  ASSUME DashboardTypeInv, Restart
  PROVE  DashboardTypeInv'
<1>1. /\ mem' = disk /\ disk' = disk /\ analyses' = <<>> /\ run' = Idle /\ deciding' = {}
      /\ reader' = [r \in Readers |-> NoView]
  BY DEF Restart
<1>2. /\ disk.runs \in Seq(RunStatus) /\ mem.runs \in Seq(RunStatus)
      /\ disk.feedback \in 0..MaxFeedback
  BY RegistryKept DEF DashboardTypeInv
<1>3. /\ Len(disk.runs) \in Nat /\ Len(mem.runs) \in Nat /\ disk.feedback + 0 <= MaxFeedback
      /\ MaxRuns \in Nat
  BY <1>2, LenProperties, DashboardAssumption
<1>4. /\ run' \in [pc : {"idle", "fetch", "staged"}, links : SUBSET Links]
      /\ run'.pc = "idle"
  BY <1>1 DEF Idle
<1>5. reader' \in [Readers -> View]
  BY <1>1 DEF NoView, View
<1>6. IsFiniteSet({}) /\ Cardinality({}) = 0
  BY FS_EmptySet
<1>7. analyses' \in Seq(Result)
  BY <1>1
<1>8. crashes' \in 0..MaxCrashes /\ torn' \in BOOLEAN
  BY DashboardAssumption DEF Restart, DashboardTypeInv
<1> QED
  BY <1>1, <1>3, <1>4, <1>5, <1>6, <1>7, <1>8 DEF DashboardTypeInv, Restart

LEMMA DashboardTypeEdit ==
  ASSUME DashboardTypeInv, NEW l \in Links, Edit(l)
  PROVE  DashboardTypeInv'
<1>1. edits' \in 0..MaxEdits /\ source' \subseteq Links
  BY DashboardAssumption DEF Edit, DashboardTypeInv
<1> QED
  BY <1>1 DEF DashboardTypeInv, Edit

LEMMA DashboardTypeReader ==
  ASSUME DashboardTypeInv, NEW r \in Readers, ReadNodes(r) \/ ReadEdges(r) \/ Show(r)
  PROVE  DashboardTypeInv'
<1>1. mem.nodes \subseteq Nodes /\ mem.edges \subseteq Links /\ Live \subseteq Links
  BY RegistryKept DEF DashboardTypeInv, Live, Known, Joined, PendingLinks
<1>2. [NoView EXCEPT !.pc = "nodes", !.nodes = mem.nodes, !.live = Live] \in View
  BY <1>1 DEF NoView, View
<1>3. NoView \in View
  BY DEF NoView, View
<1>4. ASSUME ReadEdges(r) PROVE reader' \in [Readers -> View]
  <2>1. [reader[r] EXCEPT !.pc = "edges", !.edges = mem.edges] \in View
    BY <1>1 DEF DashboardTypeInv, View
  <2> QED
    BY <1>4, <2>1 DEF DashboardTypeInv, ReadEdges
<1>5. reader' \in [Readers -> View]
  BY <1>2, <1>3, <1>4 DEF DashboardTypeInv, ReadNodes, Show
<1> QED
  BY <1>5 DEF DashboardTypeInv, ReadNodes, ReadEdges, Show

LEMMA DashboardTypeStep == DashboardTypeInv /\ [DashboardNext]_dashboardVars => DashboardTypeInv'
<1> SUFFICES ASSUME DashboardTypeInv, [DashboardNext]_dashboardVars PROVE DashboardTypeInv'
  OBVIOUS
<1>1. ASSUME UNCHANGED dashboardVars PROVE DashboardTypeInv'
  BY <1>1 DEF dashboardVars, DashboardTypeInv
<1>2. ASSUME NEW l \in Links, Approved(l) PROVE DashboardTypeInv'
  BY <1>2, DashboardTypeMark DEF Approved, ItemStatus
<1>3. ASSUME NEW l \in Links, Reject(l) PROVE DashboardTypeInv'
  BY <1>3, DashboardTypeMark DEF Reject, ItemStatus
<1>4. ASSUME NEW l \in Links, Edit(l) \/ Commit(l) PROVE DashboardTypeInv'
  BY <1>4, DashboardTypeEdit, DashboardTypeCommit
<1> QED
  BY <1>1, <1>2, <1>3, <1>4, DashboardTypeBeginRun, DashboardTypeFailRun, DashboardTypeStage,
     DashboardTypeFinishRun, DashboardTypeRestart, DashboardTypeTriage, DashboardTypeReader
  DEF DashboardNext

LEMMA DashboardTypesKept == DashboardSpec => []DashboardTypeInv
BY DashboardTypeInit, DashboardTypeStep, PTL DEF DashboardSpec

(* The registries, the results and the readers of the pages keep their     *)
(* shape for any nodes, links and sources, through restarts.               *)
THEOREM DashboardTypeCorrect == DashboardSpec => []DashboardTypeOK
BY DashboardTypesKept, DashboardTypesHold, PTL

-----------------------------------------------------------------------------
(* Health and the queue                                                    *)

(* A project shown as healthy has nothing urgent in its work queue, for    *)
(* any numbers of runs, findings, proposals and sources: the two count     *)
(* over the same registries (get_health, get_work_queue).                  *)
THEOREM HealthCorrect == DashboardSpec => []HealthyIsQuiet
<1>1. DashboardTypeInv => HealthyIsQuiet
  <2> SUFFICES ASSUME DashboardTypeInv, Health = "healthy", NEW e \in OpenQueue
               PROVE  \/ e.type = "finding" /\ e.priority \notin {"critical", "high"}
                      \/ e.type = "failed_run" /\ e.of < Len(mem.runs)
                      \/ e.type = "source_warning" /\ e.of < Len(mem.cursors)
    BY DEF HealthyIsQuiet
  <2>1. /\ mem.runs \in Seq(RunStatus) /\ mem.cursors \in Seq(Freshness)
    BY RegistryKept DEF DashboardTypeInv
  <2>2. /\ mem.runs # <<>> /\ Last(mem.runs) # "failed" /\ Open("critical") = {}
        /\ Open("high") = {} /\ PendingLinks = {} /\ GatePassed
        /\ mem.cursors # <<>> => Last(mem.cursors) = "fresh"
    BY DEF Health
  <2>3. CASE \E f \in OpenFindings : e = Entry("finding", f, Severity(f))
    BY <2>2, <2>3 DEF Open, Entry
  <2>4. CASE \E i \in DOMAIN mem.runs :
                mem.runs[i] = "failed" /\ e = Entry("failed_run", i, "critical")
    <3>1. PICK i \in DOMAIN mem.runs :
             mem.runs[i] = "failed" /\ e = Entry("failed_run", i, "critical")
      BY <2>4
    <3>2. i \in 1..Len(mem.runs) /\ Len(mem.runs) \in Nat /\ i # Len(mem.runs)
      BY <2>1, <2>2, <3>1, LenProperties DEF Last
    <3> QED
      BY <3>1, <3>2 DEF Entry
  <2>5. CASE \E i \in DOMAIN mem.cursors, p \in {"high", "medium"} :
                mem.cursors[i] # "fresh" /\ e = Entry("source_warning", i, p)
    <3>1. PICK i \in DOMAIN mem.cursors, p \in {"high", "medium"} :
             mem.cursors[i] # "fresh" /\ e = Entry("source_warning", i, p)
      BY <2>5
    <3>2. i \in 1..Len(mem.cursors) /\ Len(mem.cursors) \in Nat
      BY <2>1, <3>1, LenProperties
    <3>3. i # Len(mem.cursors)
      BY <2>1, <2>2, <3>1, <3>2 DEF Last
    <3> QED
      BY <3>1, <3>2, <3>3 DEF Entry
  <2> QED
    BY <2>2, <2>3, <2>4, <2>5 DEF OpenQueue
<1> QED
  BY <1>1, DashboardTypesKept, PTL

-----------------------------------------------------------------------------
(* The statuses of findings                                                *)

(* Each result holds what its links give, all of it registered; a finding  *)
(* is open exactly if no reviewer triaged it since it was last found; and  *)
(* the store has the statuses of memory.                                   *)
StatusInv ==
  /\ disk.found = mem.found
  /\ \A f \in DOMAIN mem.found : f \in settled <=> mem.found[f] # "open"
  /\ \A i \in DOMAIN analyses :
        /\ analyses[i].findings = Findings(analyses[i].links)
        /\ analyses[i].findings \subseteq DOMAIN mem.found

LEMMA StatusInit == DashboardInit => StatusInv
BY DEF DashboardInit, StatusInv, Empty

LEMMA StatusUntouched ==
  ASSUME DashboardTypeInv, DashboardNext, ~FinishRun, ~Restart,
         ~ \E f \in DOMAIN mem.found, status \in Triages \cup {"open"} : Triage(f, status)
  PROVE  /\ mem'.found = mem.found /\ disk'.found = disk.found
         /\ settled' = settled /\ analyses' = analyses
<1>1. mem \in Registry /\ disk \in Registry
  BY DEF DashboardTypeInv
<1>2. ASSUME NEW l \in Links, NEW status, Mark(l, status)
      PROVE  /\ mem'.found = mem.found /\ disk'.found = disk.found
             /\ settled' = settled /\ analyses' = analyses
  BY <1>1, <1>2 DEF Mark, Registry
<1>3. ASSUME NEW l \in Links, Edit(l) \/ Commit(l) \/ Approved(l) \/ Reject(l)
      PROVE  /\ mem'.found = mem.found /\ disk'.found = disk.found
             /\ settled' = settled /\ analyses' = analyses
  BY <1>1, <1>2, <1>3 DEF Edit, Commit, Approved, Reject, Registry
<1>4. ASSUME NEW r \in Readers, ReadNodes(r) \/ ReadEdges(r) \/ Show(r)
      PROVE  /\ mem'.found = mem.found /\ disk'.found = disk.found
             /\ settled' = settled /\ analyses' = analyses
  BY <1>4 DEF ReadNodes, ReadEdges, Show
<1>5. ASSUME BeginRun \/ FailRun \/ Stage
      PROVE  /\ mem'.found = mem.found /\ disk'.found = disk.found
             /\ settled' = settled /\ analyses' = analyses
  BY <1>1, <1>5 DEF BeginRun, FailRun, Stage, Registry
<1> QED
  BY <1>3, <1>4, <1>5 DEF DashboardNext

LEMMA StatusFinishRun ==
  ASSUME DashboardTypeInv, StatusInv, FinishRun
  PROVE  StatusInv'
<1> DEFINE registry == Registered(mem.found, run.links)
<1>1. mem'.found = registry /\ disk' = mem' /\ settled' = settled \ Findings(run.links)
  BY DEF FinishRun, DashboardTypeInv, Registry
<1>2. DOMAIN registry = DOMAIN mem.found \cup Findings(run.links)
  BY DEF Registered
<1>3. \A f \in DOMAIN registry :
         registry[f] = IF f \in Findings(run.links) THEN "open" ELSE mem.found[f]
  BY DEF Registered
<1> HIDE DEF registry
<1>4. \A f \in DOMAIN mem'.found : f \in settled' <=> mem'.found[f] # "open"
  BY <1>1, <1>2, <1>3 DEF StatusInv
<1> DEFINE new == [links |-> run.links, findings |-> Findings(run.links)]
<1>5. analyses \in Seq(Result) /\ new \in Result /\ analyses' = Append(analyses, new)
  BY FindingsTyped DEF FinishRun, DashboardTypeInv, Result
<1>6. /\ new.findings = Findings(new.links)
      /\ new.findings \subseteq DOMAIN registry
  BY <1>2
<1> HIDE DEF new
<1>7. ASSUME NEW i \in DOMAIN analyses'
      PROVE  analyses'[i] = new \/ (i \in DOMAIN analyses /\ analyses'[i] = analyses[i])
  BY <1>5, AppendProperties, LenProperties
<1>8. \A i \in DOMAIN analyses' :
         /\ analyses'[i].findings = Findings(analyses'[i].links)
         /\ analyses'[i].findings \subseteq DOMAIN mem'.found
  BY <1>1, <1>2, <1>6, <1>7 DEF StatusInv
<1> QED
  BY <1>1, <1>4, <1>8 DEF StatusInv

LEMMA StatusTriage ==
  ASSUME DashboardTypeInv, StatusInv, NEW f \in DOMAIN mem.found,
         NEW status \in Triages \cup {"open"}, Triage(f, status)
  PROVE  StatusInv'
<1>1. mem'.found = [mem.found EXCEPT ![f] = status] /\ disk'.found = mem'.found
  BY DEF Triage, DashboardTypeInv, Registry
<1>2. settled' = IF status = "open" THEN settled \ {f} ELSE settled \cup {f}
  BY DEF Triage
<1>3. /\ DOMAIN mem'.found = DOMAIN mem.found
      /\ \A g \in DOMAIN mem.found :
            mem'.found[g] = IF g = f THEN status ELSE mem.found[g]
  BY <1>1
<1>4. \A g \in DOMAIN mem'.found : g \in settled' <=> mem'.found[g] # "open"
  BY <1>2, <1>3 DEF StatusInv
<1>5. analyses' = analyses
  BY DEF Triage
<1> QED
  BY <1>1, <1>3, <1>4, <1>5 DEF StatusInv

LEMMA StatusStep ==
  DashboardTypeInv /\ StatusInv /\ [DashboardNext]_dashboardVars => StatusInv'
<1> SUFFICES ASSUME DashboardTypeInv, StatusInv, [DashboardNext]_dashboardVars PROVE StatusInv'
  OBVIOUS
<1>1. ASSUME /\ mem'.found = mem.found /\ disk'.found = disk.found
             /\ settled' = settled /\ analyses' = analyses
      PROVE  StatusInv'
  BY <1>1 DEF StatusInv
<1>2. ASSUME UNCHANGED dashboardVars PROVE StatusInv'
  BY <1>1, <1>2 DEF dashboardVars
<1>3. ASSUME Restart PROVE StatusInv'
  <2>1. mem' = disk /\ disk' = disk /\ analyses' = <<>> /\ settled' = settled
    BY <1>3 DEF Restart
  <2>2. DOMAIN analyses' = {}
    BY <2>1
  <2> QED
    BY <2>1, <2>2 DEF StatusInv
<1> QED
  BY <1>1, <1>2, <1>3, StatusUntouched, StatusFinishRun, StatusTriage

LEMMA StatusInvariant == DashboardSpec => []StatusInv
BY StatusInit, StatusStep, DashboardTypesKept, PTL DEF DashboardSpec

(* The queue has every finding of the last analysis as open unless a       *)
(* reviewer gave it another status since, and none that a reviewer did,    *)
(* over any number of later analyses and restarts (run_analysis,           *)
(* update_finding_status, _project_findings).                              *)
THEOREM QueueCorrect == DashboardSpec => []QueueFollowsTriage
<1>1. DashboardTypeInv /\ StatusInv => QueueFollowsTriage
  <2> SUFFICES ASSUME DashboardTypeInv, StatusInv PROVE QueueFollowsTriage
    OBVIOUS
  <2> DEFINE held == UNION {analyses[i].findings : i \in DOMAIN analyses}
  <2>1. held \subseteq DOMAIN mem.found
    BY DEF StatusInv
  <2>2. /\ held \subseteq DOMAIN ProjectFindings
        /\ DOMAIN ProjectFindings \subseteq DOMAIN mem.found
        /\ \A f \in DOMAIN ProjectFindings : ProjectFindings[f] = mem.found[f]
    BY <2>1 DEF ProjectFindings
  <2>3. OpenFindings = {f \in DOMAIN ProjectFindings : f \notin settled}
    BY <2>2 DEF OpenFindings, StatusInv
  <2>4. analyses # <<>> => Last(analyses).findings \subseteq held
    <3>1. analyses \in Seq(Result)
      BY DEF DashboardTypeInv
    <3>2. analyses # <<>> => Len(analyses) \in DOMAIN analyses
      BY <3>1, LenProperties
    <3> QED
      BY <3>2 DEF Last
  <2> QED
    BY <2>2, <2>3, <2>4 DEF QueueFollowsTriage
<1> QED
  BY <1>1, StatusInvariant, DashboardTypesKept, PTL

(* When an analysis differs from an earlier one by verification links it   *)
(* has in addition, it finds nothing the earlier one did not, for any      *)
(* nodes and links: each rule of findings/rules.py is monotone in them.    *)
THEOREM VerifyingCorrect == DashboardSpec => []VerifyingHelps
<1>1. DashboardTypeInv /\ StatusInv => VerifyingHelps
  <2> SUFFICES ASSUME DashboardTypeInv, StatusInv,
                      NEW i \in DOMAIN analyses, NEW j \in DOMAIN analyses,
                      analyses[i].links \subseteq analyses[j].links,
                      \A l \in analyses[j].links \ analyses[i].links : Relation[l] = "verifies"
               PROVE  analyses[j].findings \subseteq analyses[i].findings
    BY DEF VerifyingHelps
  <2>1. analyses[j].links \subseteq Links
    <3>1. analyses[j] \in Result
      BY ElementOfSeq, LenProperties DEF DashboardTypeInv
    <3> QED
      BY <3>1 DEF Result
  <2>2. MoreVerified(analyses[i].links, analyses[j].links)
    BY <2>1 DEF MoreVerified
  <2> QED
    BY <2>2, VerifyingFindsNoMore DEF StatusInv
<1> QED
  BY <1>1, StatusInvariant, DashboardTypesKept, PTL

-----------------------------------------------------------------------------
(* The links of the graph page                                             *)

(* As long as no process stopped between staging and storing: once there   *)
(* is an item all nodes are known, and the store has the nodes memory has  *)
(* unless an analysis has still to store them.  A link being decided has   *)
(* an item.                                                                *)
NodesInv ==
  /\ \A l \in deciding : mem.items[l] # "none"
  /\ ~torn =>
       /\ (\E l \in Links : mem.items[l] # "none" \/ disk.items[l] # "none")
             => mem.nodes = Nodes
       /\ run.pc # "staged" => disk.nodes = mem.nodes

LEMMA NodesInit == DashboardInit => NodesInv
BY DEF DashboardInit, NodesInv, Empty

LEMMA NodesMark ==
  ASSUME DashboardTypeInv, NodesInv, NEW l \in Links, NEW status \in ItemStatus \ {"none"},
         Mark(l, status), mem.items[l] # "none", deciding' \subseteq deciding
  PROVE  NodesInv'
<1> DEFINE items == [mem.items EXCEPT ![l] = status]
<1>1. /\ mem'.items = items /\ disk'.items = items
      /\ mem'.nodes = mem.nodes /\ disk'.nodes = disk.nodes
  BY DEF Mark, DashboardTypeInv, Registry
<1>2. \A k \in Links : items[k] = IF k = l THEN status ELSE mem.items[k]
  BY RegistryKept DEF DashboardTypeInv
<1> HIDE DEF items
<1>3. run' = run /\ torn' = torn
  BY DEF Mark
<1>4. \A k \in deciding' : mem'.items[k] # "none"
  BY <1>1, <1>2 DEF NodesInv, DashboardTypeInv
<1>5. \A k \in Links : mem'.items[k] # "none" => mem.items[k] # "none"
  BY <1>1, <1>2
<1> QED
  BY <1>1, <1>3, <1>4, <1>5 DEF NodesInv

LEMMA NodesStage ==
  ASSUME DashboardTypeInv, NodesInv, Stage
  PROVE  NodesInv'
<1>1. /\ mem'.nodes = Nodes /\ run'.pc = "staged" /\ disk' = disk /\ torn' = torn
      /\ mem'.items = [l \in Links |-> IF l \in run.links THEN "pending" ELSE mem.items[l]]
      /\ deciding' = deciding
  BY DEF Stage, DashboardTypeInv, Registry
<1>2. \A l \in deciding : mem'.items[l] # "none"
  BY <1>1 DEF NodesInv, DashboardTypeInv
<1> QED
  BY <1>1, <1>2 DEF NodesInv

LEMMA NodesStep ==
  DashboardTypeInv /\ NodesInv /\ [DashboardNext]_dashboardVars => NodesInv'
<1> SUFFICES ASSUME DashboardTypeInv, NodesInv, [DashboardNext]_dashboardVars PROVE NodesInv'
  OBVIOUS
<1>0. mem \in Registry /\ disk \in Registry
  BY DEF DashboardTypeInv
\* A step that leaves nodes and items alone and stores, if any, the items of memory.
<1>1. ASSUME mem'.nodes = mem.nodes, mem'.items = mem.items, disk'.nodes = disk.nodes,
             disk'.items \in {disk.items, mem.items}, torn' = torn,
             run'.pc = "staged" \/ run.pc # "staged",
             \A l \in deciding' \ deciding : mem.items[l] # "none"
      PROVE  NodesInv'
  BY <1>1 DEF NodesInv
<1>2. ASSUME UNCHANGED dashboardVars PROVE NodesInv'
  BY <1>2, <1>1 DEF dashboardVars
<1>3. ASSUME NEW l \in Links, Approved(l) \/ Reject(l) PROVE NodesInv'
  BY <1>3, NodesMark DEF Approved, Reject, ItemStatus, NodesInv
<1>4. ASSUME NEW l \in Links, Edit(l) \/ Commit(l) PROVE NodesInv'
  BY <1>0, <1>1, <1>4 DEF Edit, Commit, Registry
<1>5. ASSUME NEW f, NEW status, Triage(f, status) PROVE NodesInv'
  <2>1. /\ mem'.nodes = mem.nodes /\ mem'.items = mem.items /\ disk'.nodes = disk.nodes
        /\ disk'.items = mem.items /\ torn' = torn /\ run' = run /\ deciding' = deciding
    BY <1>0, <1>5 DEF Triage, Registry
  <2> QED
    BY <1>1, <2>1
<1>6. ASSUME NEW r \in Readers, ReadNodes(r) \/ ReadEdges(r) \/ Show(r) PROVE NodesInv'
  BY <1>1, <1>6 DEF ReadNodes, ReadEdges, Show
<1>7. ASSUME BeginRun \/ FailRun PROVE NodesInv'
  <2>1. /\ mem'.nodes = mem.nodes /\ mem'.items = mem.items /\ disk'.nodes = disk.nodes
        /\ disk'.items = disk.items /\ torn' = torn /\ deciding' = deciding
        /\ run.pc # "staged"
    BY <1>0, <1>7 DEF BeginRun, FailRun, Registry
  <2> QED
    BY <1>1, <2>1
<1>8. ASSUME FinishRun PROVE NodesInv'
  <2>1. /\ mem'.nodes = mem.nodes /\ mem'.items = mem.items /\ disk' = mem'
        /\ torn' = torn /\ deciding' = deciding
    BY <1>0, <1>8 DEF FinishRun, Registry
  <2> QED
    BY <2>1 DEF NodesInv
<1>9. ASSUME Restart PROVE NodesInv'
  <2>1. /\ mem' = disk /\ disk' = disk /\ deciding' = {}
        /\ torn' = (torn \/ run.pc = "staged")
    BY <1>9 DEF Restart
  <2> QED
    BY <2>1 DEF NodesInv
<1> QED
  BY <1>2, <1>3, <1>4, <1>5, <1>6, <1>7, <1>8, <1>9, NodesStage DEF DashboardNext

LEMMA NodesInvariant == DashboardSpec => []NodesInv
BY NodesInit, NodesStep, DashboardTypesKept, PTL DEF DashboardSpec

-----------------------------------------------------------------------------
(* What a limit leaves of a page                                           *)

(* The first m of some nodes.                                              *)
First(S, v, m) == {x \in S : Cardinality(Sooner(x, S, v)) < m}

LEMMA GroupTyped == ASSUME NEW x, NEW v PROVE Group(x, v) \in Nat
<1> DEFINE touching == Touching(x, v)
<1>1. Group(x, v) = (IF touching = {} THEN 0 ELSE 4) + (IF x \in v.risky THEN 0 ELSE 2)
                      + (IF touching \cap v.pending # {} THEN 0 ELSE 1)
  BY DEF Group
<1> HIDE DEF touching
<1> QED
  BY <1>1

(* Of two nodes one is sorted before the other, and what is sorted before  *)
(* it is sorted before the other too.                                      *)
LEMMA SoonerOrder ==
  ASSUME NEW v, NEW S \in SUBSET Nodes, NEW x \in S, NEW y \in S
  PROVE  /\ x # y => x \in Sooner(y, S, v) \/ y \in Sooner(x, S, v)
         /\ x \in Sooner(y, S, v) => Sooner(x, S, v) \subseteq Sooner(y, S, v) \ {x}
<1> DEFINE g(z) == Group(z, v)
<1>1. \A z \in S : g(z) \in Nat /\ Order[z] \in Nat
  BY GroupTyped, DashboardAssumption
<1>2. x # y => Order[x] # Order[y]
  BY DashboardAssumption
<1>3. \A u, z \in S : u \in Sooner(z, S, v) <=>
         u # z /\ (g(u) < g(z) \/ (Order[u] < Order[z] /\ g(u) = g(z)))
  BY DEF Sooner
<1> HIDE DEF g
<1>4. x # y => x \in Sooner(y, S, v) \/ y \in Sooner(x, S, v)
  BY <1>1, <1>2, <1>3
<1>5. ASSUME x \in Sooner(y, S, v), NEW z \in Sooner(x, S, v)
      PROVE  z \in Sooner(y, S, v) \ {x}
  <2>1. z \in S
    BY DEF Sooner
  <2>2. z # x /\ (g(z) < g(x) \/ (Order[z] < Order[x] /\ g(z) = g(x)))
    BY <1>3, <1>5, <2>1
  <2>3. x # y /\ (g(x) < g(y) \/ (Order[x] < Order[y] /\ g(x) = g(y)))
    BY <1>3, <1>5
  <2>4. g(z) < g(y) \/ (Order[z] < Order[y] /\ g(z) = g(y))
    BY <1>1, <2>1, <2>2, <2>3
  <2>5. z # y
    BY <1>1, <2>4
  <2> QED
    BY <1>3, <2>1, <2>2, <2>4, <2>5
<1> QED
  BY <1>4, <1>5

LEMMA SoonerCount ==
  ASSUME NEW v, NEW S \in SUBSET Nodes, NEW x \in S
  PROVE  /\ IsFiniteSet(S) /\ Cardinality(S) \in Nat
         /\ IsFiniteSet(Sooner(x, S, v))
         /\ Cardinality(Sooner(x, S, v)) \in 0..Cardinality(S) - 1
         /\ \A y \in S : y \in Sooner(x, S, v) =>
               Cardinality(Sooner(y, S, v)) < Cardinality(Sooner(x, S, v))
<1>1. IsFiniteSet(S)
  BY DashboardAssumption, FS_Subset
<1>2. \A y \in S : Sooner(y, S, v) \subseteq S /\ y \notin Sooner(y, S, v)
  BY DEF Sooner
<1>3. \A y \in S : /\ IsFiniteSet(Sooner(y, S, v)) /\ Cardinality(Sooner(y, S, v)) \in Nat
                   /\ Cardinality(Sooner(y, S, v)) <= Cardinality(S)
                   /\ Cardinality(S) # Cardinality(Sooner(y, S, v))
  BY <1>1, <1>2, FS_Subset, FS_CardinalityType
<1>4. Cardinality(S) \in Nat
  BY <1>1, FS_CardinalityType
<1>5. ASSUME NEW y \in S, y \in Sooner(x, S, v)
      PROVE  Cardinality(Sooner(y, S, v)) < Cardinality(Sooner(x, S, v))
  <2>1. Sooner(y, S, v) \subseteq Sooner(x, S, v) /\ y \notin Sooner(y, S, v)
    BY <1>2, <1>5, SoonerOrder
  <2>2. /\ Cardinality(Sooner(y, S, v)) <= Cardinality(Sooner(x, S, v))
        /\ Cardinality(Sooner(x, S, v)) # Cardinality(Sooner(y, S, v))
    BY <1>3, <1>5, <2>1, FS_Subset
  <2> QED
    BY <1>3, <2>2
<1> QED
  BY <1>1, <1>3, <1>4, <1>5

(* All are among the first m, or exactly m are.                            *)
LEMMA FirstCount ==
  ASSUME NEW v, NEW S \in SUBSET Nodes, NEW m \in Nat
  PROVE  /\ Cardinality(S) <= m => First(S, v, m) = S
         /\ Cardinality(S) > m => Cardinality(First(S, v, m)) = m
<1> DEFINE n == Cardinality(S)
           rank(x) == Cardinality(Sooner(x, S, v))
           r == [x \in S |-> rank(x)]
           K == First(S, v, m)
<1>1. IsFiniteSet(S) /\ n \in Nat
  BY DashboardAssumption, FS_Subset, FS_CardinalityType
<1>2. \A x \in S : rank(x) \in 0..n - 1
  BY SoonerCount
<1>3. \A x, y \in S : rank(x) = rank(y) => x = y
  <2> SUFFICES ASSUME NEW x \in S, NEW y \in S, x # y PROVE rank(x) # rank(y)
    OBVIOUS
  <2>1. rank(x) \in Int /\ rank(y) \in Int
    BY SoonerCount
  <2>2. rank(x) < rank(y) \/ rank(y) < rank(x)
    BY SoonerOrder, SoonerCount
  <2> HIDE DEF rank
  <2> QED
    BY <2>1, <2>2
<1>4. K \subseteq S /\ \A x \in S : x \in K <=> rank(x) < m
  BY DEF First
<1> HIDE DEF n, rank, K
<1>5. CASE n <= m
  <2>1. K = S
    BY <1>1, <1>2, <1>4, <1>5
  <2> QED
    BY <1>1, <1>5, <2>1 DEF n, K
<1>6. CASE n > m
  <2>1. r \in Injection(S, 0..n - 1)
    BY <1>2, <1>3, Zenon DEF Injection, IsInjective
  <2>2. IsFiniteSet(0..n - 1) /\ Cardinality(0..n - 1) = n
    BY <1>1, FS_Interval
  <2>3. r \in Surjection(S, 0..n - 1)
    BY <1>1, <2>1, <2>2, FS_Injection DEF n
  <2> DEFINE low == 0..m - 1
             g == [x \in K |-> rank(x)]
  <2>4. \A x \in S : x \in K <=> rank(x) \in low
    BY <1>1, <1>2, <1>4, <1>6
  <2>5. g \in [K -> low]
    BY <1>4, <2>4
  <2>6. \A i \in low : \E x \in K : g[x] = i
    <3> SUFFICES ASSUME NEW i \in low PROVE \E x \in K : g[x] = i
      OBVIOUS
    <3>1. i \in 0..n - 1
      BY <1>1, <1>6
    <3>2. PICK x \in S : r[x] = i
      BY <2>3, <3>1 DEF Surjection
    <3>3. x \in K
      BY <2>4, <3>2
    <3> QED
      BY <3>2, <3>3
  <2>7. \A x, y \in K : g[x] = g[y] => x = y
    BY <1>3, <1>4
  <2> HIDE DEF low
  <2>8. g \in Bijection(K, low)
    BY <2>5, <2>6, <2>7, Zenon DEF Bijection, Injection, Surjection, IsInjective
  <2>9. ExistsBijection(K, low)
    BY <2>8, Zenon DEF ExistsBijection
  <2>10. IsFiniteSet(K)
    BY <1>1, <1>4, FS_Subset
  <2>11. Cardinality(low) = Cardinality(K)
    BY <2>9, <2>10, FS_Bijection
  <2>12. Cardinality(low) = m
    BY FS_Interval DEF low
  <2> QED
    BY <1>1, <1>6, <2>11, <2>12 DEF n, K
<1> QED
  BY <1>1, <1>5, <1>6

LEMMA SelectedCount ==
  ASSUME NEW v, v.nodes \subseteq Nodes, NEW mode \in {"pending", "orphans", "full"},
         NEW n \in Limits
  PROVE  /\ Candidates(mode, v) \subseteq v.nodes
         /\ CappedLimit(n) \in Nat /\ Cardinality(Candidates(mode, v)) \in Nat
         /\ \/ SelectedNodes(mode, v, n) = Candidates(mode, v)
            \/ /\ Cardinality(Candidates(mode, v)) > CappedLimit(n)
               /\ Cardinality(SelectedNodes(mode, v, n)) = CappedLimit(n)
<1> DEFINE S == Candidates(mode, v)
           m == CappedLimit(n)
<1>1. S \subseteq v.nodes
  BY DEF Candidates
<1>2. m \in Nat
  BY DashboardAssumption DEF CappedLimit
<1>3. SelectedNodes(mode, v, n) = First(S, v, m)
  BY DEF SelectedNodes, First
<1>4. S \in SUBSET Nodes
  BY <1>1
<1>5. Cardinality(S) \in Nat
  BY <1>4, DashboardAssumption, FS_Subset, FS_CardinalityType
<1> HIDE DEF S, m
<1>6. /\ Cardinality(S) <= m => First(S, v, m) = S
      /\ Cardinality(S) > m => Cardinality(First(S, v, m)) = m
  BY <1>2, <1>4, FirstCount
<1>7. Cardinality(S) <= m \/ Cardinality(S) > m
  BY <1>2, <1>5
<1> QED
  BY <1>1, <1>2, <1>3, <1>5, <1>6, <1>7 DEF S, m

(* Every proposal that waits in the work queue has its link on the graph   *)
(* page of open proposals, unless these have more end nodes than the       *)
(* request's limit, and then the page is full; for any links, limits,      *)
(* decisions and restarts, unless a process stopped before an analysis had *)
(* stored its nodes (build_graph_projection).                              *)
THEOREM ProposalCorrect == DashboardSpec => []ProposalHasLink
<1>1. DashboardTypeInv /\ NodesInv => ProposalHasLink
  <2> DEFINE v == PageOf(mem.nodes, mem.edges, PendingLinks)
             ends == {From[l] : l \in PendingLinks} \cup {To[l] : l \in PendingLinks}
  <2> SUFFICES ASSUME DashboardTypeInv, NodesInv, ~torn, NEW n \in Limits
               PROVE  \/ PendingLinks \subseteq Visible("pending", v, n)
                      \/ /\ Cardinality(ends) > CappedLimit(n)
                         /\ Cardinality(SelectedNodes("pending", v, n)) = CappedLimit(n)
    BY DEF ProposalHasLink
  <2>1. CASE PendingLinks = {}
    BY <2>1
  <2>2. CASE PendingLinks # {}
    <3>1. mem.nodes = Nodes
      BY <2>2 DEF NodesInv, PendingLinks
    <3>2. /\ v.nodes = Nodes /\ v.pending = PendingLinks
          /\ v.links = Joined(Nodes, mem.edges \cup PendingLinks)
      BY <3>1 DEF PageOf
    <3> HIDE DEF v
    <3>3. PendingLinks \subseteq v.links
      BY <3>2, RulesAssumption DEF PendingLinks, Joined
    <3>4. \A l \in PendingLinks : From[l] \in Nodes /\ To[l] \in Nodes
      BY RulesAssumption DEF PendingLinks
    <3>5. ends = Candidates("pending", v)
      <4>1. Candidates("pending", v) = {x \in Nodes : Touching(x, v) \cap PendingLinks # {}}
        BY <3>2 DEF Candidates
      <4>2. \A x \in Nodes : Touching(x, v) \cap PendingLinks # {} <=>
                               \E l \in PendingLinks : x \in {From[l], To[l]}
        BY <3>3 DEF Touching
      <4> QED
        BY <3>4, <4>1, <4>2
    <3> HIDE DEF ends
    <3>6. CASE SelectedNodes("pending", v, n) = Candidates("pending", v)
      <4>1. \A l \in PendingLinks : From[l] \in ends /\ To[l] \in ends
        BY DEF ends
      <4> QED
        BY <3>3, <3>5, <3>6, <4>1 DEF Visible, Joined
    <3>7. CASE /\ Cardinality(Candidates("pending", v)) > CappedLimit(n)
               /\ Cardinality(SelectedNodes("pending", v, n)) = CappedLimit(n)
      BY <3>5, <3>7
    <3> QED
      BY <3>2, <3>6, <3>7, SelectedCount
  <2> QED
    BY <2>1, <2>2
<1> QED
  BY <1>1, NodesInvariant, DashboardTypesKept, PTL

-----------------------------------------------------------------------------
(* Three reads of a page                                                   *)

(* The approved links a page has, or would have if they were read now.     *)
Taken(r) == IF reader[r].pc = "nodes" THEN mem.edges ELSE reader[r].edges

(* What was live when the nodes were read was decided since, or the page   *)
(* would have it if it were not for the limit.                             *)
LiveOf(r) ==
  reader[r].pc # "idle" =>
    reader[r].live \subseteq
      reader[r].decided \cup Joined(reader[r].nodes, Taken(r) \cup PendingLinks)

LiveInv == \A r \in Readers : LiveOf(r)

LEMMA LiveInit == DashboardInit => LiveInv
BY DEF DashboardInit, LiveInv, LiveOf, NoView

(* Links stay approved, and proposals only go when they are decided.       *)
LEMMA LiveKept ==
  ASSUME NEW r \in Readers, LiveOf(r), mem.edges \subseteq mem'.edges,
         NEW gone, PendingLinks \ gone \subseteq PendingLinks',
         reader'[r].pc = reader[r].pc, reader'[r].nodes = reader[r].nodes,
         reader'[r].live = reader[r].live, reader'[r].edges = reader[r].edges,
         reader'[r].decided = reader[r].decided \cup gone
  PROVE  LiveOf(r)'
<1>1. Taken(r) \subseteq Taken(r)'
  BY DEF Taken
<1>2. Joined(reader[r].nodes, Taken(r) \cup PendingLinks) \ gone
        \subseteq Joined(reader'[r].nodes, Taken(r)' \cup PendingLinks')
  BY <1>1 DEF Joined
<1> QED
  BY <1>2 DEF LiveOf

LEMMA LiveStep ==
  DashboardTypeInv /\ LiveInv /\ [DashboardNext]_dashboardVars => LiveInv'
<1> SUFFICES ASSUME DashboardTypeInv, LiveInv, [DashboardNext]_dashboardVars
             PROVE  LiveInv'
  OBVIOUS
<1>0. mem \in Registry /\ disk \in Registry /\ reader \in [Readers -> View]
  BY DEF DashboardTypeInv
\* A step that no reader of the page sees, whatever becomes of the proposals.
<1>1. ASSUME mem.edges \subseteq mem'.edges, PendingLinks \subseteq PendingLinks',
             NEW r \in Readers, reader'[r] = reader[r]
      PROVE  LiveOf(r)'
  <2>1. LiveOf(r) /\ PendingLinks \ {} \subseteq PendingLinks'
    BY <1>1 DEF LiveInv
  <2>2. reader'[r].decided = reader[r].decided \cup {}
    BY <1>1
  <2> QED
    BY <1>1, <2>1, <2>2, LiveKept
<1>2. ASSUME mem.edges \subseteq mem'.edges, mem'.items = mem.items, reader' = reader
      PROVE  LiveInv'
  BY <1>1, <1>2 DEF PendingLinks, LiveInv
<1>3. ASSUME UNCHANGED dashboardVars PROVE LiveInv'
  BY <1>2, <1>3 DEF dashboardVars
<1>4. ASSUME NEW l \in Links, NEW status, Mark(l, status) PROVE LiveInv'
  <2> SUFFICES ASSUME NEW r \in Readers PROVE LiveOf(r)'
    BY DEF LiveInv
  <2>1. mem'.edges = mem.edges /\ mem'.items = [mem.items EXCEPT ![l] = status]
    BY <1>0, <1>4 DEF Mark, Registry
  <2>2. PendingLinks \ {l} \subseteq PendingLinks'
    BY <1>0, <2>1, RegistryKept DEF PendingLinks
  <2>3. CASE reader[r].pc = "idle"
    BY <1>4, <2>3 DEF Mark, LiveOf, NoView
  <2>4. CASE reader[r].pc # "idle"
    <3>1. reader'[r] = [reader[r] EXCEPT !.decided = @ \cup {l}]
      BY <1>4, <2>4 DEF Mark
    <3>2. /\ reader'[r].pc = reader[r].pc /\ reader'[r].live = reader[r].live
          /\ reader'[r].edges = reader[r].edges /\ reader'[r].nodes = reader[r].nodes
          /\ reader'[r].decided = reader[r].decided \cup {l}
      BY <1>0, <3>1 DEF View
    <3>3. LiveOf(r)
      BY DEF LiveInv
    <3> QED
      BY <2>1, <2>2, <3>2, <3>3, LiveKept
  <2> QED
    BY <2>3, <2>4
<1>5. ASSUME NEW l \in Links, Edit(l) \/ Commit(l) PROVE LiveInv'
  BY <1>0, <1>2, <1>5 DEF Edit, Commit, Registry
<1>6. ASSUME NEW l \in Links, Approved(l) \/ Reject(l) PROVE LiveInv'
  BY <1>4, <1>6 DEF Approved, Reject
<1>7. ASSUME NEW f, NEW status, Triage(f, status) PROVE LiveInv'
  BY <1>0, <1>2, <1>7 DEF Triage, Registry
\* A read of one page: of the others nothing changes.
<1>8. ASSUME NEW r \in Readers, ReadNodes(r) \/ ReadEdges(r) \/ Show(r), LiveOf(r)'
      PROVE  LiveInv'
  <2>1. mem' = mem /\ \A q \in Readers \ {r} : reader'[q] = reader[q]
    BY <1>0, <1>8 DEF ReadNodes, ReadEdges, Show
  <2>2. PendingLinks' = PendingLinks
    BY <2>1 DEF PendingLinks
  <2> QED
    BY <1>1, <1>8, <2>1, <2>2 DEF LiveInv
<1>9. ASSUME NEW r \in Readers, ReadNodes(r) PROVE LiveOf(r)'
  <2>1. /\ reader'[r] = [pc |-> "nodes", nodes |-> mem.nodes, edges |-> {}, live |-> Live,
                         decided |-> {}]
        /\ mem' = mem
    BY <1>0, <1>9 DEF ReadNodes, NoView
  <2>2. Live = Joined(mem.nodes, mem.edges \cup PendingLinks)
    BY DEF Live, Known
  <2>3. PendingLinks' = PendingLinks
    BY <2>1 DEF PendingLinks
  <2>4. Taken(r)' = mem.edges
    BY <2>1 DEF Taken
  <2>5. /\ reader'[r].live = Joined(mem.nodes, mem.edges \cup PendingLinks)
        /\ reader'[r].nodes = mem.nodes
    BY <2>1, <2>2
  <2> QED
    BY <2>3, <2>4, <2>5 DEF LiveOf
<1>10. ASSUME NEW r \in Readers, ReadEdges(r) PROVE LiveOf(r)'
  <2>1. /\ reader'[r] = [reader[r] EXCEPT !.pc = "edges", !.edges = mem.edges]
        /\ reader[r].pc = "nodes" /\ mem' = mem
    BY <1>0, <1>10 DEF ReadEdges
  <2>2. /\ reader'[r].nodes = reader[r].nodes /\ reader'[r].live = reader[r].live
        /\ reader'[r].decided = reader[r].decided
        /\ reader'[r].edges = mem.edges /\ reader'[r].pc = "edges"
    BY <1>0, <2>1 DEF View
  <2>3. PendingLinks' = PendingLinks
    BY <2>1 DEF PendingLinks
  <2>4. Taken(r)' = mem.edges /\ Taken(r) = mem.edges
    BY <2>1, <2>2 DEF Taken
  <2> QED
    BY <2>1, <2>2, <2>3, <2>4 DEF LiveInv, LiveOf
<1>11. ASSUME NEW r \in Readers, Show(r) PROVE LiveOf(r)'
  BY <1>0, <1>11 DEF Show, NoView, LiveOf
<1>12. ASSUME BeginRun \/ FailRun \/ FinishRun PROVE LiveInv'
  BY <1>0, <1>2, <1>12 DEF BeginRun, FailRun, FinishRun, Registry
<1>13. ASSUME Stage PROVE LiveInv'
  <2>1. /\ mem'.edges = mem.edges /\ reader' = reader
        /\ mem'.items = [l \in Links |-> IF l \in run.links THEN "pending" ELSE mem.items[l]]
    BY <1>0, <1>13 DEF Stage, Registry
  <2>2. PendingLinks \subseteq PendingLinks'
    BY <1>0, <2>1, RegistryKept DEF PendingLinks
  <2> QED
    BY <1>1, <2>1, <2>2 DEF LiveInv
<1>14. ASSUME Restart PROVE LiveInv'
  BY <1>14 DEF Restart, LiveInv, LiveOf, NoView
<1> QED
  BY <1>3, <1>5, <1>6, <1>7, <1>8, <1>9, <1>10, <1>11, <1>12, <1>13, <1>14
  DEF DashboardNext

LEMMA LiveInvariant == DashboardSpec => []LiveInv
BY LiveInit, LiveStep, DashboardTypesKept, PTL DEF DashboardSpec

(* A link that was approved or proposed when a page was requested is on    *)
(* the page, or was decided while it was read; or there are more nodes     *)
(* than the request's limit and the page says that it is truncated.  For   *)
(* any number of readers, any limits, and whatever runs between the reads  *)
(* (graph_projection, build_graph_projection).                             *)
THEOREM AccountedCorrect == DashboardSpec => []LinksAccounted
<1>1. DashboardTypeInv /\ LiveInv => LinksAccounted
  <2> SUFFICES ASSUME DashboardTypeInv, LiveInv, NEW r \in Readers, NEW n \in Limits,
                      reader[r].pc = "edges"
               PROVE  \/ reader[r].live
                           \subseteq Visible("full", Page(r), n) \cup reader[r].decided
                      \/ /\ Truncated("full", Page(r), n)
                         /\ Cardinality(Page(r).nodes) > CappedLimit(n)
    BY DEF LinksAccounted
  <2> DEFINE v == Page(r)
  <2>1. reader[r] \in View
    BY DEF DashboardTypeInv
  <2>2. /\ v.nodes = reader[r].nodes /\ v.nodes \subseteq Nodes
        /\ v.links = Joined(v.nodes, reader[r].edges \cup PendingLinks)
    BY <2>1 DEF Page, PageOf, View
  <2>3. reader[r].live \subseteq reader[r].decided \cup v.links
    BY <2>2 DEF LiveInv, LiveOf, Taken
  <2> HIDE DEF v
  <2>4. Candidates("full", v) = v.nodes
    BY DEF Candidates
  <2>5. CASE SelectedNodes("full", v, n) = v.nodes
    <3>1. v.links \subseteq Visible("full", v, n)
      BY <2>2, <2>5 DEF Visible, Joined
    <3> QED
      BY <2>3, <3>1 DEF v
  <2>6. CASE /\ Cardinality(v.nodes) > CappedLimit(n)
             /\ Cardinality(SelectedNodes("full", v, n)) = CappedLimit(n)
    <3>1. CappedLimit(n) \in Nat /\ Cardinality(v.nodes) \in Nat
      BY <2>2, <2>4, SelectedCount
    <3>2. Truncated("full", v, n)
      BY <2>6, <3>1 DEF Truncated
    <3> QED
      BY <2>6, <3>2 DEF v
  <2> QED
    BY <2>2, <2>4, <2>5, <2>6, SelectedCount
<1> QED
  BY <1>1, LiveInvariant, DashboardTypesKept, PTL
=============================================================================

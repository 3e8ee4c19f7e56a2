----------------------------- MODULE TraceChain -----------------------------
(***************************************************************************)
(* The walk behind GET /traceability/chain/{node_id} (graph/chain.py): a   *)
(* breadth-first search from one node over the approved and pending links  *)
(* of a project, cut at a depth and at a number of nodes.                  *)
(*                                                                         *)
(* The route hands the walk a copy of the links, so one walk runs alone;   *)
(* what can go wrong is inside it: the order in which nodes are taken from *)
(* the queue decides the depth a node is shown at, the limit may end the   *)
(* walk in the middle of a node's neighbours, and the answer must say      *)
(* whether something is missing.  Nodes are numbers, in the order of their *)
(* identifiers.                                                            *)
(***************************************************************************)
EXTENDS Naturals, FiniteSets, Sequences

CONSTANTS
  Node,       \* node identifiers
  Link,       \* the <<source, target>> pairs an edge may join
  MaxDepth,   \* the largest depth a request gets (6 in the code)
  MaxLimit    \* the largest number of nodes it gets (500 in the code)

ASSUME ChainAssumption ==
  /\ Node \subseteq Nat
  /\ Link \subseteq Node \X Node
  /\ MaxDepth \in Nat \ {0}
  /\ MaxLimit \in Nat \ {0}

Directions == {"upstream", "downstream", "both"}

VARIABLES
  project,    \* nodes of the requested project
  edges,      \* approved and pending links, of any project
  ask,        \* the request: center, direction, depth, limit
  found,      \* depth of every selected node
  queue,      \* nodes whose neighbours were not looked at yet
  here,       \* the node being expanded
  rest,       \* its neighbours not looked at yet
  pc,         \* "walk" | "expand" | "done"
  truncated   \* what the answer says

vars == <<project, edges, ask, found, queue, here, rest, pc, truncated>>
request == <<project, edges, ask>>

(* A requested depth or limit outside 1..top is moved to its nearer end.   *)
Capped(x, top) == IF x < 1 THEN 1 ELSE IF x > top THEN top ELSE x

(* Links with both ends in the project.                                    *)
Records == {e \in edges : e[1] \in project /\ e[2] \in project}

(* Neighbours of n in the requested direction.                             *)
Adjacent(n) ==
  {m \in Node :
     \/ ask.direction \in {"downstream", "both"} /\ <<n, m>> \in Records
     \/ ask.direction \in {"upstream", "both"} /\ <<m, n>> \in Records}

Selected == DOMAIN found

Full == Cardinality(Selected) >= ask.limit

-----------------------------------------------------------------------------
(* The route answers 404 for a node of another project, so the walk starts *)
(* at one of its own.                                                      *)
Init ==
  /\ project \in SUBSET Node
  /\ edges \in SUBSET Link
  /\ \E c \in project, d \in Directions,
        depth \in 0..MaxDepth + 1, limit \in 0..MaxLimit + 1 :
       ask = [center |-> c, direction |-> d,
              depth |-> Capped(depth, MaxDepth),
              limit |-> Capped(limit, MaxLimit)]
  /\ found = [n \in {ask.center} |-> 0]
  /\ queue = <<ask.center>>
  /\ here = ask.center
  /\ rest = {}
  /\ pc = "walk"
  /\ truncated = FALSE

(* A mutant: the queue is used as a stack.                                 *)
Pop_Last ==
  /\ pc = "walk" /\ queue # <<>> /\ ~Full
  /\ here' = queue[Len(queue)]
  /\ queue' = SubSeq(queue, 1, Len(queue) - 1)
  /\ IF found[here'] >= ask.depth
       THEN rest' = {} /\ pc' = "walk"
       ELSE rest' = Adjacent(here') /\ pc' = "expand"
  /\ UNCHANGED <<request, found, truncated>>

(* The next node of the queue; one at the last depth is not expanded.      *)
Pop ==
  /\ pc = "walk" /\ queue # <<>> /\ ~Full
  /\ here' = Head(queue)
  /\ queue' = Tail(queue)
  /\ IF found[here'] >= ask.depth
       THEN rest' = {} /\ pc' = "walk"
       ELSE rest' = Adjacent(here') /\ pc' = "expand"
  /\ UNCHANGED <<request, found, truncated>>

(* A mutant: the depth of a node is not that of its neighbour plus one.    *)
Look_SameDepth ==
  /\ pc = "expand"
  /\ \E n \in rest :
       /\ \A m \in rest : n <= m
       /\ IF n \in Selected
            THEN /\ rest' = rest \ {n}
                 /\ UNCHANGED <<found, queue>>
            ELSE /\ found' = [m \in Selected \cup {n} |->
                                IF m = n THEN found[here] + 2 ELSE found[m]]
                 /\ queue' = Append(queue, n)
                 /\ rest' = IF Cardinality(Selected) + 1 >= ask.limit
                              THEN {} ELSE rest \ {n}
  /\ UNCHANGED <<request, here, pc, truncated>>

(* One neighbour, the first in the order of identifiers; the loop over the *)
(* neighbours is left when the limit is reached.                           *)
Look ==
  /\ pc = "expand"
  /\ \E n \in rest :
       /\ \A m \in rest : n <= m
       /\ IF n \in Selected
            THEN /\ rest' = rest \ {n}
                 /\ UNCHANGED <<found, queue>>
            ELSE /\ found' = [m \in Selected \cup {n} |->
                                IF m = n THEN found[here] + 1 ELSE found[m]]
                 /\ queue' = Append(queue, n)
                 /\ rest' = IF Cardinality(Selected) + 1 >= ask.limit
                              THEN {} ELSE rest \ {n}
  /\ UNCHANGED <<request, here, pc, truncated>>

Expanded ==
  /\ pc = "expand" /\ rest = {}
  /\ pc' = "walk"
  /\ UNCHANGED <<request, found, queue, here, rest, truncated>>

(* A mutant: the answer admits a cut only past the limit.                  *)
Answer_Past ==
  /\ pc = "walk" /\ (queue = <<>> \/ Full)
  /\ pc' = "done"
  /\ truncated' = (Cardinality(Selected) > ask.limit)
  /\ UNCHANGED <<request, found, queue, here, rest>>

(* The walk ends with the queue or at the limit.                           *)
Answer ==
  /\ pc = "walk" /\ (queue = <<>> \/ Full)
  /\ pc' = "done"
  /\ truncated' = Full
  /\ UNCHANGED <<request, found, queue, here, rest>>

Next == Pop \/ Look \/ Expanded \/ Answer

Spec == Init /\ [][Next]_vars

-----------------------------------------------------------------------------
Request ==
  [center : Node, direction : Directions,
   depth : 1..MaxDepth, limit : 1..MaxLimit]

(* The walk keeps to the project, to the depth and to the limit asked for. *)
TypeOK ==
  /\ project \in SUBSET Node
  /\ edges \in SUBSET Link
  /\ ask \in Request
  /\ Selected \in SUBSET project
  /\ found \in [Selected -> 0..ask.depth]
  /\ queue \in Seq(Selected)
  /\ here \in Selected
  /\ rest \in SUBSET project
  /\ pc \in {"walk", "expand", "done"}
  /\ truncated \in BOOLEAN

Grow(S) == S \cup UNION {Adjacent(n) : n \in S}

(* The nodes at most k links away from the center.                         *)
Within[k \in Nat] == IF k = 0 THEN {ask.center} ELSE Grow(Within[k - 1])

(* The depth a node is shown at is its distance from the center, whatever  *)
(* order the nodes were met in.                                            *)
DepthIsDistance ==
  \A n \in Selected :
     /\ n \in Within[found[n]]
     /\ found[n] > 0 => n \notin Within[found[n] - 1]

(* An answer that does not say truncated has every node within the depth,  *)
(* and no answer has more nodes than asked for.                            *)
TruncationTold ==
  /\ Cardinality(Selected) <= ask.limit
  /\ pc = "done" /\ ~truncated => Selected = Within[ask.depth]

(* Every node of a walk but its center was reached over a link from a      *)
(* selected node one step nearer; and a node whose turn is over has all    *)
(* its neighbours in the answer, unless the answer is truncated.           *)
WalkConnected ==
  /\ \A n \in Selected \ {ask.center} :
        \E m \in Selected : n \in Adjacent(m) /\ found[n] = found[m] + 1
  /\ pc = "done" /\ ~truncated =>
        \A n \in Selected : found[n] < ask.depth => Adjacent(n) \subseteq Selected
=============================================================================

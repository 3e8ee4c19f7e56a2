---------------------------- MODULE MCTraceChain ----------------------------
(* Five nodes: two ways from 1 to 5 of different length, a way back, and a *)
(* link from a node to itself.                                             *)
EXTENDS TraceChain

Nodes == 1..5
Links ==
  {<<1, 2>>, <<1, 3>>, <<3, 4>>, <<4, 5>>, <<2, 5>>, <<5, 1>>, <<2, 2>>}
=============================================================================

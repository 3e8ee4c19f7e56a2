--------------------------- MODULE MCSourcePaging ---------------------------
(* Values for TLC: an edit shortens a text, or lets it leak; a and b are   *)
(* alike, so the source starts with a before b.                            *)
EXTENDS SourcePaging

CONSTANTS a, b, c

MCShapes == {[parts |-> 1, leaks |-> FALSE], [parts |-> 2, leaks |-> TRUE]}

MCStarts == {<<a, b, c>>, <<a, c, b>>, <<c, a, b>>, <<a, b>>, <<a, c>>, <<c, a>>}
=============================================================================

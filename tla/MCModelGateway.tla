--------------------------- MODULE MCModelGateway ---------------------------
(* Values for TLC: one profile for all data and one for public data.       *)
EXTENDS ModelGateway, TLC

CONSTANTS full, public, open, restricted

MCAllowed == (full :> {open, restricted}) @@ (public :> {open})
=============================================================================

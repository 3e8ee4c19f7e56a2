---------------------------- MODULE AuditPromise ----------------------------
(***************************************************************************)
(* What the audit trail promises to whoever has to answer for a decision   *)
(* later: once a client was told that its command is done, the event of    *)
(* that command is in the store or in an archive, for ever.  Events are    *)
(* known by their ids.                                                     *)
(***************************************************************************)
VARIABLES
    kept,      \* events in the store
    archived,  \* events in archives
    told       \* events of commands whose client got its reply

pvars == <<kept, archived, told>>

Init == kept = {} /\ archived = {} /\ told = {}

Keep ==
    /\ kept \subseteq kept'
    /\ UNCHANGED <<archived, told>>

File ==
    /\ archived \subseteq archived'
    /\ UNCHANGED <<kept, told>>

\* Only what is in an archive may leave the store.
Drop ==
    /\ kept' \subseteq kept /\ kept \ kept' \subseteq archived
    /\ UNCHANGED <<archived, told>>

Tell ==
    /\ told \subseteq told' /\ told' \ told \subseteq kept \cup archived
    /\ UNCHANGED <<kept, archived>>

Next == Keep \/ File \/ Drop \/ Tell

Spec == Init /\ [][Next]_pvars

ToldKept == told \subseteq kept \cup archived
============================================================================

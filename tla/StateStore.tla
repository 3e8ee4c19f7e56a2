----------------------------- MODULE StateStore -----------------------------
(***************************************************************************)
(* The PostgreSQL state store that several worker processes share.  Every  *)
(* entity has two rows: one in the ledger state_entities and one in the    *)
(* typed table of its collection, its mirror.  Both are written in one     *)
(* transaction; what is read, at a restart above all, is the mirror alone. *)
(* An upsert writes the ledger first, a delete the mirror first.           *)
(*                                                                         *)
(* The tables come from versioned migrations that every process applies    *)
(* when it starts, in one transaction; an operator can roll one version    *)
(* back.  Nothing fills a recreated table from the ledger.                 *)
(*                                                                         *)
(* PostgreSQL is external and modelled as the code meets it: transactions  *)
(* at READ COMMITTED, row locks held to the end of a transaction, a delete *)
(* that finds no committed row does nothing and waits for nobody, one of   *)
(* two transactions that wait for each other is aborted, and DROP TABLE    *)
(* waits for the transactions that used the table.                         *)
(***************************************************************************)
EXTENDS Integers, FiniteSets

CONSTANTS
    Workers,      \* worker processes; one transaction each
    Keys,         \* entities
    Deletable,    \* entities that are ever deleted: audit events
    Values,       \* payloads
    NoValue,      \* no row
    Unwritten,    \* nothing written by this transaction
    Tables,
    Ledger,       \* the table state_entities
    TableOf,      \* the typed table of each entity's collection
    MaxVersion,   \* the migrations are 1..MaxVersion
    Creates,      \* the tables each migration creates
    Drops         \* the tables its rollback script drops

Versions == 1..MaxVersion

\* Every collection of TYPED_COLLECTIONS has a table of its own.
TypedCollections == TableOf \in [Keys -> Tables \ {Ledger}]

\* Every typed table is created by some migration.
MirrorsValid == \A k \in Keys : \E v \in Versions : TableOf[k] \in Creates[v]

\* The rollback of a version drops what its migration creates, ...
RollbacksValid == \A v \in Versions : Creates[v] \subseteq Drops[v]

\* ... and nothing else.
ScriptsDisjoint ==
    \A v, w \in Versions : v # w => Creates[v] \cap Drops[w] = {}

ASSUME StoreAssumption ==
    /\ NoValue \notin Values /\ Unwritten \notin Values /\ Unwritten # NoValue
    /\ Deletable \subseteq Keys
    /\ MaxVersion \in Nat \ {0}
    /\ Creates \in [Versions -> SUBSET Tables] /\ Drops \in [Versions -> SUBSET Tables]
    /\ Tables = UNION {Creates[v] : v \in Versions}
    /\ Ledger \in Tables
    /\ TypedCollections /\ MirrorsValid /\ RollbacksValid /\ ScriptsDisjoint

VARIABLES
    tables,    \* the tables there are
    applied,   \* the versions schema_migrations names
    ledger,    \* the rows of state_entities
    mirror,    \* the rows of the typed tables
    worker,    \* each process: what it does and what its transaction wrote
    last,      \* what the last committed call for each entity left
    lost,      \* entities whose typed table was dropped since that call
    mixed,     \* entities an upsert and a delete of which ever overlapped
    behind     \* processes that started before the last rollback

vars == <<tables, applied, ledger, mirror, worker, last, lost, mixed, behind>>
history == <<last, lost, mixed>>

Row == Values \cup {NoValue}
Write == Row \cup {Unwritten}

\* value is NoValue in a delete; at and made belong to apply_migrations.
Process ==
    [pc: {"down", "check", "create", "restore", "serve", "first", "second", "commit"},
     at: 1..(MaxVersion + 1), made: SUBSET Versions,
     key: Keys, value: Row, toLedger: Write, toMirror: Write]

TypeOK ==
    /\ tables \subseteq Tables /\ applied \subseteq Versions
    /\ ledger \in [Keys -> Row] /\ mirror \in [Keys -> Row]
    /\ worker \in [Workers -> Process]
    /\ last \in [Keys -> Row]
    /\ lost \subseteq Keys /\ mixed \subseteq Keys /\ behind \subseteq Workers

\* A new database.
Init ==
    /\ tables = {} /\ applied = {} /\ behind = {}
    /\ ledger = [k \in Keys |-> NoValue] /\ mirror = [k \in Keys |-> NoValue]
    /\ worker \in [Workers -> {p \in Process :
                      /\ p.pc = "down" /\ p.at = 1 /\ p.made = {} /\ p.value = NoValue
                      /\ p.toLedger = Unwritten /\ p.toMirror = Unwritten}]
    /\ last = [k \in Keys |-> NoValue]
    /\ lost = {} /\ mixed = {}

At(w, label) == worker[w].pc = label
Goto(w, label) == worker' = [worker EXCEPT ![w].pc = label]

\* The transaction ends; what it wrote is forgotten or was committed.
Ended(w, label) ==
    [worker EXCEPT ![w] = [@ EXCEPT !.pc = label, !.at = 1, !.made = {}, !.value = NoValue,
                                    !.toLedger = Unwritten, !.toMirror = Unwritten]]
Ends(w, label) == worker' = Ended(w, label)

-----------------------------------------------------------------------------
(* A process starts: apply_migrations, then the runtime state is read back.  *)

Boot(w) ==
    /\ At(w, "down")
    /\ worker' = [worker EXCEPT ![w].pc = "check"]
    /\ behind' = behind \ {w}
    /\ UNCHANGED <<tables, applied, ledger, mirror, history>>

\* Mutant: a version counts as applied when a later one is.
Recorded_UpTo(v) == \E u \in applied : u >= v

\* SELECT 1 FROM schema_migrations.
Recorded(v) == v \in applied

Check(w) ==
    /\ At(w, "check") /\ worker[w].at \in Versions
    /\ IF Recorded(worker[w].at)
       THEN worker' = [worker EXCEPT ![w].at = @ + 1]
       ELSE Goto(w, "create")
    /\ UNCHANGED <<tables, applied, ledger, mirror, history, behind>>

\* Another process is creating the same version: the statements wait for it.
Making(w) == \E v \in Workers \ {w} : worker[w].at \in worker[v].made

\* The version's statements and its row, once nobody else is at it.
Create(w) ==
    /\ At(w, "create") /\ ~Making(w)
    /\ worker[w].at \in Versions \ applied
    /\ worker' = [worker EXCEPT ![w] = [@ EXCEPT !.pc = "check", !.at = worker[w].at + 1,
                                                 !.made = worker[w].made \cup {worker[w].at}]]
    /\ UNCHANGED <<tables, applied, ledger, mirror, history, behind>>

\* Another process committed the version meanwhile: the row is there already.
\* The whole transaction is undone and the process does not start.
CreateFails(w) ==
    /\ At(w, "create") /\ worker[w].at \in applied
    /\ Ends(w, "down")
    /\ UNCHANGED <<tables, applied, ledger, mirror, history, behind>>

Migrated(w) ==
    /\ At(w, "check") /\ worker[w].at = MaxVersion + 1
    /\ applied' = applied \cup worker[w].made
    /\ tables' = tables \cup UNION {Creates[v] : v \in worker[w].made}
    /\ Ends(w, "restore")
    /\ UNCHANGED <<ledger, mirror, history, behind>>

\* restore_from_state_store lists every collection.
Restore(w) ==
    /\ At(w, "restore")
    /\ Ends(w, IF \A k \in Keys : TableOf[k] \in tables THEN "serve" ELSE "down")
    /\ UNCHANGED <<tables, applied, ledger, mirror, history, behind>>

-----------------------------------------------------------------------------
(* upsert and delete: two statements in one transaction.                     *)

Active(w) == worker[w].pc \in {"first", "second", "commit"}
Deletes(w) == worker[w].value = NoValue

Begin(w, k, x) ==
    /\ At(w, "serve")
    /\ x = NoValue => k \in Deletable
    /\ worker' = [worker EXCEPT ![w] = [@ EXCEPT !.pc = "first", !.key = k, !.value = x]]
    /\ mixed' = IF \E v \in Workers : /\ Active(v) /\ worker[v].key = k
                                      /\ Deletes(v) # (x = NoValue)
                THEN mixed \cup {k} ELSE mixed
    /\ UNCHANGED <<tables, applied, ledger, mirror, last, lost, behind>>

\* Another transaction wrote the row and has not ended.
LedgerLocked(w) ==
    \E v \in Workers \ {w} : worker[v].key = worker[w].key /\ worker[v].toLedger # Unwritten
MirrorLocked(w) ==
    \E v \in Workers \ {w} : worker[v].key = worker[w].key /\ worker[v].toMirror # Unwritten

WriteLedger(w, x, label) ==
    worker' = [worker EXCEPT ![w] = [@ EXCEPT !.toLedger = x, !.pc = label]]
WriteMirror(w, x, label) ==
    worker' = [worker EXCEPT ![w] = [@ EXCEPT !.toMirror = x, !.pc = label]]

UpsertLedger(w) ==
    /\ At(w, "first") /\ ~Deletes(w)
    /\ Ledger \in tables /\ ~LedgerLocked(w)
    /\ WriteLedger(w, worker[w].value, "second")
    /\ UNCHANGED <<tables, applied, ledger, mirror, history, behind>>

\* Mutant: a mirror row that is there is left as it is.
Mirrored_InsertOnly(w) ==
    IF mirror[worker[w].key] = NoValue THEN worker[w].value ELSE mirror[worker[w].key]

\* ON CONFLICT DO UPDATE: the payload that was given, whatever is there.
Mirrored(w) == worker[w].value

UpsertMirror(w) ==
    /\ At(w, "second") /\ ~Deletes(w)
    /\ TableOf[worker[w].key] \in tables /\ ~MirrorLocked(w)
    /\ WriteMirror(w, Mirrored(w), "commit")
    /\ UNCHANGED <<tables, applied, ledger, mirror, history, behind>>

\* No committed row: nothing to delete, and nobody to wait for.
DeleteMirror(w) ==
    /\ At(w, "first") /\ Deletes(w)
    /\ TableOf[worker[w].key] \in tables
    /\ \/ mirror[worker[w].key] = NoValue /\ WriteMirror(w, Unwritten, "second")
       \/ mirror[worker[w].key] # NoValue /\ ~MirrorLocked(w) /\ WriteMirror(w, NoValue, "second")
    /\ UNCHANGED <<tables, applied, ledger, mirror, history, behind>>

\* Mutant: only the mirror row is deleted.
Removed_MirrorOnly(w) == Unwritten

\* The ledger row, if there is one.
Removed(w) == IF ledger[worker[w].key] = NoValue THEN Unwritten ELSE NoValue

DeleteLedger(w) ==
    /\ At(w, "second") /\ Deletes(w)
    /\ Ledger \in tables
    /\ ledger[worker[w].key] = NoValue \/ ~LedgerLocked(w)
    /\ WriteLedger(w, Removed(w), "commit")
    /\ UNCHANGED <<tables, applied, ledger, mirror, history, behind>>

After(row, written) == IF written = Unwritten THEN row ELSE written

Commit(w) ==
    /\ At(w, "commit")
    /\ LET k == worker[w].key IN
       /\ ledger' = [ledger EXCEPT ![k] = After(@, worker[w].toLedger)]
       /\ mirror' = [mirror EXCEPT ![k] = After(@, worker[w].toMirror)]
       /\ last' = [last EXCEPT ![k] = worker[w].value]
       /\ lost' = lost \ {k}
    /\ Ends(w, "serve")
    /\ UNCHANGED <<tables, applied, mixed, behind>>

\* The table the next statement of w's transaction is about.
Wanted(w) ==
    IF At(w, "first") = Deletes(w) THEN TableOf[worker[w].key] ELSE Ledger

\* There is no such table: the call raises and the transaction is undone.
NoTable(w) ==
    /\ worker[w].pc \in {"first", "second"} /\ Wanted(w) \notin tables
    /\ Ends(w, "serve")
    /\ UNCHANGED <<tables, applied, ledger, mirror, history, behind>>

\* An upsert that has the ledger row waits for the mirror row of a delete that
\* waits for the ledger row: one of them is aborted, and its call raises.
Deadlock(w) ==
    /\ At(w, "second")
    /\ \E v \in Workers \ {w} :
          /\ At(v, "second") /\ worker[v].key = worker[w].key /\ Deletes(v) # Deletes(w)
          /\ \A u \in {v, w} : IF Deletes(u) THEN LedgerLocked(u) /\ ledger[worker[u].key] # NoValue
                                             ELSE MirrorLocked(u)
    /\ Ends(w, "serve")
    /\ UNCHANGED <<tables, applied, ledger, mirror, history, behind>>

\* Any other error, of a constraint or of the connection: the call raises.
Raises(w) ==
    /\ Active(w)
    /\ Ends(w, "serve")
    /\ UNCHANGED <<tables, applied, ledger, mirror, history, behind>>

\* The process dies; PostgreSQL undoes the transaction.
Crash(w) ==
    /\ ~At(w, "down")
    /\ Ends(w, "down")
    /\ UNCHANGED <<tables, applied, ledger, mirror, history, behind>>

-----------------------------------------------------------------------------
(* rollback_migration, by an operator while the processes run.               *)

\* The tables w's transaction has used.
Used(w) ==
    IF At(w, "commit") THEN {Ledger, TableOf[worker[w].key]}
    ELSE IF At(w, "second") THEN {Ledger, TableOf[worker[w].key]} \ {Wanted(w)} ELSE {}

Rollback(v) ==
    /\ v \in applied
    /\ \A w \in Workers : Used(w) \cap Drops[v] = {}
    /\ tables' = tables \ Drops[v]
    /\ applied' = applied \ {v}
    /\ ledger' = IF Ledger \in Drops[v] THEN [k \in Keys |-> NoValue] ELSE ledger
    /\ mirror' = [k \in Keys |-> IF TableOf[k] \in Drops[v] THEN NoValue ELSE mirror[k]]
    /\ lost' = lost \cup {k \in Keys : TableOf[k] \in Drops[v]}
    /\ behind' = {w \in Workers : ~At(w, "down")}
    /\ UNCHANGED <<worker, last, mixed>>

-----------------------------------------------------------------------------
Start(w) == Boot(w) \/ Check(w) \/ Create(w) \/ CreateFails(w) \/ Migrated(w) \/ Restore(w)

Call(w) ==
    \/ \E k \in Keys, x \in Row : Begin(w, k, x)
    \/ UpsertLedger(w) \/ UpsertMirror(w) \/ DeleteMirror(w) \/ DeleteLedger(w)
    \/ Commit(w) \/ NoTable(w) \/ Deadlock(w) \/ Raises(w)

Next ==
    \/ \E w \in Workers : Start(w) \/ Call(w) \/ Crash(w)
    \/ \E v \in Versions : Rollback(v)

Spec == Init /\ [][Next]_vars

-----------------------------------------------------------------------------
(* Properties                                                                *)

\* A process that has applied the migrations finds every table, although other
\* processes start at the same time, fail and start again: until an operator
\* rolls a version back.
SchemaWhole ==
    \A w \in Workers :
        worker[w].pc \notin {"down", "check", "create"} /\ w \notin behind => tables = Tables

\* The ledger never says more than the mirror: where the ledger has a row, the
\* mirror that is read has the same one, whatever upserts, deletes, deadlocks and
\* crashes overlap, unless its table was dropped.
LedgerMirrored ==
    \A k \in Keys \ lost : ledger[k] # NoValue => mirror[k] = ledger[k]

\* What get and list return of an entity.
Read(k) == mirror[k]

\* What the last committed call left is what is read, across restarts, as long as
\* no upsert of the entity overlapped a delete of it and its table stays.
ConfirmedIsRead == \A k \in Keys \ (lost \cup mixed) : Read(k) = last[k]

-----------------------------------------------------------------------------
(* What makes them inductive                                                 *)

\* schema_migrations tells which tables there are, and a process that is
\* migrating has every version before its own.
SchemaInv ==
    /\ tables = UNION {Creates[v] : v \in applied}
    /\ \A w \in Workers : At(w, "down") => worker[w].at = 1
    /\ \A w \in Workers \ behind :
          /\ worker[w].pc \in {"check", "create"}
             => 1..(worker[w].at - 1) \subseteq applied \cup worker[w].made
          /\ worker[w].pc \notin {"down", "check", "create"} => applied = Versions

\* What a transaction has written by the statement it is at.
Written(w) ==
    LET p == worker[w] IN
    IF Deletes(w)
    THEN /\ p.toLedger \in IF p.pc = "commit" THEN {NoValue, Unwritten} ELSE {Unwritten}
         /\ p.toMirror \in IF p.pc \in {"second", "commit"} THEN {NoValue, Unwritten} ELSE {Unwritten}
    ELSE /\ p.toLedger = IF p.pc \in {"second", "commit"} THEN p.value ELSE Unwritten
         /\ p.toMirror = IF p.pc = "commit" THEN p.value ELSE Unwritten

\* Two transactions never write the same row.
Exclusive ==
    \A v, w \in Workers : v # w /\ worker[v].key = worker[w].key =>
        /\ Unwritten \in {worker[v].toLedger, worker[w].toLedger}
        /\ Unwritten \in {worker[v].toMirror, worker[w].toMirror}

\* A delete that found no ledger row leaves none, or one its mirror goes with.
NothingLeft(w) ==
    At(w, "commit") /\ Deletes(w) /\ worker[w].toLedger = Unwritten =>
        \/ ledger[worker[w].key] = NoValue
        \/ worker[w].toMirror = Unwritten /\ worker[w].key \notin lost

MirrorInv ==
    /\ \A w \in Workers : Written(w) /\ NothingLeft(w)
    /\ Exclusive /\ LedgerMirrored

\* Without a mixture, transactions for an entity are of one kind, and a delete
\* that found no mirror row leaves none.
ReadInv ==
    /\ \A v, w \in Workers :
          Active(v) /\ Active(w) /\ worker[v].key = worker[w].key /\ worker[w].key \notin mixed
          => (Deletes(v) <=> Deletes(w))
    /\ \A w \in Workers :
          /\ worker[w].pc \in {"second", "commit"} /\ Deletes(w)
          /\ worker[w].toMirror = Unwritten /\ worker[w].key \notin mixed
          => mirror[worker[w].key] = NoValue
    /\ ConfirmedIsRead
=============================================================================

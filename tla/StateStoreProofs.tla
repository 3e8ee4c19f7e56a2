-------------------------- MODULE StateStoreProofs --------------------------
(***************************************************************************)
(* Proofs about StateStore for any number of processes, entities, tables   *)
(* and versions.                                                           *)
(***************************************************************************)
EXTENDS StateStore, TLAPS

LEMMA TypeInit == Init => TypeOK
BY StoreAssumption DEF Init, TypeOK, Process, Row, Write, Versions

\* What the actions make of a process is a process.
LEMMA ProcessTypes ==
    ASSUME NEW p \in Process
    PROVE  /\ \A l \in {"down", "check", "create", "restore", "serve"} : [p EXCEPT !.pc = l] \in Process
           /\ \A l \in {"down", "restore", "serve"} :
                [p EXCEPT !.pc = l, !.at = 1, !.made = {}, !.value = NoValue,
                          !.toLedger = Unwritten, !.toMirror = Unwritten] \in Process
           /\ \A k \in Keys, x \in Row :
                [p EXCEPT !.pc = "first", !.key = k, !.value = x] \in Process
           /\ \A x \in Write, l \in {"second", "commit"} :
                /\ [p EXCEPT !.toLedger = x, !.pc = l] \in Process
                /\ [p EXCEPT !.toMirror = x, !.pc = l] \in Process
           /\ p.at \in Versions =>
                /\ [p EXCEPT !.at = p.at + 1] \in Process
                /\ [p EXCEPT !.pc = "check", !.at = p.at + 1, !.made = p.made \cup {p.at}] \in Process
<1>0. MaxVersion \in Nat \ {0}
  BY StoreAssumption
<1>1. \A l \in {"down", "check", "create", "restore", "serve"} : [p EXCEPT !.pc = l] \in Process
  BY DEF Process
<1>2. ASSUME NEW l \in {"down", "restore", "serve"}
      PROVE  [p EXCEPT !.pc = l, !.at = 1, !.made = {}, !.value = NoValue,
                       !.toLedger = Unwritten, !.toMirror = Unwritten] \in Process
  <2>1. 1 \in 1..(MaxVersion + 1) /\ {} \in SUBSET Versions
    BY <1>0
  <2>2. NoValue \in Row /\ Unwritten \in Write
    BY DEF Row, Write
  <2> QED
    BY <2>1, <2>2 DEF Process
<1>3. \A k \in Keys, x \in Row : [p EXCEPT !.pc = "first", !.key = k, !.value = x] \in Process
  BY DEF Process
<1>4. \A x \in Write, l \in {"second", "commit"} :
         /\ [p EXCEPT !.toLedger = x, !.pc = l] \in Process
         /\ [p EXCEPT !.toMirror = x, !.pc = l] \in Process
  BY DEF Process
<1>5. ASSUME p.at \in Versions
      PROVE  /\ [p EXCEPT !.at = p.at + 1] \in Process
             /\ [p EXCEPT !.pc = "check", !.at = p.at + 1, !.made = p.made \cup {p.at}] \in Process
  <2>1. p.at + 1 \in 1..(MaxVersion + 1)
    BY <1>0, <1>5 DEF Versions
  <2>2. p.made \cup {p.at} \in SUBSET Versions
    BY <1>5 DEF Process
  <2> QED
    BY <2>1, <2>2 DEF Process
<1> QED
  BY <1>1, <1>2, <1>3, <1>4, <1>5

\* The rows a transaction writes, and what a commit makes of a row.
LEMMA WrittenType ==
    ASSUME TypeOK, NEW w \in Workers
    PROVE  /\ worker[w] \in Process /\ worker[w].key \in Keys /\ worker[w].value \in Row
           /\ worker[w].toLedger \in Write /\ worker[w].toMirror \in Write
           /\ Mirrored(w) \in Write /\ Removed(w) \in Write
           /\ NoValue \in Write /\ Unwritten \in Write
           /\ \A row \in Row, x \in Write : After(row, x) \in Row
BY StoreAssumption DEF TypeOK, Process, Row, Write, Mirrored, Removed, After

LEMMA StartType == ASSUME TypeOK, NEW w \in Workers, Start(w) PROVE TypeOK'
<1> USE StoreAssumption DEF TypeOK, At, history
<1>0. worker[w] \in Process
  OBVIOUS
<1>1. CASE Boot(w)
  <2>1. worker' = [worker EXCEPT ![w] = [worker[w] EXCEPT !.pc = "check"]]
    BY <1>1 DEF Boot
  <2>2. worker' \in [Workers -> Process]
    BY <1>0, <2>1, ProcessTypes
  <2> QED
    BY <1>1, <2>2 DEF Boot
<1>2. CASE Check(w)
  <2>1. \/ worker' = [worker EXCEPT ![w] = [worker[w] EXCEPT !.at = worker[w].at + 1]]
        \/ worker' = [worker EXCEPT ![w] = [worker[w] EXCEPT !.pc = "create"]]
    BY <1>2 DEF Check, Goto
  <2>2. worker[w].at \in Versions
    BY <1>2 DEF Check
  <2>3. worker' \in [Workers -> Process]
    BY <1>0, <2>1, <2>2, ProcessTypes
  <2> QED
    BY <1>2, <2>3 DEF Check
<1>3. CASE Create(w)
  <2>1. worker' = [worker EXCEPT ![w] =
                     [worker[w] EXCEPT !.pc = "check", !.at = worker[w].at + 1,
                                       !.made = worker[w].made \cup {worker[w].at}]]
    BY <1>3 DEF Create
  <2>2. worker[w].at \in Versions
    BY <1>3 DEF Create
  <2>3. worker' \in [Workers -> Process]
    BY <1>0, <2>1, <2>2, ProcessTypes
  <2> QED
    BY <1>3, <2>3 DEF Create
<1>4. CASE CreateFails(w)
  <2>1. worker' \in [Workers -> Process]
    BY <1>0, <1>4, ProcessTypes DEF CreateFails, Ends, Ended
  <2> QED
    BY <1>4, <2>1 DEF CreateFails
<1>5. CASE Migrated(w)
  <2>1. worker' \in [Workers -> Process]
    BY <1>0, <1>5, ProcessTypes DEF Migrated, Ends, Ended
  <2>2. worker[w].made \subseteq Versions
    BY <1>0 DEF Process
  <2>3. UNION {Creates[v] : v \in worker[w].made} \subseteq Tables
    BY <2>2
  <2> QED
    BY <1>5, <2>1, <2>2, <2>3 DEF Migrated
<1>6. CASE Restore(w)
  <2>1. \E l \in {"serve", "down"} : Ends(w, l)
    BY <1>6 DEF Restore
  <2>2. worker' \in [Workers -> Process]
    BY ZenonT(30), <1>0, <2>1, ProcessTypes DEF Ends, Ended
  <2> QED
    BY <1>6, <2>2 DEF Restore
<1> QED
  BY <1>1, <1>2, <1>3, <1>4, <1>5, <1>6 DEF Start

LEMMA CallType == ASSUME TypeOK, NEW w \in Workers, Call(w) \/ Crash(w) PROVE TypeOK'
<1> USE DEF TypeOK, At, history
<1>0. worker[w] \in Process
  OBVIOUS
<1>1. ASSUME NEW k \in Keys, NEW x \in Row, Begin(w, k, x) PROVE TypeOK'
  <2>1. worker' \in [Workers -> Process]
    BY <1>0, <1>1, ProcessTypes DEF Begin
  <2> QED
    BY <1>1, <2>1 DEF Begin
<1>2. ASSUME \E x \in Write, l \in {"second", "commit"} : WriteLedger(w, x, l) \/ WriteMirror(w, x, l),
             UNCHANGED <<tables, applied, ledger, mirror, history, behind>>
      PROVE  TypeOK'
  <2>1. PICK x \in Write, l \in {"second", "commit"} : WriteLedger(w, x, l) \/ WriteMirror(w, x, l)
    BY <1>2
  <2>2. /\ [worker[w] EXCEPT !.toLedger = x, !.pc = l] \in Process
        /\ [worker[w] EXCEPT !.toMirror = x, !.pc = l] \in Process
    BY <1>0, ProcessTypes
  <2>3. worker' \in [Workers -> Process]
    BY <2>1, <2>2 DEF WriteLedger, WriteMirror
  <2> QED
    BY <1>2, <2>3
<1>3. ASSUME UpsertLedger(w) \/ UpsertMirror(w) \/ DeleteMirror(w) \/ DeleteLedger(w) PROVE TypeOK'
  <2>1. \E x \in Write, l \in {"second", "commit"} : WriteLedger(w, x, l) \/ WriteMirror(w, x, l)
    BY <1>3, WrittenType DEF UpsertLedger, UpsertMirror, DeleteMirror, DeleteLedger, Row, Write
  <2>2. UNCHANGED <<tables, applied, ledger, mirror, history, behind>>
    BY <1>3 DEF UpsertLedger, UpsertMirror, DeleteMirror, DeleteLedger
  <2> QED
    BY <1>2, <2>1, <2>2
<1>4. CASE Commit(w)
  <2>1. worker' \in [Workers -> Process]
    BY <1>0, <1>4, ProcessTypes DEF Commit, Ends, Ended
  <2>2. /\ ledger' = [ledger EXCEPT ![worker[w].key] = After(ledger[worker[w].key], worker[w].toLedger)]
        /\ mirror' = [mirror EXCEPT ![worker[w].key] = After(mirror[worker[w].key], worker[w].toMirror)]
        /\ last' = [last EXCEPT ![worker[w].key] = worker[w].value]
        /\ lost' = lost \ {worker[w].key}
    BY <1>4 DEF Commit
  <2>3. ledger' \in [Keys -> Row] /\ mirror' \in [Keys -> Row] /\ last' \in [Keys -> Row]
    BY <2>2, WrittenType
  <2> QED
    BY <1>4, <2>1, <2>2, <2>3 DEF Commit
<1>5. ASSUME NoTable(w) \/ Deadlock(w) \/ Raises(w) \/ Crash(w) PROVE TypeOK'
  <2>1. \E l \in {"serve", "down"} : Ends(w, l)
    BY <1>5 DEF NoTable, Deadlock, Raises, Crash
  <2>2. worker' \in [Workers -> Process]
    BY ZenonT(30), <1>0, <2>1, ProcessTypes DEF Ends, Ended
  <2> QED
    BY <1>5, <2>2 DEF NoTable, Deadlock, Raises, Crash
<1> QED
  BY <1>1, <1>3, <1>4, <1>5 DEF Call

LEMMA RollbackType == ASSUME TypeOK, NEW v \in Versions, Rollback(v) PROVE TypeOK'
<1>1. ledger' \in [Keys -> Row] /\ mirror' \in [Keys -> Row]
  BY DEF Rollback, TypeOK, Row
<1> QED
  BY <1>1 DEF Rollback, TypeOK, At

\* The tables, the rows and the processes keep their shape.
THEOREM TypeCorrect == Spec => []TypeOK
<1>1. TypeOK /\ [Next]_vars => TypeOK'
  BY StartType, CallType, RollbackType DEF Next, vars, TypeOK
<1> QED
  BY TypeInit, <1>1, PTL DEF Spec

-----------------------------------------------------------------------------
(* What the steps do to the processes, field by field.                       *)

Others(w) == \A u \in Workers \ {w} : worker'[u] = worker[u]

LEMMA EndsFacts ==
    ASSUME TypeOK, NEW w \in Workers, NEW l, Ends(w, l)
    PROVE  /\ Others(w)
           /\ worker'[w].pc = l /\ worker'[w].at = 1 /\ worker'[w].value = NoValue
           /\ worker'[w].toLedger = Unwritten /\ worker'[w].toMirror = Unwritten
<1> DEFINE p == [worker[w] EXCEPT !.pc = l, !.at = 1, !.made = {}, !.value = NoValue,
                                  !.toLedger = Unwritten, !.toMirror = Unwritten]
<1>1. worker' = [worker EXCEPT ![w] = p]
  BY DEF Ends, Ended
<1>2. p.pc = l /\ p.at = 1 /\ p.value = NoValue /\ p.toLedger = Unwritten /\ p.toMirror = Unwritten
  BY DEF TypeOK, Process
<1>3. worker'[w] = p /\ Others(w)
  BY <1>1 DEF TypeOK, Others
<1> QED
  BY <1>2, <1>3

LEMMA BeginFacts ==
    ASSUME TypeOK, NEW w \in Workers, NEW k \in Keys, NEW x \in Row, Begin(w, k, x)
    PROVE  /\ Others(w)
           /\ worker'[w].pc = "first" /\ worker'[w].key = k /\ worker'[w].value = x
           /\ worker'[w].toLedger = worker[w].toLedger /\ worker'[w].toMirror = worker[w].toMirror
<1> DEFINE p == [worker[w] EXCEPT !.pc = "first", !.key = k, !.value = x]
<1>1. worker' = [worker EXCEPT ![w] = p]
  BY DEF Begin
<1>2. /\ p.pc = "first" /\ p.key = k /\ p.value = x
      /\ p.toLedger = worker[w].toLedger /\ p.toMirror = worker[w].toMirror
  BY DEF TypeOK, Process
<1>3. worker'[w] = p /\ Others(w)
  BY <1>1 DEF TypeOK, Others
<1> QED
  BY <1>2, <1>3

LEMMA WriteFacts ==
    ASSUME TypeOK, NEW w \in Workers, NEW x, NEW l
    PROVE  /\ WriteLedger(w, x, l) =>
                /\ Others(w)
                /\ worker'[w].pc = l /\ worker'[w].toLedger = x
                /\ worker'[w].key = worker[w].key /\ worker'[w].value = worker[w].value
                /\ worker'[w].toMirror = worker[w].toMirror
           /\ WriteMirror(w, x, l) =>
                /\ Others(w)
                /\ worker'[w].pc = l /\ worker'[w].toMirror = x
                /\ worker'[w].key = worker[w].key /\ worker'[w].value = worker[w].value
                /\ worker'[w].toLedger = worker[w].toLedger
<1> DEFINE p == [worker[w] EXCEPT !.toLedger = x, !.pc = l]
           q == [worker[w] EXCEPT !.toMirror = x, !.pc = l]
<1>1. /\ p.pc = l /\ p.toLedger = x /\ p.key = worker[w].key /\ p.value = worker[w].value
      /\ p.toMirror = worker[w].toMirror
  BY DEF TypeOK, Process
<1>2. /\ q.pc = l /\ q.toMirror = x /\ q.key = worker[w].key /\ q.value = worker[w].value
      /\ q.toLedger = worker[w].toLedger
  BY DEF TypeOK, Process
<1>3. WriteLedger(w, x, l) => worker'[w] = p /\ Others(w)
  BY DEF WriteLedger, TypeOK, Others
<1>4. WriteMirror(w, x, l) => worker'[w] = q /\ Others(w)
  BY DEF WriteMirror, TypeOK, Others
<1> QED
  BY <1>1, <1>2, <1>3, <1>4

\* A step of apply_migrations touches no row that w wrote.
LEMMA StartFacts ==
    ASSUME TypeOK, NEW w \in Workers, Boot(w) \/ Check(w) \/ Create(w)
    PROVE  /\ Others(w)
           /\ worker'[w].pc \in {"check", "create"} /\ worker[w].pc \in {"down", "check", "create"}
           /\ worker'[w].key = worker[w].key /\ worker'[w].value = worker[w].value
           /\ worker'[w].toLedger = worker[w].toLedger /\ worker'[w].toMirror = worker[w].toMirror
           /\ \/ worker'[w].at = worker[w].at /\ worker'[w].made = worker[w].made
              \/ /\ Recorded(worker[w].at) /\ worker[w].pc # "down"
                 /\ worker'[w].at = worker[w].at + 1 /\ worker'[w].made = worker[w].made
              \/ /\ worker[w].pc # "down"
                 /\ worker'[w].at = worker[w].at + 1
                 /\ worker'[w].made = worker[w].made \cup {worker[w].at}
<1> USE DEF TypeOK, Process, Others
<1>1. CASE Boot(w)
  <2> DEFINE p == [worker[w] EXCEPT !.pc = "check"]
  <2>1. worker' = [worker EXCEPT ![w] = p] /\ worker[w].pc = "down"
    BY <1>1 DEF Boot, At
  <2>2. worker'[w] = p /\ Others(w)
    BY <2>1
  <2> QED
    BY <2>1, <2>2
<1>2. CASE Check(w)
  <2> DEFINE p == [worker[w] EXCEPT !.at = worker[w].at + 1]
             q == [worker[w] EXCEPT !.pc = "create"]
  <2>1. /\ \/ worker' = [worker EXCEPT ![w] = p] /\ Recorded(worker[w].at)
           \/ worker' = [worker EXCEPT ![w] = q]
        /\ worker[w].pc = "check"
    BY <1>2 DEF Check, At, Goto
  <2>2. ((worker'[w] = p /\ Recorded(worker[w].at)) \/ worker'[w] = q) /\ Others(w)
    BY <2>1
  <2> QED
    BY <2>1, <2>2
<1>3. CASE Create(w)
  <2> DEFINE p == [worker[w] EXCEPT !.pc = "check", !.at = worker[w].at + 1,
                                    !.made = worker[w].made \cup {worker[w].at}]
  <2>1. worker' = [worker EXCEPT ![w] = p] /\ worker[w].pc = "create"
    BY <1>3 DEF Create, At
  <2>2. worker'[w] = p /\ Others(w)
    BY <2>1
  <2> QED
    BY <2>1, <2>2
<1> QED
  BY <1>1, <1>2, <1>3

\* A step by which w's transaction goes on or ends, or w dies: the schema stays.
OnRows(w) ==
    \/ \E k \in Keys, x \in Row : Begin(w, k, x)
    \/ UpsertLedger(w) \/ UpsertMirror(w) \/ DeleteMirror(w) \/ DeleteLedger(w)

Stops(w) ==
    CreateFails(w) \/ Restore(w) \/ NoTable(w) \/ Deadlock(w) \/ Raises(w) \/ Crash(w)

LEMMA StopsFacts ==
    ASSUME NEW w \in Workers, Stops(w)
    PROVE  /\ \E l \in {"serve", "down"} : Ends(w, l) /\
                (l = "serve" => worker[w].pc \in {"restore", "first", "second", "commit"})
           /\ UNCHANGED <<tables, applied, ledger, mirror, history, behind>>
BY DEF Stops, CreateFails, Restore, NoTable, Deadlock, Raises, Active, Crash, At

LEMMA RowsFacts ==
    ASSUME TypeOK, NEW w \in Workers, OnRows(w)
    PROVE  /\ Others(w) /\ UNCHANGED <<tables, applied, ledger, mirror, last, lost, behind>>
           /\ worker[w].pc \in {"serve", "first", "second"}
           /\ worker'[w].pc \in {"first", "second", "commit"}
<1>1. ASSUME NEW k \in Keys, NEW x \in Row, Begin(w, k, x)
      PROVE  /\ Others(w) /\ UNCHANGED <<tables, applied, ledger, mirror, last, lost, behind>>
             /\ worker[w].pc = "serve" /\ worker'[w].pc = "first"
  BY <1>1, BeginFacts DEF Begin, At
<1>2. ASSUME UpsertLedger(w) \/ UpsertMirror(w) \/ DeleteMirror(w) \/ DeleteLedger(w)
      PROVE  /\ UNCHANGED <<tables, applied, ledger, mirror, last, lost, behind>>
             /\ worker[w].pc \in {"first", "second"}
             /\ \E x \in Write, l \in {"second", "commit"} : WriteLedger(w, x, l) \/ WriteMirror(w, x, l)
  <2>1. /\ UNCHANGED <<tables, applied, ledger, mirror, last, lost, behind>>
        /\ worker[w].pc \in {"first", "second"}
    BY <1>2 DEF UpsertLedger, UpsertMirror, DeleteMirror, DeleteLedger, At, history
  <2>2. \/ WriteLedger(w, worker[w].value, "second") \/ WriteMirror(w, Mirrored(w), "commit")
        \/ WriteMirror(w, Unwritten, "second") \/ WriteMirror(w, NoValue, "second")
        \/ WriteLedger(w, Removed(w), "commit")
    BY <1>2 DEF UpsertLedger, UpsertMirror, DeleteMirror, DeleteLedger
  <2>3. /\ worker[w].value \in Write /\ Mirrored(w) \in Write /\ Removed(w) \in Write
        /\ NoValue \in Write /\ Unwritten \in Write
    BY WrittenType DEF Write
  <2> QED
    BY <2>1, <2>2, <2>3
<1>3. ASSUME NEW x \in Write, NEW l \in {"second", "commit"}, WriteLedger(w, x, l) \/ WriteMirror(w, x, l)
      PROVE  Others(w) /\ worker'[w].pc \in {"second", "commit"}
  BY <1>3, WriteFacts
<1> QED
  BY <1>1, <1>2, <1>3 DEF OnRows

-----------------------------------------------------------------------------
(* The schema: what schema_migrations records is what there is.              *)

SchemaOf(w) ==
    /\ At(w, "down") => worker[w].at = 1
    /\ w \notin behind =>
          /\ worker[w].pc \in {"check", "create"}
             => 1..(worker[w].at - 1) \subseteq applied \cup worker[w].made
          /\ worker[w].pc \notin {"down", "check", "create"} => applied = Versions

LEMMA SchemaParts ==
    SchemaInv <=> tables = UNION {Creates[v] : v \in applied} /\ \A w \in Workers : SchemaOf(w)
BY DEF SchemaInv, SchemaOf

LEMMA SchemaWhen ==
    ASSUME tables' = UNION {Creates[v] : v \in applied'}, \A w \in Workers : SchemaOf(w)'
    PROVE  SchemaInv'
BY DEF SchemaInv, SchemaOf, At

\* A process that takes no part in a step keeps its conjunct while no version is
\* rolled back.
LEMMA SchemaOther ==
    ASSUME TypeOK, TypeOK', NEW u \in Workers, SchemaOf(u), worker'[u] = worker[u],
           applied \subseteq applied', u \notin behind' => u \notin behind
    PROVE  SchemaOf(u)'
BY DEF SchemaOf, At, TypeOK

LEMMA SchemaStart ==
    ASSUME TypeOK, TypeOK', SchemaInv, NEW w \in Workers, Boot(w) \/ Check(w) \/ Create(w)
    PROVE  SchemaInv'
<1>1. UNCHANGED <<tables, applied>> /\ \A u \in Workers \ {w} : u \notin behind' => u \notin behind
  BY DEF Boot, Check, Create
<1>2. behind' = behind \/ worker[w].pc = "down"
  BY DEF Boot, Check, Create, At
<1>3. Others(w) /\ SchemaOf(w)
  BY StartFacts, SchemaParts
<1>4. SchemaOf(w)'
  <2>1. worker[w].at \in Nat /\ worker'[w].at \in Nat /\ worker[w] \in Process
    BY DEF TypeOK, Process
  <2>2. worker[w].pc = "down" => 1..(worker[w].at - 1) = {}
    BY <1>3, <2>1 DEF SchemaOf, At
  <2>3. w \notin behind' => 1..(worker[w].at - 1) \subseteq applied \cup worker[w].made
    BY <1>2, <1>3, <2>2, StartFacts DEF SchemaOf
  <2>4. 1..(worker[w].at + 1 - 1) = 1..(worker[w].at - 1) \cup {worker[w].at} \/ worker[w].at = 0
    BY <2>1
  <2>5. worker[w].at # 0
    BY DEF TypeOK, Process
  <2>6. ASSUME w \notin behind' PROVE 1..(worker'[w].at - 1) \subseteq applied \cup worker'[w].made
    <3>1. CASE worker'[w].at = worker[w].at /\ worker'[w].made = worker[w].made
      BY <2>3, <2>6, <3>1
    <3>2. CASE worker'[w].at = worker[w].at + 1
      <4>1. worker[w].at \in applied \cup worker'[w].made /\ worker[w].made \subseteq worker'[w].made
        BY <2>1, <3>2, StartFacts DEF Recorded
      <4>2. 1..(worker[w].at - 1) \subseteq applied \cup worker[w].made
        BY <2>3, <2>6
      <4>3. 1..(worker'[w].at - 1) = 1..(worker[w].at - 1) \cup {worker[w].at}
        BY <2>4, <2>5, <3>2
      <4> QED
        BY <4>1, <4>2, <4>3
    <3> QED
      BY <3>1, <3>2, StartFacts
  <2> QED
    BY <1>1, <2>6, StartFacts DEF SchemaOf, At
<1>5. ASSUME NEW u \in Workers \ {w} PROVE SchemaOf(u)'
  BY <1>1, <1>3, <1>5, SchemaOther, SchemaParts DEF Others
<1>6. tables' = UNION {Creates[v] : v \in applied'}
  BY <1>1, SchemaParts
<1> QED
  BY <1>4, <1>5, <1>6, SchemaWhen

LEMMA SchemaMigrated ==
    ASSUME TypeOK, TypeOK', SchemaInv, NEW w \in Workers, Migrated(w) PROVE SchemaInv'
<1>1. /\ applied' = applied \cup worker[w].made /\ behind' = behind
      /\ tables' = tables \cup UNION {Creates[v] : v \in worker[w].made}
      /\ worker[w].pc = "check" /\ worker[w].at = MaxVersion + 1 /\ Ends(w, "restore")
  BY DEF Migrated, At
<1>2. Others(w) /\ worker'[w].pc = "restore"
  BY <1>1, EndsFacts
<1>3. w \notin behind => applied' = Versions
  <2>1. SchemaOf(w)
    BY SchemaParts
  <2>2. worker[w].at - 1 = MaxVersion
    BY <1>1, StoreAssumption
  <2>3. w \notin behind => Versions \subseteq applied'
    BY <1>1, <2>1, <2>2 DEF SchemaOf, Versions
  <2> QED
    BY <2>3 DEF TypeOK
<1>4. SchemaOf(w)'
  BY <1>1, <1>2, <1>3 DEF SchemaOf, At
<1>5. ASSUME NEW u \in Workers \ {w} PROVE SchemaOf(u)'
  BY <1>1, <1>2, <1>5, SchemaOther, SchemaParts DEF Others
<1>6. tables' = UNION {Creates[v] : v \in applied'}
  BY <1>1, SchemaParts
<1> QED
  BY <1>4, <1>5, <1>6, SchemaWhen

\* Calls, failures and crashes.
LEMMA SchemaRest ==
    ASSUME TypeOK, TypeOK', SchemaInv, NEW w \in Workers, OnRows(w) \/ Commit(w) \/ Stops(w)
    PROVE  SchemaInv'
<1>1. UNCHANGED <<tables, applied, behind>> /\ Others(w)
  BY RowsFacts, StopsFacts, EndsFacts DEF Commit
<1>2. \/ worker[w].pc \notin {"down", "check", "create"} /\ worker'[w].pc \notin {"down", "check", "create"}
      \/ worker'[w].pc = "down" /\ worker'[w].at = 1
  BY RowsFacts, StopsFacts, EndsFacts DEF Commit, At
<1>3. SchemaOf(w)'
  BY <1>1, <1>2, SchemaParts DEF SchemaOf, At
<1>4. ASSUME NEW u \in Workers \ {w} PROVE SchemaOf(u)'
  BY <1>1, <1>4, SchemaOther, SchemaParts DEF Others
<1>5. tables' = UNION {Creates[v] : v \in applied'}
  BY <1>1, SchemaParts
<1> QED
  BY <1>3, <1>4, <1>5, SchemaWhen

LEMMA SchemaRollback ==
    ASSUME TypeOK, SchemaInv, NEW v \in Versions, Rollback(v) PROVE SchemaInv'
<1>1. /\ tables' = tables \ Drops[v] /\ applied' = applied \ {v} /\ worker' = worker
      /\ behind' = {w \in Workers : worker[w].pc # "down"}
  BY DEF Rollback, At
<1>2. Creates[v] \subseteq Drops[v]
      /\ \A u \in Versions \ {v} : Creates[u] \cap Drops[v] = {}
  BY StoreAssumption DEF RollbacksValid, ScriptsDisjoint
<1>3. tables' = UNION {Creates[u] : u \in applied'}
  BY <1>1, <1>2, SchemaParts DEF TypeOK
<1>4. ASSUME NEW w \in Workers PROVE SchemaOf(w)'
  BY <1>1, SchemaParts DEF SchemaOf, At
<1> QED
  BY <1>3, <1>4, SchemaWhen

LEMMA SchemaStep == TypeOK /\ TypeOK' /\ SchemaInv /\ [Next]_vars => SchemaInv'
<1> SUFFICES ASSUME TypeOK, TypeOK', SchemaInv, [Next]_vars PROVE SchemaInv'
  OBVIOUS
<1>1. ASSUME NEW w \in Workers, Start(w) \/ Call(w) \/ Crash(w) PROVE SchemaInv'
  BY <1>1, SchemaStart, SchemaMigrated, SchemaRest DEF Start, Call, OnRows, Stops
<1>2. ASSUME NEW v \in Versions, Rollback(v) PROVE SchemaInv'
  BY <1>2, SchemaRollback
<1>3. CASE UNCHANGED vars
  BY <1>3 DEF vars, SchemaInv, At
<1> QED
  BY <1>1, <1>2, <1>3 DEF Next

\* For any number of processes that start, fail and die: a process that has
\* applied the migrations has every table until an operator rolls one back.
THEOREM SchemaCorrect == Spec => []SchemaWhole
<1>1. Init => SchemaInv
  <2> SUFFICES ASSUME Init PROVE SchemaInv
    OBVIOUS
  <2>1. tables = {} /\ applied = {} /\ \A w \in Workers : worker[w].pc = "down" /\ worker[w].at = 1
    BY DEF Init
  <2> QED
    BY <2>1 DEF SchemaInv, At
<1>2. TypeOK /\ SchemaInv => SchemaWhole
  <2> SUFFICES ASSUME TypeOK, SchemaInv, NEW w \in Workers \ behind,
                      worker[w].pc \notin {"down", "check", "create"}
               PROVE  tables = Tables
    BY DEF SchemaWhole
  <2>1. applied = Versions
    BY DEF SchemaInv
  <2> QED
    BY <2>1, StoreAssumption DEF SchemaInv
<1> QED
  BY <1>1, <1>2, SchemaStep, TypeCorrect, PTL DEF Spec

-----------------------------------------------------------------------------
(* The rows: the ledger never says more than the mirror.                     *)

LEMMA IdleUnwritten ==
    ASSUME TypeOK, NEW w \in Workers, Written(w), worker[w].pc \notin {"second", "commit"}
    PROVE  worker[w].toLedger = Unwritten /\ worker[w].toMirror = Unwritten
BY DEF Written, Deletes

\* The conjuncts of a process that takes no part in a step.
LEMMA MirrorOther ==
    ASSUME NEW u \in Workers, Written(u), worker'[u] = worker[u]
    PROVE  Written(u)'
BY DEF Written, Deletes

LEMMA NothingOther ==
    ASSUME NEW u \in Workers, NothingLeft(u), worker'[u] = worker[u], UNCHANGED <<ledger, lost>>
    PROVE  NothingLeft(u)'
BY DEF NothingLeft, Deletes, At

\* A step after which w has written nothing.
LEMMA MirrorQuiet ==
    ASSUME TypeOK, MirrorInv, NEW w \in Workers, Others(w), UNCHANGED <<ledger, mirror, lost>>,
           worker'[w].pc \notin {"second", "commit"},
           worker'[w].toLedger = Unwritten, worker'[w].toMirror = Unwritten
    PROVE  MirrorInv'
<1>1. Written(w)' /\ NothingLeft(w)'
  BY DEF Written, NothingLeft, Deletes, At
<1>2. ASSUME NEW u \in Workers \ {w} PROVE Written(u)' /\ NothingLeft(u)'
  BY <1>2, MirrorOther, NothingOther DEF Others, MirrorInv
<1>3. Exclusive'
  BY DEF MirrorInv, Exclusive, Others
<1>4. LedgerMirrored'
  BY DEF MirrorInv, LedgerMirrored
<1> QED
  BY <1>1, <1>2, <1>3, <1>4 DEF MirrorInv

\* A statement: w writes one of its rows, which nobody else has written.
LEMMA ExclusiveWrite ==
    ASSUME TypeOK, Exclusive, NEW w \in Workers, Others(w), worker'[w].key = worker[w].key,
           \/ worker'[w].toLedger = worker[w].toLedger \/ worker'[w].toLedger = Unwritten
           \/ ~LedgerLocked(w),
           \/ worker'[w].toMirror = worker[w].toMirror \/ worker'[w].toMirror = Unwritten
           \/ ~MirrorLocked(w)
    PROVE  Exclusive'
<1> SUFFICES ASSUME NEW u \in Workers, NEW v \in Workers, v # u, worker'[v].key = worker'[u].key
             PROVE  /\ Unwritten \in {worker'[v].toLedger, worker'[u].toLedger}
                    /\ Unwritten \in {worker'[v].toMirror, worker'[u].toMirror}
  BY DEF Exclusive
<1>1. CASE u # w /\ v # w
  BY <1>1 DEF Exclusive, Others
<1>2. ASSUME NEW z \in Workers \ {w}, worker[z].key = worker[w].key
      PROVE  /\ Unwritten \in {worker[z].toLedger, worker'[w].toLedger}
             /\ Unwritten \in {worker[z].toMirror, worker'[w].toMirror}
  <2>1. /\ Unwritten \in {worker[z].toLedger, worker[w].toLedger}
        /\ Unwritten \in {worker[z].toMirror, worker[w].toMirror}
    BY <1>2 DEF Exclusive
  <2>2. ~LedgerLocked(w) => worker[z].toLedger = Unwritten
    BY <1>2 DEF LedgerLocked
  <2>3. ~MirrorLocked(w) => worker[z].toMirror = Unwritten
    BY <1>2 DEF MirrorLocked
  <2> QED
    BY <2>1, <2>2, <2>3
<1>3. CASE u = w
  BY <1>2, <1>3 DEF Others
<1>4. CASE v = w
  BY <1>2, <1>4 DEF Others
<1> QED
  BY <1>1, <1>3, <1>4

LEMMA MirrorStatement ==
    ASSUME TypeOK, MirrorInv, NEW w \in Workers,
           UpsertLedger(w) \/ UpsertMirror(w) \/ DeleteMirror(w) \/ DeleteLedger(w)
    PROVE  MirrorInv'
<1> DEFINE p == worker[w]
           q == worker'[w]
<1>1. UNCHANGED <<ledger, mirror, lost>>
  BY DEF UpsertLedger, UpsertMirror, DeleteMirror, DeleteLedger, history
<1>2. Written(w) /\ NothingLeft(w) /\ Exclusive /\ LedgerMirrored
  BY DEF MirrorInv
<1>3. NoValue # Unwritten
  BY StoreAssumption
<1>4. /\ Others(w) /\ q.key = p.key
      /\ Written(w)' /\ NothingLeft(w)'
      /\ q.toLedger = p.toLedger \/ q.toLedger = Unwritten \/ ~LedgerLocked(w)
      /\ q.toMirror = p.toMirror \/ q.toMirror = Unwritten \/ ~MirrorLocked(w)
  <2>1. CASE UpsertLedger(w)
    <3>1. /\ p.pc = "first" /\ p.value # NoValue /\ ~LedgerLocked(w)
          /\ WriteLedger(w, p.value, "second")
      BY <2>1 DEF UpsertLedger, At, Deletes
    <3>2. /\ Others(w) /\ q.pc = "second" /\ q.toLedger = p.value /\ q.key = p.key
          /\ q.value = p.value /\ q.toMirror = p.toMirror
      BY <3>1, WriteFacts
    <3>3. p.toMirror = Unwritten
      BY <1>2, <3>1, IdleUnwritten
    <3> QED
      BY <3>1, <3>2, <3>3 DEF Written, NothingLeft, Deletes, At
  <2>2. CASE UpsertMirror(w)
    <3>1. /\ p.pc = "second" /\ p.value # NoValue /\ ~MirrorLocked(w)
          /\ WriteMirror(w, p.value, "commit")
      BY <2>2 DEF UpsertMirror, Mirrored, At, Deletes
    <3>2. /\ Others(w) /\ q.pc = "commit" /\ q.toMirror = p.value /\ q.key = p.key
          /\ q.value = p.value /\ q.toLedger = p.toLedger
      BY <3>1, WriteFacts
    <3>3. p.toLedger = p.value
      BY <1>2, <3>1 DEF Written, Deletes
    <3> QED
      BY <3>1, <3>2, <3>3 DEF Written, NothingLeft, Deletes, At
  <2>3. CASE DeleteMirror(w)
    <3>1. /\ p.pc = "first" /\ p.value = NoValue
          /\ \/ WriteMirror(w, Unwritten, "second")
             \/ ~MirrorLocked(w) /\ WriteMirror(w, NoValue, "second")
      BY <2>3 DEF DeleteMirror, At, Deletes
    <3>2. /\ Others(w) /\ q.pc = "second" /\ q.key = p.key /\ q.value = p.value
          /\ q.toLedger = p.toLedger
          /\ q.toMirror = Unwritten \/ (q.toMirror = NoValue /\ ~MirrorLocked(w))
      <4>1. CASE WriteMirror(w, Unwritten, "second")
        BY <4>1, WriteFacts
      <4>2. CASE ~MirrorLocked(w) /\ WriteMirror(w, NoValue, "second")
        BY <4>2, WriteFacts
      <4> QED
        BY <3>1, <4>1, <4>2
    <3>3. p.toLedger = Unwritten
      BY <1>2, <3>1, IdleUnwritten
    <3> QED
      BY <3>1, <3>2, <3>3 DEF Written, NothingLeft, Deletes, At
  <2>4. CASE DeleteLedger(w)
    <3>1. /\ p.pc = "second" /\ p.value = NoValue
          /\ ledger[p.key] = NoValue \/ ~LedgerLocked(w)
          /\ WriteLedger(w, Removed(w), "commit")
      BY <2>4 DEF DeleteLedger, At, Deletes
    <3>2. /\ Others(w) /\ q.pc = "commit" /\ q.key = p.key /\ q.value = p.value
          /\ q.toMirror = p.toMirror /\ q.toLedger = Removed(w)
      BY <3>1, WriteFacts
    <3>3. \/ q.toLedger = Unwritten /\ ledger[p.key] = NoValue
          \/ q.toLedger = NoValue /\ ~LedgerLocked(w)
      BY <3>1, <3>2 DEF Removed
    <3>4. p.toMirror \in {NoValue, Unwritten}
      BY <1>2, <3>1 DEF Written, Deletes
    <3>5. Written(w)'
      BY <3>1, <3>2, <3>3, <3>4 DEF Written, Deletes
    <3>6. NothingLeft(w)'
      BY <1>1, <1>3, <3>2, <3>3 DEF NothingLeft
    <3> QED
      BY <3>2, <3>3, <3>5, <3>6
  <2> QED
    BY <2>1, <2>2, <2>3, <2>4
<1>5. ASSUME NEW u \in Workers \ {w} PROVE Written(u)' /\ NothingLeft(u)'
  BY <1>1, <1>4, <1>5, MirrorOther, NothingOther DEF Others, MirrorInv
<1>6. Exclusive'
  BY <1>2, <1>4, ExclusiveWrite
<1>7. LedgerMirrored'
  BY <1>1, <1>2 DEF LedgerMirrored
<1> QED
  BY <1>4, <1>5, <1>6, <1>7 DEF MirrorInv

LEMMA MirrorCommit ==
    ASSUME TypeOK, MirrorInv, NEW w \in Workers, Commit(w) PROVE MirrorInv'
<1> DEFINE p == worker[w]
<1>1. /\ p.pc = "commit" /\ Ends(w, "serve")
      /\ ledger' = [ledger EXCEPT ![p.key] = After(ledger[p.key], p.toLedger)]
      /\ mirror' = [mirror EXCEPT ![p.key] = After(mirror[p.key], p.toMirror)]
      /\ lost' = lost \ {p.key}
  BY DEF Commit, At
<1>2. /\ Others(w) /\ worker'[w].pc = "serve"
      /\ worker'[w].toLedger = Unwritten /\ worker'[w].toMirror = Unwritten
  BY <1>1, EndsFacts
<1>3. Written(w) /\ NothingLeft(w) /\ Exclusive /\ LedgerMirrored
  BY DEF MirrorInv
<1>4. NoValue # Unwritten /\ p.key \in Keys /\ p.value # Unwritten
  BY StoreAssumption, WrittenType DEF Row
<1>5. /\ ledger'[p.key] = After(ledger[p.key], p.toLedger)
      /\ mirror'[p.key] = After(mirror[p.key], p.toMirror)
      /\ \A k \in Keys \ {p.key} : ledger'[k] = ledger[k] /\ mirror'[k] = mirror[k]
  BY <1>1, <1>4 DEF TypeOK
<1>6. ledger'[p.key] # NoValue => mirror'[p.key] = ledger'[p.key]
  <2>1. CASE p.value # NoValue
    BY <1>1, <1>3, <1>4, <1>5, <2>1 DEF Written, Deletes, After
  <2>2. CASE p.value = NoValue
    <3>1. p.toLedger \in {NoValue, Unwritten}
      BY <1>1, <1>3, <2>2 DEF Written, Deletes
    <3>2. CASE p.toLedger = NoValue
      BY <1>4, <1>5, <3>2 DEF After
    <3>3. CASE p.toLedger = Unwritten
      <4>1. \/ ledger[p.key] = NoValue
            \/ p.toMirror = Unwritten /\ p.key \notin lost
        BY <1>1, <1>3, <2>2, <3>3 DEF NothingLeft, Deletes, At
      <4> QED
        BY <1>3, <1>4, <1>5, <3>3, <4>1 DEF After, LedgerMirrored
    <3> QED
      BY <3>1, <3>2, <3>3
  <2> QED
    BY <2>1, <2>2
<1>7. LedgerMirrored'
  BY <1>1, <1>3, <1>5, <1>6 DEF LedgerMirrored
<1>8. Exclusive'
  BY <1>2, <1>3 DEF Exclusive, Others
<1>9. Written(w)' /\ NothingLeft(w)'
  BY <1>2 DEF Written, NothingLeft, Deletes, At
<1>10. ASSUME NEW u \in Workers \ {w} PROVE Written(u)'
  BY <1>2, MirrorOther DEF Others, MirrorInv
<1>11. ASSUME NEW u \in Workers \ {w} PROVE NothingLeft(u)'
  <2> SUFFICES ASSUME worker[u].pc = "commit", worker[u].value = NoValue,
                      worker[u].toLedger = Unwritten
               PROVE  \/ ledger'[worker[u].key] = NoValue
                      \/ worker[u].toMirror = Unwritten /\ worker[u].key \notin lost'
    BY <1>2 DEF NothingLeft, Deletes, At, Others
  <2>1. \/ ledger[worker[u].key] = NoValue
        \/ worker[u].toMirror = Unwritten /\ worker[u].key \notin lost
    BY DEF MirrorInv, NothingLeft, Deletes, At
  <2>2. worker[u].key \in Keys
    BY WrittenType
  <2>3. CASE worker[u].key # p.key
    BY <1>1, <1>5, <2>1, <2>2, <2>3
  <2>4. CASE worker[u].key = p.key /\ p.toMirror # Unwritten
    <3>1. worker[u].toMirror = Unwritten
      BY <1>3, <2>4 DEF Exclusive
    <3> QED
      BY <1>1, <2>4, <3>1
  <2>5. CASE worker[u].key = p.key /\ p.toMirror = Unwritten
    <3>1. p.value = NoValue /\ p.toLedger \in {NoValue, Unwritten}
      BY <1>1, <1>3, <1>4, <2>5 DEF Written, Deletes
    <3> QED
      BY <1>1, <1>4, <1>5, <2>1, <2>5, <3>1 DEF After
  <2> QED
    BY <2>3, <2>4, <2>5
<1> QED
  BY <1>7, <1>8, <1>9, <1>10, <1>11 DEF MirrorInv

LEMMA MirrorRollback ==
    ASSUME TypeOK, MirrorInv, NEW v \in Versions, Rollback(v) PROVE MirrorInv'
<1>1. /\ worker' = worker
      /\ lost' = lost \cup {k \in Keys : TableOf[k] \in Drops[v]}
      /\ \A w \in Workers : Used(w) \cap Drops[v] = {}
      /\ ledger' = [k \in Keys |-> NoValue] \/ ledger' = ledger
      /\ mirror' = [k \in Keys |-> IF TableOf[k] \in Drops[v] THEN NoValue ELSE mirror[k]]
  BY DEF Rollback
<1>2. LedgerMirrored'
  BY <1>1 DEF MirrorInv, LedgerMirrored, TypeOK
<1>3. ASSUME NEW w \in Workers PROVE Written(w)' /\ NothingLeft(w)'
  <2>1. Written(w)'
    BY <1>1 DEF MirrorInv, Written, Deletes
  <2>2. At(w, "commit") => TableOf[worker[w].key] \notin Drops[v]
    BY <1>1 DEF Used
  <2>3. worker[w].key \in Keys
    BY WrittenType
  <2>4. NothingLeft(w)'
    BY <1>1, <2>2, <2>3 DEF MirrorInv, NothingLeft, Deletes, At
  <2> QED
    BY <2>1, <2>4
<1>4. Exclusive'
  BY <1>1 DEF MirrorInv, Exclusive
<1> QED
  BY <1>2, <1>3, <1>4 DEF MirrorInv

LEMMA MirrorStep == TypeOK /\ MirrorInv /\ [Next]_vars => MirrorInv'
<1> SUFFICES ASSUME TypeOK, MirrorInv, [Next]_vars PROVE MirrorInv'
  OBVIOUS
<1>1. ASSUME NEW w \in Workers, Boot(w) \/ Check(w) \/ Create(w) PROVE MirrorInv'
  <2>1. worker[w].toLedger = Unwritten /\ worker[w].toMirror = Unwritten
    BY <1>1, StartFacts, IdleUnwritten DEF MirrorInv
  <2>2. UNCHANGED <<ledger, mirror, lost>>
    BY <1>1 DEF Boot, Check, Create, history
  <2> QED
    BY <1>1, <2>1, <2>2, StartFacts, MirrorQuiet
<1>2. ASSUME NEW w \in Workers, Migrated(w) PROVE MirrorInv'
  <2>1. Ends(w, "restore") /\ UNCHANGED <<ledger, mirror, lost>>
    BY <1>2 DEF Migrated, history
  <2> QED
    BY <2>1, EndsFacts, MirrorQuiet
<1>3. ASSUME NEW w \in Workers, Stops(w) PROVE MirrorInv'
  <2>1. UNCHANGED <<ledger, mirror, lost>>
    BY <1>3, StopsFacts DEF history
  <2> QED
    BY <1>3, <2>1, StopsFacts, EndsFacts, MirrorQuiet
<1>4. ASSUME NEW w \in Workers, NEW k \in Keys, NEW x \in Row, Begin(w, k, x) PROVE MirrorInv'
  <2>1. worker[w].pc = "serve" /\ UNCHANGED <<ledger, mirror, lost>>
    BY <1>4 DEF Begin, At
  <2>2. worker[w].toLedger = Unwritten /\ worker[w].toMirror = Unwritten
    BY <2>1, IdleUnwritten DEF MirrorInv
  <2> QED
    BY <1>4, <2>1, <2>2, BeginFacts, MirrorQuiet
<1>5. ASSUME NEW v \in Versions, Rollback(v) PROVE MirrorInv'
  BY <1>5, MirrorRollback
<1>6. CASE UNCHANGED vars
  BY <1>6 DEF vars, history, MirrorInv, Written, NothingLeft, Exclusive, LedgerMirrored, Deletes, At
<1> QED
  BY <1>1, <1>2, <1>3, <1>4, <1>5, <1>6, MirrorStatement, MirrorCommit DEF Next, Start, Call, Stops

LEMMA MirrorInit == Init => MirrorInv
<1> SUFFICES ASSUME Init PROVE MirrorInv
  OBVIOUS
<1>1. \A w \in Workers : /\ worker[w].pc = "down" /\ worker[w].toLedger = Unwritten
                         /\ worker[w].toMirror = Unwritten
  BY DEF Init
<1>2. LedgerMirrored
  BY DEF Init, LedgerMirrored
<1>3. Exclusive
  BY <1>1 DEF Exclusive
<1>4. \A w \in Workers : Written(w) /\ NothingLeft(w)
  BY <1>1 DEF Written, NothingLeft, At
<1> QED
  BY <1>2, <1>3, <1>4 DEF MirrorInv

\* For any number of processes and entities: where the ledger has a row, the
\* mirror has the same one, unless its table was dropped.
THEOREM MirrorCorrect == Spec => []LedgerMirrored
<1>1. MirrorInv => LedgerMirrored
  BY DEF MirrorInv
<1> QED
  BY <1>1, MirrorInit, MirrorStep, TypeCorrect, PTL DEF Spec

-----------------------------------------------------------------------------
(* What is read: the last committed call, where no kinds were mixed.         *)

OneKind ==
    \A v, w \in Workers :
        Active(v) /\ Active(w) /\ worker[v].key = worker[w].key /\ worker[w].key \notin mixed
        => (Deletes(v) <=> Deletes(w))

NoMirrorRow(w) ==
    /\ worker[w].pc \in {"second", "commit"} /\ Deletes(w)
    /\ worker[w].toMirror = Unwritten /\ worker[w].key \notin mixed
    => mirror[worker[w].key] = NoValue

LEMMA ReadParts ==
    ReadInv <=> OneKind /\ (\A w \in Workers : NoMirrorRow(w)) /\ ConfirmedIsRead
BY DEF ReadInv, OneKind, NoMirrorRow

LEMMA ReadWhen ==
    ASSUME OneKind', \A w \in Workers : NoMirrorRow(w)', ConfirmedIsRead' PROVE ReadInv'
BY DEF ReadInv, OneKind, NoMirrorRow, Active, Deletes

\* A step after which w is not active, or as active as before for the same call.
LEMMA OneKindKept ==
    ASSUME OneKind, NEW w \in Workers, Others(w), mixed' = mixed,
           \/ worker'[w].pc \notin {"first", "second", "commit"}
           \/ /\ Active(w) /\ worker'[w].key = worker[w].key /\ worker'[w].value = worker[w].value
    PROVE  OneKind'
BY DEF OneKind, Others, Active, Deletes

\* A step that changes no row and leaves w without a statement behind it.
LEMMA ReadQuiet ==
    ASSUME ReadInv, NEW w \in Workers, Others(w), UNCHANGED <<mirror, last, lost, mixed>>,
           worker'[w].pc \notin {"first", "second", "commit"}
    PROVE  ReadInv'
<1>1. OneKind'
  BY OneKindKept, ReadParts
<1>2. ASSUME NEW u \in Workers PROVE NoMirrorRow(u)'
  BY <1>2, ReadParts DEF NoMirrorRow, Others, Deletes
<1>3. ConfirmedIsRead'
  BY ReadParts DEF ConfirmedIsRead, Read
<1> QED
  BY <1>1, <1>2, <1>3, ReadWhen

LEMMA ReadBegin ==
    ASSUME TypeOK, ReadInv, NEW w \in Workers, NEW k \in Keys, NEW x \in Row, Begin(w, k, x)
    PROVE  ReadInv'
<1>1. /\ Others(w) /\ worker'[w].pc = "first" /\ worker'[w].key = k /\ worker'[w].value = x
      /\ UNCHANGED <<mirror, last, lost>> /\ worker[w].pc = "serve"
      /\ mixed \subseteq mixed'
      /\ (\E v \in Workers : /\ Active(v) /\ worker[v].key = k
                             /\ Deletes(v) # (x = NoValue)) => k \in mixed'
  BY BeginFacts DEF Begin, At
<1>2. OneKind'
  <2> SUFFICES ASSUME NEW u \in Workers, NEW v \in Workers, Active(u)', Active(v)',
                      worker'[u].key = worker'[v].key, worker'[v].key \notin mixed'
               PROVE  Deletes(u)' <=> Deletes(v)'
    BY DEF OneKind
  <2>1. ASSUME NEW z \in Workers \ {w}, Active(z), worker[z].key = k, k \notin mixed'
        PROVE  (worker[z].value = NoValue) <=> (x = NoValue)
    BY <1>1, <2>1 DEF Deletes
  <2>2. CASE u # w /\ v # w
    BY <1>1, <2>2, ReadParts DEF OneKind, Others, Active, Deletes
  <2>3. CASE u = w /\ v # w
    BY <1>1, <2>1, <2>3 DEF Others, Active, Deletes
  <2>4. CASE u # w /\ v = w
    BY <1>1, <2>1, <2>4 DEF Others, Active, Deletes
  <2> QED
    BY <2>2, <2>3, <2>4
<1>3. ASSUME NEW u \in Workers PROVE NoMirrorRow(u)'
  BY <1>1, <1>3, ReadParts DEF NoMirrorRow, Others, Deletes
<1>4. ConfirmedIsRead'
  BY <1>1, ReadParts DEF ConfirmedIsRead, Read
<1> QED
  BY <1>2, <1>3, <1>4, ReadWhen

LEMMA ReadStatement ==
    ASSUME TypeOK, ReadInv, NEW w \in Workers,
           UpsertLedger(w) \/ UpsertMirror(w) \/ DeleteMirror(w) \/ DeleteLedger(w)
    PROVE  ReadInv'
<1> DEFINE p == worker[w]
           q == worker'[w]
<1>1. UNCHANGED <<mirror, last, lost, mixed>>
  BY DEF UpsertLedger, UpsertMirror, DeleteMirror, DeleteLedger, history
<1>2. NoValue # Unwritten
  BY StoreAssumption
<1>3. /\ Others(w) /\ q.key = p.key /\ q.value = p.value /\ p.pc \in {"first", "second"}
      /\ NoMirrorRow(w)'
  <2>1. CASE UpsertLedger(w)
    <3>1. p.pc = "first" /\ p.value # NoValue /\ WriteLedger(w, p.value, "second")
      BY <2>1 DEF UpsertLedger, At, Deletes
    <3> QED
      BY <3>1, WriteFacts DEF NoMirrorRow, Deletes
  <2>2. CASE UpsertMirror(w)
    <3>1. p.pc = "second" /\ p.value # NoValue /\ WriteMirror(w, p.value, "commit")
      BY <2>2 DEF UpsertMirror, Mirrored, At, Deletes
    <3> QED
      BY <3>1, WriteFacts DEF NoMirrorRow, Deletes
  <2>3. CASE DeleteMirror(w)
    <3>1. /\ p.pc = "first"
          /\ \/ mirror[p.key] = NoValue /\ WriteMirror(w, Unwritten, "second")
             \/ WriteMirror(w, NoValue, "second")
      BY <2>3 DEF DeleteMirror, At, Deletes
    <3>2. CASE mirror[p.key] = NoValue /\ WriteMirror(w, Unwritten, "second")
      BY <1>1, <3>1, <3>2, WriteFacts DEF NoMirrorRow
    <3>3. CASE WriteMirror(w, NoValue, "second")
      BY <1>2, <3>1, <3>3, WriteFacts DEF NoMirrorRow
    <3> QED
      BY <3>1, <3>2, <3>3
  <2>4. CASE DeleteLedger(w)
    <3>1. p.pc = "second" /\ WriteLedger(w, Removed(w), "commit")
      BY <2>4 DEF DeleteLedger, At, Deletes
    <3>2. /\ Others(w) /\ q.pc = "commit" /\ q.key = p.key /\ q.value = p.value
          /\ q.toMirror = p.toMirror
      BY <3>1, WriteFacts
    <3> QED
      BY <1>1, <3>1, <3>2, ReadParts DEF NoMirrorRow, Deletes
  <2> QED
    BY <2>1, <2>2, <2>3, <2>4
<1>4. OneKind'
  BY <1>1, <1>3, OneKindKept, ReadParts DEF Active
<1>5. ASSUME NEW u \in Workers \ {w} PROVE NoMirrorRow(u)'
  BY <1>1, <1>3, <1>5, ReadParts DEF NoMirrorRow, Others, Deletes
<1>6. ConfirmedIsRead'
  BY <1>1, ReadParts DEF ConfirmedIsRead, Read
<1> QED
  BY <1>3, <1>4, <1>5, <1>6, ReadWhen

LEMMA ReadCommit ==
    ASSUME TypeOK, MirrorInv, ReadInv, NEW w \in Workers, Commit(w) PROVE ReadInv'
<1> DEFINE p == worker[w]
<1>1. /\ p.pc = "commit" /\ Ends(w, "serve") /\ mixed' = mixed
      /\ mirror' = [mirror EXCEPT ![p.key] = After(mirror[p.key], p.toMirror)]
      /\ last' = [last EXCEPT ![p.key] = p.value]
      /\ lost' = lost \ {p.key}
  BY DEF Commit, At
<1>2. Others(w) /\ worker'[w].pc = "serve"
  BY <1>1, EndsFacts
<1>3. NoValue # Unwritten /\ p.key \in Keys /\ p.value # Unwritten
  BY StoreAssumption, WrittenType DEF Row
<1>4. /\ mirror'[p.key] = After(mirror[p.key], p.toMirror) /\ last'[p.key] = p.value
      /\ \A k \in Keys \ {p.key} : mirror'[k] = mirror[k] /\ last'[k] = last[k]
  BY <1>1, <1>3 DEF TypeOK
<1>5. p.value = NoValue => p.toMirror \in {NoValue, Unwritten}
  BY <1>1 DEF MirrorInv, Written, Deletes
<1>6. p.value # NoValue => p.toMirror = p.value
  BY <1>1 DEF MirrorInv, Written, Deletes
<1>7. p.key \notin mixed => mirror'[p.key] = p.value
  <2>1. CASE p.value # NoValue
    BY <1>3, <1>4, <1>6, <2>1 DEF After
  <2>2. CASE p.value = NoValue /\ p.toMirror = NoValue
    BY <1>3, <1>4, <2>2 DEF After
  <2>3. CASE p.value = NoValue /\ p.toMirror = Unwritten
    BY <1>1, <1>4, <2>3, ReadParts DEF NoMirrorRow, Deletes, After
  <2> QED
    BY <1>5, <2>1, <2>2, <2>3
<1>8. ConfirmedIsRead'
  BY <1>1, <1>4, <1>7, ReadParts DEF ConfirmedIsRead, Read
<1>9. OneKind'
  BY <1>1, <1>2, OneKindKept, ReadParts
<1>10. NoMirrorRow(w)'
  BY <1>2 DEF NoMirrorRow
<1>11. ASSUME NEW u \in Workers \ {w} PROVE NoMirrorRow(u)'
  <2> SUFFICES ASSUME worker[u].pc \in {"second", "commit"}, worker[u].value = NoValue,
                      worker[u].toMirror = Unwritten, worker[u].key \notin mixed
               PROVE  mirror'[worker[u].key] = NoValue
    BY <1>1, <1>2 DEF NoMirrorRow, Deletes, Others
  <2>1. mirror[worker[u].key] = NoValue /\ worker[u].key \in Keys
    BY ReadParts, WrittenType DEF NoMirrorRow, Deletes
  <2>2. CASE worker[u].key # p.key
    BY <1>4, <2>1, <2>2
  <2>3. CASE worker[u].key = p.key
    <3>1. p.value = NoValue
      BY <1>1, <2>3, ReadParts DEF OneKind, Active, Deletes
    <3> QED
      BY <1>7, <2>3, <3>1
  <2> QED
    BY <2>2, <2>3
<1> QED
  BY <1>8, <1>9, <1>10, <1>11, ReadWhen

LEMMA ReadRollback ==
    ASSUME TypeOK, ReadInv, NEW v \in Versions, Rollback(v) PROVE ReadInv'
<1>1. /\ worker' = worker /\ last' = last /\ mixed' = mixed
      /\ lost' = lost \cup {k \in Keys : TableOf[k] \in Drops[v]}
      /\ mirror' = [k \in Keys |-> IF TableOf[k] \in Drops[v] THEN NoValue ELSE mirror[k]]
  BY DEF Rollback
<1>2. ConfirmedIsRead'
  BY <1>1, ReadParts DEF ConfirmedIsRead, Read
<1>3. OneKind'
  BY <1>1, ReadParts DEF OneKind, Active, Deletes
<1>4. ASSUME NEW w \in Workers PROVE NoMirrorRow(w)'
  <2>1. worker[w].key \in Keys
    BY WrittenType
  <2> QED
    BY <1>1, <2>1, ReadParts DEF NoMirrorRow, Deletes
<1> QED
  BY <1>2, <1>3, <1>4, ReadWhen

LEMMA ReadStep == TypeOK /\ MirrorInv /\ ReadInv /\ [Next]_vars => ReadInv'
<1> SUFFICES ASSUME TypeOK, MirrorInv, ReadInv, [Next]_vars PROVE ReadInv'
  OBVIOUS
<1>1. ASSUME NEW w \in Workers, Boot(w) \/ Check(w) \/ Create(w) PROVE ReadInv'
  <2>1. UNCHANGED <<mirror, last, lost, mixed>>
    BY <1>1 DEF Boot, Check, Create, history
  <2>2. Others(w) /\ worker'[w].pc \in {"check", "create"}
    BY <1>1, StartFacts
  <2> QED
    BY <2>1, <2>2, ReadQuiet
<1>2. ASSUME NEW w \in Workers, Migrated(w) PROVE ReadInv'
  <2>1. Ends(w, "restore") /\ UNCHANGED <<mirror, last, lost, mixed>>
    BY <1>2 DEF Migrated, history
  <2> QED
    BY <2>1, EndsFacts, ReadQuiet
<1>3. ASSUME NEW w \in Workers, Stops(w) PROVE ReadInv'
  <2>1. UNCHANGED <<mirror, last, lost, mixed>>
    BY <1>3, StopsFacts DEF history
  <2> QED
    BY <1>3, <2>1, StopsFacts, EndsFacts, ReadQuiet
<1>4. CASE UNCHANGED vars
  BY <1>4 DEF vars, history, ReadInv, ConfirmedIsRead, Read, Active, Deletes
<1> QED
  BY <1>1, <1>2, <1>3, <1>4, ReadBegin, ReadStatement, ReadCommit, ReadRollback
     DEF Next, Start, Call, Stops

\* For any number of processes and entities: what the last committed call left is
\* what is read, where no upsert overlapped a delete and the table stayed.
THEOREM ReadCorrect == Spec => []ConfirmedIsRead
<1>1. Init => ReadInv
  <2> SUFFICES ASSUME Init PROVE ReadInv
    OBVIOUS
  <2>1. \A w \in Workers : worker[w].pc = "down"
    BY DEF Init
  <2>2. ConfirmedIsRead
    BY DEF Init, ConfirmedIsRead, Read
  <2> QED
    BY <2>1, <2>2 DEF ReadInv, Active
<1>2. ReadInv => ConfirmedIsRead
  BY DEF ReadInv
<1> QED
  BY <1>1, <1>2, ReadStep, MirrorInit, MirrorStep, TypeCorrect, PTL DEF Spec
=============================================================================

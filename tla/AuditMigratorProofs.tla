------------------------- MODULE AuditMigratorProofs -------------------------
(***************************************************************************)
(* Proofs about AuditMigrator for any number of processes, operators and   *)
(* deaths: type correctness, that a host is ready only on a whole schema,  *)
(* and that no upgrade costs audit rows.                                   *)
(***************************************************************************)
EXTENDS AuditMigrator, TLAPS

(***************************************************************************)
(* A file that no process has opened yet is well formed.                   *)
(***************************************************************************)
LEMMA InitType == Init => TypeOK
<1> SUFFICES ASSUME Init PROVE TypeOK
  OBVIOUS
<1>1. /\ versions \subseteq {Version}
      /\ table \in BOOLEAN /\ index \in BOOLEAN /\ entries \in BOOLEAN /\ rolledBack \in BOOLEAN
  BY Zenon DEF Init
<1>2. pc \in [Procs -> Places] /\ writer \in Procs \cup {None}
  BY DEF Init, Places
<1>3. crashes \in 0 .. MaxCrashes
  BY MigratorAssumption DEF Init
<1>4. QED
  BY <1>1, <1>2, <1>3 DEF TypeOK

(***************************************************************************)
(* Every variable keeps its type.                                          *)
(***************************************************************************)
LEMMA NextType == TypeOK /\ [Next]_vars => TypeOK'
<1> SUFFICES ASSUME TypeOK, [Next]_vars
             PROVE  TypeOK'
  OBVIOUS
<1> USE MigratorAssumption
    DEF TypeOK, Places, Working, Upgrading, RollingBack, GoTo, schema, Statement, Unlock
<1>1. ASSUME NEW p \in Procs, Start(p) PROVE TypeOK'
  BY <1>1 DEF Start
<1>2. ASSUME NEW p \in Procs, MigratorStep(p) PROVE TypeOK'
  <2>1. CASE HasVersion(p)
    BY <2>1 DEF HasVersion
  <2>2. CASE CreateTable(p) \/ CreateIndex(p) \/ RecordVersion(p)
    BY <2>2 DEF CreateTable, CreateIndex, RecordVersion
  <2>3. CASE DropTable(p) \/ DropIndex(p) \/ ForgetVersion(p)
    BY <2>3 DEF DropTable, DropIndex, ForgetVersion
  <2>4. CASE Commit(p)
    BY <2>4 DEF Commit
  <2>5. CASE TimesOut(p)
    BY <2>5 DEF TimesOut, Fail
  <2>6. QED
    BY <1>2, <2>1, <2>2, <2>3, <2>4, <2>5 DEF MigratorStep
<1>3. ASSUME NEW p \in Procs, DiskFails(p) PROVE TypeOK'
  BY <1>3 DEF DiskFails, Fail
<1>4. ASSUME NEW p \in Procs, Crash(p) PROVE TypeOK'
  BY <1>4 DEF Crash
<1>5. ASSUME NEW p \in Procs, Stop(p) \/ WriteEntry(p) PROVE TypeOK'
  BY <1>5 DEF Stop, WriteEntry
<1>6. CASE UNCHANGED vars
  BY <1>6 DEF vars
<1>7. QED
  BY <1>1, <1>2, <1>3, <1>4, <1>5, <1>6 DEF Next

(***************************************************************************)
(* The migrator's state is always well formed.                             *)
(***************************************************************************)
THEOREM MigratorTypeCorrect == Spec => []TypeOK
<1>1. Init => TypeOK
  BY InitType
<1>2. TypeOK /\ [Next]_vars => TypeOK'
  BY NextType
<1>3. QED
  BY <1>1, <1>2, PTL DEF Spec

------------------------------------------------------------------------------
(***************************************************************************)
(* Why ReadyMeansSchema holds.  As long as nobody has rolled back, nobody  *)
(* is in a rollback; the table, the index and the version row then only    *)
(* appear, in this order.  A process that is about to record the version   *)
(* created the index itself, one that passed CREATE TABLE knows that the   *)
(* table is there, and the version row needs both.  The transaction of the *)
(* version row is the only one that stays open over a step.                *)
(***************************************************************************)
SchemaGrows ==
  /\ Recorded => index
  /\ index => table
  /\ \A p \in Procs :
       /\ pc[p] \notin RollingBack \cup {"removed"}
       /\ pc[p] = "createIndex" => table
       /\ pc[p] \in {"record", "commitRecord"} => index
       /\ pc[p] = "ready" => Recorded

MigratorInv ==
  /\ TypeOK
  /\ \A p \in Procs : writer = p => pc[p] \in {"commitRecord", "commitForget"}
  /\ \A p \in Procs : pc[p] \in RollingBack \cup {"removed"} => rolledBack
  /\ ~rolledBack => SchemaGrows

(***************************************************************************)
(* The invariant is inductive.                                             *)
(***************************************************************************)
LEMMA NextInv == MigratorInv /\ [Next]_vars => MigratorInv'
<1> SUFFICES ASSUME MigratorInv, [Next]_vars
             PROVE  MigratorInv'
  OBVIOUS
<1> TypeOK'
  BY NextType DEF MigratorInv
<1> USE MigratorAssumption
    DEF MigratorInv, SchemaGrows, Recorded, TypeOK, Working, Upgrading, RollingBack, GoTo,
        schema, Statement, Unlock
<1>1. ASSUME NEW p \in Procs, Start(p) PROVE MigratorInv'
  BY <1>1 DEF Start
<1>2. ASSUME NEW p \in Procs, MigratorStep(p) PROVE MigratorInv'
  <2>1. CASE HasVersion(p)
    BY <2>1 DEF HasVersion
  <2>2. CASE CreateTable(p)
    BY <2>2 DEF CreateTable
  <2>3. CASE CreateIndex(p)
    BY <2>3 DEF CreateIndex
  <2>4. CASE RecordVersion(p)
    BY <2>4 DEF RecordVersion
  <2>5. CASE DropTable(p) \/ DropIndex(p) \/ ForgetVersion(p)
    BY <2>5 DEF DropTable, DropIndex, ForgetVersion
  <2>6. CASE Commit(p)
    BY <2>6 DEF Commit
  <2>7. CASE TimesOut(p)
    BY <2>7 DEF TimesOut, Fail
  <2>8. QED
    BY <1>2, <2>1, <2>2, <2>3, <2>4, <2>5, <2>6, <2>7 DEF MigratorStep
<1>3. ASSUME NEW p \in Procs, DiskFails(p) PROVE MigratorInv'
  BY <1>3 DEF DiskFails, Fail
<1>4. ASSUME NEW p \in Procs, Crash(p) PROVE MigratorInv'
  BY <1>4 DEF Crash
<1>5. ASSUME NEW p \in Procs, Stop(p) \/ WriteEntry(p) PROVE MigratorInv'
  BY <1>5 DEF Stop, WriteEntry
<1>6. CASE UNCHANGED vars
  BY <1>6 DEF vars
<1>7. QED
  BY <1>1, <1>2, <1>3, <1>4, <1>5, <1>6 DEF Next

(***************************************************************************)
(* The schema grows in order until somebody rolls back, however many       *)
(* processes boot on the file and wherever they fail or die.               *)
(***************************************************************************)
THEOREM MigratorInvariant == Spec => []MigratorInv
<1>1. Init => MigratorInv
  BY InitType, MigratorAssumption DEF Init, MigratorInv, SchemaGrows, Recorded, RollingBack
<1>2. MigratorInv /\ [Next]_vars => MigratorInv'
  BY NextInv
<1>3. QED
  BY <1>1, <1>2, PTL DEF Spec

(***************************************************************************)
(* A host that is ready has the version row, the table and the index,      *)
(* unless an operator has rolled back.                                     *)
(***************************************************************************)
THEOREM ReadyOnWholeSchema == Spec => []ReadyMeansSchema
<1>1. MigratorInv => ReadyMeansSchema
  BY DEF MigratorInv, SchemaGrows, ReadyMeansSchema
<1>2. QED
  BY <1>1, MigratorInvariant, PTL

(***************************************************************************)
(* Only the DROP TABLE of an operator's rollback removes audit rows.       *)
(***************************************************************************)
LEMMA OnlyDropTableRemoves ==
  ASSUME [Next]_vars, entries, ~entries'
  PROVE  \E p \in Procs : DropTable(p)
BY DEF Next, vars, schema, Start, MigratorStep, HasVersion, Statement, CreateTable, CreateIndex,
       RecordVersion, DropIndex, ForgetVersion, Commit, TimesOut, DiskFails, Fail, Crash, Stop,
       WriteEntry

(***************************************************************************)
(* Whoever is in a rollback is an operator, from the start of a rollback   *)
(* to its end.                                                             *)
(***************************************************************************)
OperatorsRollBack == \A p \in Procs : pc[p] \in RollingBack => p \in Operators

(***************************************************************************)
(* Nothing enters a rollback but an operator's call of apply_rollback.     *)
(***************************************************************************)
LEMMA NextOperators == TypeOK /\ OperatorsRollBack /\ [Next]_vars => OperatorsRollBack'
<1> SUFFICES ASSUME TypeOK, OperatorsRollBack, [Next]_vars, NEW p \in Procs,
                    pc'[p] \in RollingBack, pc'[p] # pc[p]
             PROVE  p \in Operators
  BY DEF OperatorsRollBack
<1> USE DEF TypeOK, OperatorsRollBack, RollingBack, Working, Upgrading, GoTo, Statement
<1>1. ASSUME NEW q \in Procs, Start(q) PROVE p \in Operators
  BY <1>1 DEF Start
<1>2. ASSUME NEW q \in Procs, MigratorStep(q) PROVE p \in Operators
  BY <1>2 DEF MigratorStep, HasVersion, CreateTable, CreateIndex, RecordVersion, DropTable,
              DropIndex, ForgetVersion, Commit, TimesOut, Fail
<1>3. ASSUME NEW q \in Procs, DiskFails(q) \/ Crash(q) \/ Stop(q) \/ WriteEntry(q)
      PROVE  p \in Operators
  BY <1>3 DEF DiskFails, Fail, Crash, Stop, WriteEntry
<1>4. CASE UNCHANGED vars
  BY <1>4 DEF vars
<1>5. QED
  BY <1>1, <1>2, <1>3, <1>4 DEF Next

(***************************************************************************)
(* No upgrade removes audit rows, whatever it races with: rows go only in  *)
(* a step in which an operator is at DROP TABLE.                           *)
(***************************************************************************)
THEOREM UpgradesKeepEntries == Spec => UpgradeKeepsEntries
<1> DEFINE A == (entries /\ ~entries') => \E o \in Operators : pc[o] = "dropTable"
<1>1. Init => OperatorsRollBack
  BY DEF Init, OperatorsRollBack, RollingBack
<1>2. TypeOK /\ OperatorsRollBack /\ [Next]_vars => OperatorsRollBack'
  BY NextOperators
<1>3. OperatorsRollBack /\ [Next]_vars => [A]_vars
  BY OnlyDropTableRemoves DEF OperatorsRollBack, DropTable, Statement, RollingBack
<1>4. QED
  BY <1>1, <1>2, <1>3, MigratorTypeCorrect, PTL DEF Spec, UpgradeKeepsEntries
=============================================================================

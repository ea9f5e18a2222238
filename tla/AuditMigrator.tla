---------------------------- MODULE AuditMigrator ----------------------------
(***************************************************************************)
(* AuditMigrator (adapters/audit/migrator.py): apply_upgrade, which every  *)
(* host runs at boot (build_mysql_container), and apply_rollback, run by   *)
(* an operator, on one audit database.                                     *)
(*                                                                         *)
(* executescript commits each statement of a script on its own, so a       *)
(* script is a sequence of separate commits, followed by the version row   *)
(* in a transaction of its own.  schema_migrations is created if missing   *)
(* before every use and never dropped, so only its row is state.           *)
(***************************************************************************)
EXTENDS Naturals

CONSTANTS
  Procs,       \* processes that open the database
  Operators,   \* those that may also run apply_rollback
  None,        \* no process
  DiskErrors,  \* whether SQLite may fail for reasons other than the lock
  MaxCrashes   \* BOUND: how many times a process may die

ASSUME MigratorAssumption ==
  /\ Operators \subseteq Procs
  /\ None \notin Procs
  /\ DiskErrors \in BOOLEAN
  /\ MaxCrashes \in Nat

VARIABLES
  versions,  \* the rows of schema_migrations
  table,     \* audit_events exists
  index,     \* idx_audit_events_trace_id exists
  entries,   \* audit_events holds audit rows
  writer,    \* the process with an open transaction
  pc,        \* where each process is
  crashes,
  rolledBack \* HISTORY: an operator has ever called apply_rollback

vars == <<versions, table, index, entries, writer, pc, crashes, rolledBack>>

Upgrading == {"checkUpgrade", "createTable", "createIndex", "record", "commitRecord"}
RollingBack == {"checkRollback", "dropTable", "dropIndex", "forget", "commitForget"}
Working == Upgrading \cup RollingBack

\* "ready": a host whose container is built; "removed": a rollback that returned
Places == {"down", "ready", "removed", "raised"} \cup Working

\* _VERSION
Version == "001_create_audit_events"
Recorded == Version \in versions

TypeOK ==
  /\ versions \subseteq {Version}
  /\ table \in BOOLEAN
  /\ index \in BOOLEAN
  /\ entries \in BOOLEAN
  /\ writer \in Procs \cup {None}
  /\ pc \in [Procs -> Places]
  /\ crashes \in 0 .. MaxCrashes
  /\ rolledBack \in BOOLEAN

Init ==
  /\ versions = {}
  /\ table = FALSE
  /\ index = FALSE
  /\ entries = FALSE
  /\ writer = None
  /\ pc = [p \in Procs |-> "down"]
  /\ crashes = 0
  /\ rolledBack = FALSE

schema == <<versions, table, index, entries>>

GoTo(p, place) == pc' = [pc EXCEPT ![p] = place]

\* a statement that is committed by itself needs the write lock for an instant
Statement(p, place) == pc[p] = place /\ writer = None /\ UNCHANGED <<writer, crashes, rolledBack>>

Start(p) ==
  /\ pc[p] = "down"
  /\ \/ GoTo(p, "checkUpgrade") /\ UNCHANGED rolledBack
     \/ p \in Operators /\ GoTo(p, "checkRollback") /\ rolledBack' = TRUE
  /\ UNCHANGED <<schema, writer, crashes>>

\* MUTANT of HasVersion: looks for the table and not for the version row
HasTable(p) ==
  /\ \/ /\ pc[p] = "checkUpgrade"
        /\ GoTo(p, IF table THEN "ready" ELSE "createTable")
     \/ /\ pc[p] = "checkRollback"
        /\ GoTo(p, IF table THEN "dropTable" ELSE "removed")
  /\ UNCHANGED <<schema, writer, crashes, rolledBack>>

\* _has_version decides the whole method and is not looked at again
HasVersion(p) ==
  /\ \/ /\ pc[p] = "checkUpgrade"
        /\ GoTo(p, IF Recorded THEN "ready" ELSE "createTable")
     \/ /\ pc[p] = "checkRollback"
        /\ GoTo(p, IF Recorded THEN "dropTable" ELSE "removed")
  /\ UNCHANGED <<schema, writer, crashes, rolledBack>>

------------------------------------------------------------------------------
(* apply_upgrade                                                            *)

\* MUTANT of CreateTable: an implicit rebuild, DROP TABLE IF EXISTS first
RebuildTable(p) ==
  /\ Statement(p, "createTable")
  /\ table' = TRUE
  /\ index' = FALSE
  /\ entries' = FALSE
  /\ GoTo(p, "createIndex")
  /\ UNCHANGED versions

\* CREATE TABLE without IF NOT EXISTS raises when another process was faster
CreateTable(p) ==
  /\ Statement(p, "createTable")
  /\ table' = TRUE
  /\ GoTo(p, IF table THEN "raised" ELSE "createIndex")
  /\ UNCHANGED <<versions, index, entries>>

CreateIndex(p) ==
  /\ Statement(p, "createIndex")
  /\ index' = (index \/ table)
  /\ GoTo(p, IF table /\ ~index THEN "record" ELSE "raised")
  /\ UNCHANGED <<versions, table, entries>>

\* INSERT INTO schema_migrations: the primary key refuses a second row
RecordVersion(p) ==
  /\ pc[p] = "record"
  /\ writer = None
  /\ IF Recorded
       THEN GoTo(p, "raised") /\ UNCHANGED writer
       ELSE GoTo(p, "commitRecord") /\ writer' = p
  /\ UNCHANGED <<schema, crashes, rolledBack>>

------------------------------------------------------------------------------
(* apply_rollback: IF EXISTS makes both drops succeed in any case; dropping *)
(* a table drops its indexes.                                               *)

DropTable(p) ==
  /\ Statement(p, "dropTable")
  /\ table' = FALSE
  /\ index' = FALSE
  /\ entries' = FALSE
  /\ GoTo(p, "dropIndex")
  /\ UNCHANGED versions

DropIndex(p) ==
  /\ Statement(p, "dropIndex")
  /\ index' = FALSE
  /\ GoTo(p, "forget")
  /\ UNCHANGED <<versions, table, entries>>

ForgetVersion(p) ==
  /\ pc[p] = "forget"
  /\ writer = None
  /\ writer' = p
  /\ GoTo(p, "commitForget")
  /\ UNCHANGED <<schema, crashes, rolledBack>>

------------------------------------------------------------------------------
(* commit, failure, death, and what a ready host does with the table        *)

\* MUTANT of Commit: the version row carries the name of the script
CommitScriptName(p) ==
  /\ writer = p
  /\ writer' = None
  /\ versions' = IF pc[p] = "commitRecord"
                   THEN versions \cup {"001_create_audit_events.up.sql"}
                   ELSE versions \ {Version}
  /\ GoTo(p, IF pc[p] = "commitRecord" THEN "ready" ELSE "removed")
  /\ UNCHANGED <<table, index, entries, crashes, rolledBack>>

Commit(p) ==
  /\ writer = p
  /\ writer' = None
  /\ versions' = IF pc[p] = "commitRecord" THEN versions \cup {Version}
                                           ELSE versions \ {Version}
  /\ GoTo(p, IF pc[p] = "commitRecord" THEN "ready" ELSE "removed")
  /\ UNCHANGED <<table, index, entries, crashes, rolledBack>>

Unlock(p) == writer' = IF writer = p THEN None ELSE writer

\* AuditAdapterError(AUDIT_UNAVAILABLE); the close rolls an open transaction back
Fail(p) ==
  /\ pc[p] \in Working
  /\ GoTo(p, "raised")
  /\ Unlock(p)
  /\ UNCHANGED <<schema, crashes, rolledBack>>

\* MUTANT of TimesOut: a connection without a busy timeout
WaitsForever(p) == FALSE /\ Fail(p)

\* the lock of another process outlasts the busy timeout
TimesOut(p) == writer \notin {None, p} /\ Fail(p)

DiskFails(p) == DiskErrors /\ Fail(p)

Crash(p) ==
  /\ crashes < MaxCrashes
  /\ crashes' = crashes + 1
  /\ GoTo(p, "down")
  /\ Unlock(p)
  /\ UNCHANGED <<schema, rolledBack>>

\* the process ends, or was told to: it can be started again
Stop(p) ==
  /\ pc[p] \in {"ready", "removed", "raised"}
  /\ GoTo(p, "down")
  /\ UNCHANGED <<schema, writer, crashes, rolledBack>>

\* SqliteAuditAdapter.start of a ready host; without the table it raises
WriteEntry(p) ==
  /\ pc[p] = "ready"
  /\ writer = None
  /\ table
  /\ entries' = TRUE
  /\ UNCHANGED <<versions, table, index, writer, pc, crashes, rolledBack>>

MigratorStep(p) ==
  \/ HasVersion(p)
  \/ CreateTable(p) \/ CreateIndex(p) \/ RecordVersion(p)
  \/ DropTable(p) \/ DropIndex(p) \/ ForgetVersion(p)
  \/ Commit(p) \/ TimesOut(p)

Next == \E p \in Procs :
  Start(p) \/ MigratorStep(p) \/ DiskFails(p) \/ Crash(p) \/ Stop(p) \/ WriteEntry(p)

Spec == Init /\ [][Next]_vars

(***************************************************************************)
(* A running process goes on with the migration it started.  Nothing makes *)
(* a disk fail, a process die or an operator act.                          *)
(***************************************************************************)
FairSpec == Spec /\ \A p \in Procs : WF_vars(MigratorStep(p))

------------------------------------------------------------------------------
(***************************************************************************)
(* A host is ready only on a complete schema: racing boots, failures and   *)
(* crashes never let one through while the table or its index is missing.  *)
(* (As long as no operator rolls back.)                                    *)
(***************************************************************************)
ReadyMeansSchema ==
  (~rolledBack /\ \E p \in Procs : pc[p] = "ready") => Recorded /\ table /\ index

(***************************************************************************)
(* An upgrade never costs audit rows, also when it started before the      *)
(* table of another process was filled: only a rollback removes rows.      *)
(***************************************************************************)
UpgradeKeepsEntries ==
  [][(entries /\ ~entries') => \E o \in Operators : pc[o] = "dropTable"]_vars

(***************************************************************************)
(* A migrator that starts ends, whoever holds the lock and however often:  *)
(* the busy timeout ends its wait, not a failing disk.                     *)
(***************************************************************************)
MigrationsEnd ==
  \A p \in Procs : pc[p] \in Working ~> pc[p] \notin Working

(***************************************************************************)
(* The version row and the table appear and disappear together, between    *)
(* two migrations of any process (test_audit_migrations.py asserts both    *)
(* sides after an upgrade and after a rollback).                           *)
(***************************************************************************)
VersionIffTable ==
  (\A p \in Procs : pc[p] \notin Working) => (Recorded <=> table)
=============================================================================

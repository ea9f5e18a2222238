----------------------------- MODULE SqliteAudit -----------------------------
(***************************************************************************)
(* SqliteAuditAdapter (adapters/audit/sqlite_audit_adapter.py): start,     *)
(* finish and recover_stale_started, called by the worker threads of the   *)
(* host processes that share one AUDIT_DB_PATH.                            *)
(*                                                                         *)
(* Every adapter method opens its own connection, so the only thing two    *)
(* methods share is the database file.  A method is split at the points    *)
(* where another connection can get in between: the SELECT of start reads  *)
(* the committed table; the first INSERT or UPDATE takes SQLite's one      *)
(* write lock and works on an image no other connection sees; commit       *)
(* publishes that image and frees the lock; an exception closes the        *)
(* connection, which rolls back.  A connection that finds the lock taken   *)
(* waits, and after the driver's busy timeout fails.                       *)
(***************************************************************************)
EXTENDS Integers

CONSTANTS
  Calls,       \* one use-case execution each: a worker thread with its trace_id
  Recoverers,  \* threads that run recover_stale_started
  CallIds,     \* the primary keys of audit_events
  CallOf,      \* the call_id an execution passes to the audit port
  Hosts,       \* host processes
  HostOf,      \* the process a thread runs in
  None,        \* no thread
  Stale,       \* AUDIT_STALE_STARTED_SECONDS, in clock ticks
  DiskErrors,  \* whether SQLite may fail for reasons other than the lock
  MaxCrashes   \* BOUND: how many times a host process may die

Clients == Calls \cup Recoverers

ASSUME ClientsAssumption ==
  /\ Calls \cap Recoverers = {}
  /\ None \notin Clients
  /\ CallOf \in [Calls -> CallIds]
  /\ HostOf \in [Clients -> Hosts]

ASSUME BoundsAssumption ==
  /\ Stale \in Nat
  /\ MaxCrashes \in Nat
  /\ DiskErrors \in BOOLEAN

VARIABLES
  rows,        \* the committed audit_events: call id -> status, writing execution
  writer,      \* the connection that holds the write lock
  staged,      \* the table as that connection sees it before it commits
  step,        \* where each thread is inside an adapter method
  target,      \* the terminal status an execution asked finish to record
  cut,         \* the executions a recovery's cutoff time is later than
  age,         \* ticks since an execution stamped started_at; Unstamped before
  recoveryOk,  \* _recovery_ok of each host's adapter
  crashes      \* process deaths so far

auditVars == <<rows, writer, staged, step, target, cut, age, recoveryOk, crashes>>

Terminal == {"SUCCEEDED", "REJECTED", "FAILED"}
RowStatus == {"ABSENT", "STARTED"} \cup Terminal

Row == [status : RowStatus, by : Calls \cup {None}]
NoRow == [status |-> "ABSENT", by |-> None]

(***************************************************************************)
(* Steps: inside a method, and what the last method told its caller.       *)
(***************************************************************************)
CommitSteps == {"startCommit", "finishCommit", "recoverCommit"}
BusySteps == {"select", "insert", "update", "sweep"} \cup CommitSteps
Returned == {"started", "finished", "recovered", "failed"}
Steps == {"idle", "dead"} \cup BusySteps \cup Returned

(***************************************************************************)
(* started_at is the created_at of the row, so the age of a row is the age *)
(* of the execution that inserted it.  Ages above Stale are                *)
(* indistinguishable to the code and saturate.                             *)
(***************************************************************************)
Unstamped == -1
Expired == Stale + 1

StatusOf(c) == rows[CallOf[c]].status

AuditTypeOK ==
  /\ rows \in [CallIds -> Row]
  /\ staged \in [CallIds -> Row]
  /\ writer \in Clients \cup {None}
  /\ step \in [Clients -> Steps]
  /\ target \in [Calls -> RowStatus]
  /\ cut \in [Recoverers -> SUBSET Calls]
  /\ age \in [Calls -> Unstamped .. Expired]
  /\ recoveryOk \in [Hosts -> BOOLEAN]
  /\ crashes \in 0 .. MaxCrashes

AuditInit ==
  /\ rows = [i \in CallIds |-> NoRow]
  /\ staged = rows
  /\ writer = None
  /\ step = [c \in Clients |-> "idle"]
  /\ target = [c \in Calls |-> "ABSENT"]
  /\ cut = [r \in Recoverers |-> {}]
  /\ age = [c \in Calls |-> Unstamped]
  /\ recoveryOk = [h \in Hosts |-> FALSE]
  /\ crashes = 0

------------------------------------------------------------------------------
(* The clock and the callers.                                               *)

Tick ==
  /\ \E c \in Calls : age[c] \in 0 .. Stale
  /\ age' = [c \in Calls |-> IF age[c] \in 0 .. Stale THEN age[c] + 1 ELSE age[c]]
  /\ UNCHANGED <<rows, writer, staged, step, target, cut, recoveryOk, crashes>>

\* started_at = clock.now_utc() the first time; audit.start(record)
CallStart(c) ==
  /\ step[c] = "idle"
  /\ age' = [age EXCEPT ![c] = IF age[c] = Unstamped THEN 0 ELSE age[c]]
  /\ step' = [step EXCEPT ![c] = "select"]
  /\ UNCHANGED <<rows, writer, staged, target, cut, recoveryOk, crashes>>

\* audit.finish(record): a status outside _TERMINAL is refused before the database
CallFinish(c, t) ==
  /\ step[c] = "idle"
  /\ target' = [target EXCEPT ![c] = t]
  /\ step' = [step EXCEPT ![c] = IF t \in Terminal THEN "update" ELSE "failed"]
  /\ UNCHANGED <<rows, writer, staged, cut, age, recoveryOk, crashes>>

\* MUTANT of CallRecover: created_at_utc <= cutoff
CallRecoverInclusive(r) ==
  /\ step[r] = "idle"
  /\ cut' = [cut EXCEPT ![r] = {c \in Calls : age[c] >= Stale}]
  /\ step' = [step EXCEPT ![r] = "sweep"]
  /\ UNCHANGED <<rows, writer, staged, target, age, recoveryOk, crashes>>

\* recover_stale_started(now_utc, stale_seconds): the cutoff is fixed on entry
CallRecover(r) ==
  /\ step[r] = "idle"
  /\ cut' = [cut EXCEPT ![r] = {c \in Calls : age[c] > Stale}]
  /\ step' = [step EXCEPT ![r] = "sweep"]
  /\ UNCHANGED <<rows, writer, staged, target, age, recoveryOk, crashes>>

\* the caller reads the outcome; the locals of the method go out of scope
TakeReturn(c) ==
  /\ step[c] \in Returned
  /\ step' = [step EXCEPT ![c] = "idle"]
  /\ target' = [d \in Calls |-> IF d = c THEN "ABSENT" ELSE target[d]]
  /\ cut' = [r \in Recoverers |-> IF r = c THEN {} ELSE cut[r]]
  /\ UNCHANGED <<rows, writer, staged, age, recoveryOk, crashes>>

------------------------------------------------------------------------------
(* start                                                                    *)

SelectExisting(c) ==
  /\ step[c] = "select"
  /\ step' = [step EXCEPT ![c] = IF StatusOf(c) = "ABSENT" THEN "insert" ELSE "started"]
  /\ UNCHANGED <<rows, writer, staged, target, cut, age, recoveryOk, crashes>>

\* MUTANT of InsertStarted: INSERT OR REPLACE
InsertOrReplace(c) ==
  /\ step[c] = "insert"
  /\ writer = None
  /\ writer' = c
  /\ staged' = [rows EXCEPT ![CallOf[c]] = [status |-> "STARTED", by |-> c]]
  /\ step' = [step EXCEPT ![c] = "startCommit"]
  /\ UNCHANGED <<rows, target, cut, age, recoveryOk, crashes>>

\* MUTANT of InsertStarted: no conn.commit(), the close rolls the row back
InsertUncommitted(c) ==
  /\ step[c] = "insert"
  /\ writer = None
  /\ StatusOf(c) = "ABSENT"
  /\ step' = [step EXCEPT ![c] = "started"]
  /\ UNCHANGED <<rows, writer, staged, target, cut, age, recoveryOk, crashes>>

InsertStarted(c) ==
  /\ step[c] = "insert"
  /\ writer = None
  /\ StatusOf(c) = "ABSENT"
  /\ writer' = c
  /\ staged' = [rows EXCEPT ![CallOf[c]] = [status |-> "STARTED", by |-> c]]
  /\ step' = [step EXCEPT ![c] = "startCommit"]
  /\ UNCHANGED <<rows, target, cut, age, recoveryOk, crashes>>

\* IntegrityError: another thread inserted the same id first; rolled back, no error
InsertDuplicate(c) ==
  /\ step[c] = "insert"
  /\ writer = None
  /\ StatusOf(c) # "ABSENT"
  /\ step' = [step EXCEPT ![c] = "started"]
  /\ UNCHANGED <<rows, writer, staged, target, cut, age, recoveryOk, crashes>>

------------------------------------------------------------------------------
(* finish                                                                   *)

\* MUTANT of UpdateStarted: the UPDATE without AND status = 'STARTED'
UpdateAnyStatus(c) ==
  /\ step[c] = "update"
  /\ writer = None
  /\ StatusOf(c) # "ABSENT"
  /\ writer' = c
  /\ staged' = [rows EXCEPT ![CallOf[c]].status = target[c]]
  /\ step' = [step EXCEPT ![c] = "finishCommit"]
  /\ UNCHANGED <<rows, target, cut, age, recoveryOk, crashes>>

UpdateStarted(c) ==
  /\ step[c] = "update"
  /\ writer = None
  /\ StatusOf(c) = "STARTED"
  /\ writer' = c
  /\ staged' = [rows EXCEPT ![CallOf[c]].status = target[c]]
  /\ step' = [step EXCEPT ![c] = "finishCommit"]
  /\ UNCHANGED <<rows, target, cut, age, recoveryOk, crashes>>

\* rowcount # 1: "Audit finish CAS failed", nothing to roll back
UpdateMissed(c) ==
  /\ step[c] = "update"
  /\ writer = None
  /\ StatusOf(c) # "STARTED"
  /\ step' = [step EXCEPT ![c] = "failed"]
  /\ UNCHANGED <<rows, writer, staged, target, cut, age, recoveryOk, crashes>>

------------------------------------------------------------------------------
(* recover_stale_started                                                    *)

IsStale(r, i) == rows[i].status = "STARTED" /\ rows[i].by \in cut[r]

\* MUTANT of SweptImage: a status outside AuditStatus
SweptAsAbandoned(r) ==
  [i \in CallIds |->
     IF IsStale(r, i) THEN [rows[i] EXCEPT !.status = "ABANDONED"] ELSE rows[i]]

SweptImage(r) ==
  [i \in CallIds |->
     IF IsStale(r, i) THEN [rows[i] EXCEPT !.status = "FAILED"] ELSE rows[i]]

\* MUTANT of SweepStale: no conn.commit(), recovery reported as done
SweepUncommitted(r) ==
  /\ step[r] = "sweep"
  /\ writer = None
  /\ step' = [step EXCEPT ![r] = "recovered"]
  /\ recoveryOk' = [recoveryOk EXCEPT ![HostOf[r]] = TRUE]
  /\ UNCHANGED <<rows, writer, staged, target, cut, age, crashes>>

SweepStale(r) ==
  /\ step[r] = "sweep"
  /\ writer = None
  /\ writer' = r
  /\ staged' = SweptImage(r)
  /\ step' = [step EXCEPT ![r] = "recoverCommit"]
  /\ UNCHANGED <<rows, target, cut, age, recoveryOk, crashes>>

------------------------------------------------------------------------------
(* commit, failure, process death                                           *)

AfterCommit(s) == CASE s = "startCommit"   -> "started"
                    [] s = "finishCommit"  -> "finished"
                    [] s = "recoverCommit" -> "recovered"

Commit(c) ==
  /\ step[c] \in CommitSteps
  /\ rows' = staged
  /\ writer' = None
  /\ step' = [step EXCEPT ![c] = AfterCommit(step[c])]
  /\ recoveryOk' = IF c \in Recoverers
                     THEN [recoveryOk EXCEPT ![HostOf[c]] = TRUE]
                     ELSE recoveryOk
  /\ UNCHANGED <<staged, target, cut, age, crashes>>

\* MUTANT of Locked: a connection without a busy timeout waits for ever
NeverTimesOut(c) == FALSE

\* The lock of another connection outlasts the busy timeout, or the disk fails.
Locked(c) == writer \notin {None, c}

Fail(c) ==
  /\ step[c] \in BusySteps
  /\ DiskErrors \/ Locked(c)
  /\ IF writer = c
       THEN writer' = None /\ staged' = rows
       ELSE UNCHANGED <<writer, staged>>
  /\ step' = [step EXCEPT ![c] = "failed"]
  /\ recoveryOk' = IF c \in Recoverers
                     THEN [recoveryOk EXCEPT ![HostOf[c]] = FALSE]
                     ELSE recoveryOk
  /\ UNCHANGED <<rows, target, cut, age, crashes>>

(***************************************************************************)
(* A process dies and is started again.  Its executions are lost; SQLite   *)
(* drops the transaction of a dead writer; the new adapter has not         *)
(* recovered yet.                                                          *)
(***************************************************************************)
Begun(c) == age[c] # Unstamped \/ step[c] # "idle"
In(h) == {c \in Clients : HostOf[c] = h}

Crash(h) ==
  /\ crashes < MaxCrashes
  /\ crashes' = crashes + 1
  /\ step' = [c \in Clients |->
                CASE c \in In(h) /\ c \in Recoverers -> "idle"
                  [] c \in In(h) /\ c \in Calls /\ Begun(c) -> "dead"
                  [] OTHER -> step[c]]
  /\ IF writer \in In(h)
       THEN writer' = None /\ staged' = rows
       ELSE UNCHANGED <<writer, staged>>
  /\ recoveryOk' = [recoveryOk EXCEPT ![h] = FALSE]
  /\ target' = [c \in Calls |-> IF c \in In(h) THEN "ABSENT" ELSE target[c]]
  /\ cut' = [r \in Recoverers |-> IF r \in In(h) THEN {} ELSE cut[r]]
  /\ UNCHANGED <<rows, age>>

------------------------------------------------------------------------------
\* what goes on inside the methods of thread c, once called
MethodStep(c) ==
  \/ c \in Calls /\ SelectExisting(c)
  \/ c \in Calls /\ InsertStarted(c)
  \/ c \in Calls /\ InsertDuplicate(c)
  \/ c \in Calls /\ UpdateStarted(c)
  \/ c \in Calls /\ UpdateMissed(c)
  \/ c \in Recoverers /\ SweepStale(c)
  \/ Commit(c)
  \/ Fail(c)

AuditNext ==
  \/ Tick
  \/ \E c \in Calls : CallStart(c)
  \/ \E c \in Calls, t \in RowStatus \ {"ABSENT"} : CallFinish(c, t)
  \/ \E r \in Recoverers : CallRecover(r)
  \/ \E c \in Clients : TakeReturn(c)
  \/ \E c \in Clients : MethodStep(c)
  \/ \E h \in Hosts : Crash(h)

AuditSpec == AuditInit /\ [][AuditNext]_auditVars

------------------------------------------------------------------------------
Statuses == [i \in CallIds |-> rows[i].status]
Ledger == INSTANCE AuditLedger WITH ledger <- Statuses

(***************************************************************************)
(* The statuses of the table are a ledger: whatever the interleaving of    *)
(* threads, processes and crashes, a call id is opened once, closed once   *)
(* from STARTED, and never rewritten.                                      *)
(***************************************************************************)
ImplementsLedger == Ledger!LedgerSpec

(***************************************************************************)
(* When start returns normally a row for the call id is on disk, also on   *)
(* the two silent paths: a row that SELECT saw and a lost INSERT race.     *)
(***************************************************************************)
StartedIsDurable ==
  \A c \in Calls : step[c] = "started" => StatusOf(c) # "ABSENT"

(***************************************************************************)
(* When finish returns normally the row carries the status it asked for:   *)
(* no concurrent finish, recovery or crash can have taken it back.         *)
(***************************************************************************)
FinishedIsDurable ==
  \A c \in Calls : step[c] = "finished" => StatusOf(c) = target[c]

(***************************************************************************)
(* Recovery fails only rows whose call began more than Stale ago, however  *)
(* long the recovery itself waited for the lock.                           *)
(***************************************************************************)
FreshRowsSurvive ==
  [][\A i \in CallIds :
       (writer \in Recoverers /\ rows[i].status = "STARTED" /\ rows'[i] # rows[i])
         => age[rows[i].by] > Stale]_auditVars
=============================================================================

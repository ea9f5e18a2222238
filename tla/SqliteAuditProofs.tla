-------------------------- MODULE SqliteAuditProofs --------------------------
(***************************************************************************)
(* Proofs about SqliteAudit for any number of hosts, threads, call ids and *)
(* crashes: type correctness, the inductive invariant of the write lock,   *)
(* what can happen to a row, and the implementation of AuditLedger.        *)
(***************************************************************************)
EXTENDS SqliteAudit, TLAPS

(***************************************************************************)
(* The inductive invariant.  The write lock is held exactly by the thread  *)
(* that has a statement to commit, and while it is held the committed      *)
(* table does not move, so that the staged image is still one insertion,   *)
(* one compare-and-set or one sweep away from it when it is published.     *)
(***************************************************************************)
LockInv ==
  /\ \A c \in Clients : writer = c <=> step[c] \in CommitSteps
  /\ writer = None => staged = rows

MethodInv ==
  /\ \A c \in Calls : step[c] \notin {"sweep", "recoverCommit", "recovered"}
  /\ \A r \in Recoverers : step[r] \in {"idle", "sweep", "recoverCommit", "recovered", "failed"}
  /\ \A c \in Calls :
       step[c] \in {"update", "finishCommit", "finished"} => target[c] \in Terminal

StagedInv ==
  /\ \A c \in Calls :
       step[c] = "startCommit" =>
         /\ StatusOf(c) = "ABSENT"
         /\ staged = [rows EXCEPT ![CallOf[c]] = [status |-> "STARTED", by |-> c]]
  /\ \A c \in Calls :
       step[c] = "finishCommit" =>
         /\ StatusOf(c) = "STARTED"
         /\ staged = [rows EXCEPT ![CallOf[c]].status = target[c]]
  /\ \A r \in Recoverers :
       step[r] = "recoverCommit" => staged = SweptImage(r)

CutInv == \A r \in Recoverers : \A c \in cut[r] : age[c] > Stale

AuditInv ==
  /\ AuditTypeOK
  /\ LockInv
  /\ MethodInv
  /\ StagedInv
  /\ CutInv
  /\ StartedIsDurable
  /\ FinishedIsDurable

------------------------------------------------------------------------------
(***************************************************************************)
(* What changing the status column does to a row.                          *)
(***************************************************************************)
LEMMA ChangedRow ==
  ASSUME NEW r \in Row, NEW s \in RowStatus
  PROVE  /\ [r EXCEPT !.status = s] \in Row
         /\ [r EXCEPT !.status = s].status = s
         /\ [r EXCEPT !.status = s].by = r.by
  BY DEF Row

(***************************************************************************)
(* The image a recovery stages is a table again.                           *)
(***************************************************************************)
LEMMA SweptTable ==
  ASSUME AuditTypeOK, NEW r
  PROVE  SweptImage(r) \in [CallIds -> Row]
<1>1. ASSUME NEW i \in CallIds PROVE [rows[i] EXCEPT !.status = "FAILED"] \in Row
  <2>1. rows[i] \in Row /\ "FAILED" \in RowStatus
    BY DEF AuditTypeOK, RowStatus, Terminal
  <2>2. QED
    BY <2>1, ChangedRow
<1>2. ASSUME NEW i \in CallIds PROVE rows[i] \in Row
  BY DEF AuditTypeOK
<1>3. QED
  BY <1>1, <1>2 DEF SweptImage

------------------------------------------------------------------------------
(***************************************************************************)
(* Every variable keeps its type.                                          *)
(***************************************************************************)
LEMMA AuditInitType == AuditInit => AuditTypeOK
  BY ClientsAssumption, BoundsAssumption
  DEF AuditInit, AuditTypeOK, Row, NoRow, RowStatus, Terminal, Steps, Unstamped, Expired, Clients

(***************************************************************************)
(* Every step of every method, the clock and the death of a process keep   *)
(* the state well formed.                                                  *)
(***************************************************************************)
LEMMA AuditNextType == AuditTypeOK /\ [AuditNext]_auditVars => AuditTypeOK'
<1> SUFFICES ASSUME AuditTypeOK, [AuditNext]_auditVars
             PROVE  AuditTypeOK'
  OBVIOUS
<1> USE ClientsAssumption, BoundsAssumption
    DEF AuditTypeOK, Row, RowStatus, Terminal, Steps, BusySteps, CommitSteps, Returned,
        Unstamped, Expired, Clients
<1>1. CASE Tick
  BY <1>1 DEF Tick
<1>2. ASSUME NEW c \in Calls, CallStart(c) PROVE AuditTypeOK'
  BY <1>2 DEF CallStart
<1>3. ASSUME NEW c \in Calls, NEW t \in RowStatus \ {"ABSENT"}, CallFinish(c, t)
      PROVE  AuditTypeOK'
  BY <1>3 DEF CallFinish
<1>4. ASSUME NEW r \in Recoverers, CallRecover(r) PROVE AuditTypeOK'
  BY <1>4 DEF CallRecover
<1>5. ASSUME NEW c \in Clients, TakeReturn(c) PROVE AuditTypeOK'
  BY <1>5 DEF TakeReturn
<1>6. ASSUME NEW c \in Clients, MethodStep(c) PROVE AuditTypeOK'
  <2>1. CASE c \in Calls /\ SelectExisting(c)
    BY <2>1 DEF SelectExisting
  <2>2. CASE c \in Calls /\ InsertStarted(c)
    BY <2>2 DEF InsertStarted
  <2>3. CASE c \in Calls /\ InsertDuplicate(c)
    BY <2>3 DEF InsertDuplicate
  <2>4. CASE c \in Calls /\ UpdateStarted(c)
    BY <2>4 DEF UpdateStarted
  <2>5. CASE c \in Calls /\ UpdateMissed(c)
    BY <2>5 DEF UpdateMissed
  <2>6. CASE c \in Recoverers /\ SweepStale(c)
    <3>1. staged' \in [CallIds -> Row]
      BY <2>6, SweptTable DEF SweepStale, SweptImage
    <3>2. QED
      BY <2>6, <3>1 DEF SweepStale
  <2>7. CASE Commit(c)
    BY <2>7 DEF Commit, AfterCommit
  <2>8. CASE Fail(c)
    BY <2>8 DEF Fail
  <2>9. QED
    BY <1>6, <2>1, <2>2, <2>3, <2>4, <2>5, <2>6, <2>7, <2>8 DEF MethodStep
<1>7. ASSUME NEW h \in Hosts, Crash(h) PROVE AuditTypeOK'
  BY <1>7 DEF Crash, In
<1>8. CASE UNCHANGED auditVars
  BY <1>8 DEF auditVars
<1>9. QED
  BY <1>1, <1>2, <1>3, <1>4, <1>5, <1>6, <1>7, <1>8 DEF AuditNext

(***************************************************************************)
(* The adapter's state is always well formed.                              *)
(***************************************************************************)
THEOREM AuditTypeCorrect == AuditSpec => []AuditTypeOK
<1>1. AuditInit => AuditTypeOK
  BY AuditInitType
<1>2. AuditTypeOK /\ [AuditNext]_auditVars => AuditTypeOK'
  BY AuditNextType
<1>3. QED
  BY <1>1, <1>2, PTL DEF AuditSpec

------------------------------------------------------------------------------
(***************************************************************************)
(* The invariant holds initially and every step keeps it.                  *)
(***************************************************************************)
LEMMA AuditInitInv == AuditInit => AuditInv
<1> SUFFICES ASSUME AuditInit PROVE AuditInv
  OBVIOUS
<1>1. AuditTypeOK
  BY AuditInitType
<1>2. LockInv /\ MethodInv /\ StagedInv /\ CutInv /\ StartedIsDurable /\ FinishedIsDurable
  BY ClientsAssumption
  DEF AuditInit, LockInv, MethodInv, StagedInv, CutInv, StartedIsDurable, FinishedIsDurable,
      CommitSteps, Clients
<1>3. QED
  BY <1>1, <1>2 DEF AuditInv

(***************************************************************************)
(* A commit publishes one insertion, one compare-and-set or one sweep.     *)
(***************************************************************************)
LEMMA CommitMoves ==
  ASSUME AuditInv, NEW c \in Clients, Commit(c)
  PROVE  \/ /\ c \in Calls
            /\ step[c] = "startCommit"
            /\ StatusOf(c) = "ABSENT"
            /\ rows' = [rows EXCEPT ![CallOf[c]] = [status |-> "STARTED", by |-> c]]
         \/ /\ c \in Calls
            /\ step[c] = "finishCommit"
            /\ StatusOf(c) = "STARTED"
            /\ target[c] \in Terminal
            /\ rows' = [rows EXCEPT ![CallOf[c]].status = target[c]]
         \/ /\ c \in Recoverers
            /\ step[c] = "recoverCommit"
            /\ rows' = SweptImage(c)
<1>1. CASE c \in Calls
  BY <1>1 DEF Commit, AuditInv, MethodInv, StagedInv, CommitSteps
<1>2. CASE c \in Recoverers
  BY <1>2 DEF Commit, AuditInv, MethodInv, StagedInv, CommitSteps
<1>3. QED
  BY <1>1, <1>2 DEF Clients

(***************************************************************************)
(* What that does to the status of every call id: it opens from ABSENT or  *)
(* closes from STARTED, and only the committing thread's own id may do so  *)
(* when the thread runs a call.                                            *)
(***************************************************************************)
LEMMA CommitStatuses ==
  ASSUME AuditInv, NEW c \in Clients, Commit(c), NEW i \in CallIds
  PROVE  /\ \/ rows'[i] = rows[i]
            \/ rows[i].status = "ABSENT" /\ rows'[i].status = "STARTED"
            \/ rows[i].status = "STARTED" /\ rows'[i].status \in Terminal
         /\ (c \in Calls /\ rows'[i] # rows[i]) => i = CallOf[c]
         /\ (c \in Calls /\ i = CallOf[c]) =>
              rows'[i].status = IF step[c] = "startCommit" THEN "STARTED" ELSE target[c]
<1> USE ClientsAssumption DEF AuditInv, AuditTypeOK, StatusOf
<1>1. rows[i] \in Row
  OBVIOUS
<1>2. CASE c \in Calls /\ step[c] = "startCommit"
  <2>1. /\ StatusOf(c) = "ABSENT"
        /\ rows' = [rows EXCEPT ![CallOf[c]] = [status |-> "STARTED", by |-> c]]
    BY <1>2, CommitMoves
  <2>2. i = CallOf[c] => rows'[i].status = "STARTED"
    BY <2>1
  <2>3. i # CallOf[c] => rows'[i] = rows[i]
    BY <2>1
  <2>4. QED
    BY <1>2, <2>1, <2>2, <2>3
<1>3. CASE c \in Calls /\ step[c] = "finishCommit"
  <2>1. /\ StatusOf(c) = "STARTED"
        /\ target[c] \in Terminal
        /\ rows' = [rows EXCEPT ![CallOf[c]].status = target[c]]
    BY <1>3, CommitMoves
  <2>2. target[c] \in RowStatus
    BY <1>3
  <2>3. i = CallOf[c] => rows'[i].status = target[c]
    BY <1>1, <2>1, <2>2, ChangedRow
  <2>4. i # CallOf[c] => rows'[i] = rows[i]
    BY <2>1
  <2>5. QED
    BY <1>3, <2>1, <2>3, <2>4
<1>4. CASE c \in Recoverers
  <2>1. rows' = SweptImage(c)
    BY <1>4, CommitMoves DEF Clients
  <2>2. IsStale(c, i) => rows'[i] = [rows[i] EXCEPT !.status = "FAILED"]
    BY <2>1 DEF SweptImage
  <2>3. ~IsStale(c, i) => rows'[i] = rows[i]
    BY <2>1 DEF SweptImage
  <2>4. [rows[i] EXCEPT !.status = "FAILED"].status = "FAILED"
    BY <1>1, ChangedRow DEF RowStatus, Terminal
  <2>5. QED
    BY <1>4, <2>2, <2>3, <2>4 DEF IsStale, Terminal
<1>5. c \in Recoverers \/ (c \in Calls /\ step[c] \in {"startCommit", "finishCommit"})
  BY CommitMoves
<1>6. QED
  BY <1>2, <1>3, <1>4, <1>5

(***************************************************************************)
(* AuditInv, the type invariant with what holds between staged, rows,      *)
(* writer and step while a method runs, is inductive.                      *)
(***************************************************************************)
LEMMA AuditNextInv == AuditInv /\ [AuditNext]_auditVars => AuditInv'
<1> SUFFICES ASSUME AuditInv, [AuditNext]_auditVars
             PROVE  AuditInv'
  OBVIOUS
<1> DEFINE Rest == /\ LockInv /\ MethodInv /\ StagedInv /\ CutInv
                   /\ StartedIsDurable /\ FinishedIsDurable
<1> AuditTypeOK'
  BY AuditNextType DEF AuditInv
<1> SUFFICES Rest'
  BY DEF AuditInv
<1> USE ClientsAssumption, BoundsAssumption
    DEF AuditInv, LockInv, MethodInv, StagedInv, CutInv, StartedIsDurable, FinishedIsDurable,
        StatusOf, CommitSteps, Clients
<1>1. CASE Tick
  <2>1. CutInv'
    BY <1>1 DEF Tick, AuditTypeOK, Unstamped, Expired
  <2>2. QED
    BY <1>1, <2>1 DEF Tick, SweptImage, IsStale
<1>2. ASSUME NEW c \in Calls, CallStart(c) PROVE Rest'
  BY <1>2 DEF CallStart, AuditTypeOK, SweptImage, IsStale, Unstamped
<1>3. ASSUME NEW c \in Calls, NEW t \in RowStatus \ {"ABSENT"}, CallFinish(c, t)
      PROVE  Rest'
  BY <1>3 DEF CallFinish, AuditTypeOK, SweptImage, IsStale
<1>4. ASSUME NEW r \in Recoverers, CallRecover(r) PROVE Rest'
  BY <1>4 DEF CallRecover, AuditTypeOK, SweptImage, IsStale
<1>5. ASSUME NEW c \in Clients, TakeReturn(c) PROVE Rest'
  BY <1>5 DEF TakeReturn, Returned, AuditTypeOK, SweptImage, IsStale
<1>6. ASSUME NEW c \in Clients, MethodStep(c) PROVE Rest'
  <2>1. CASE c \in Calls /\ SelectExisting(c)
    BY <2>1 DEF SelectExisting, AuditTypeOK, SweptImage, IsStale
  <2>2. CASE c \in Calls /\ InsertStarted(c)
    BY <2>2 DEF InsertStarted, AuditTypeOK, SweptImage, IsStale
  <2>3. CASE c \in Calls /\ InsertDuplicate(c)
    BY <2>3 DEF InsertDuplicate, AuditTypeOK, SweptImage, IsStale
  <2>4. CASE c \in Calls /\ UpdateStarted(c)
    <3>1. LockInv'
      BY <2>4 DEF UpdateStarted, AuditTypeOK
    <3>2. MethodInv' /\ CutInv'
      BY <2>4 DEF UpdateStarted, AuditTypeOK
    <3>3. StagedInv'
      BY <2>4 DEF UpdateStarted, AuditTypeOK
    <3>4. StartedIsDurable' /\ FinishedIsDurable'
      BY <2>4 DEF UpdateStarted, AuditTypeOK
    <3>5. QED
      BY <3>1, <3>2, <3>3, <3>4
  <2>5. CASE c \in Calls /\ UpdateMissed(c)
    BY <2>5 DEF UpdateMissed, AuditTypeOK, SweptImage, IsStale
  <2>6. CASE c \in Recoverers /\ SweepStale(c)
    BY <2>6 DEF SweepStale, AuditTypeOK, SweptImage, IsStale
  <2>7. CASE Commit(c)
    <3>1. /\ writer = c
          /\ \A d \in Clients : d # c => step[d] \notin CommitSteps
      BY <2>7 DEF Commit
    <3>2. /\ step' = [step EXCEPT ![c] = AfterCommit(step[c])]
          /\ AfterCommit(step[c]) \in {"started", "finished", "recovered"}
          /\ AfterCommit(step[c]) = "started" <=> step[c] = "startCommit"
          /\ AfterCommit(step[c]) = "finished" <=> step[c] = "finishCommit"
          /\ AfterCommit(step[c]) = "recovered" <=> step[c] = "recoverCommit"
          /\ writer' = None /\ staged' = rows' /\ target' = target /\ cut' = cut /\ age' = age
      BY <2>7 DEF Commit, AfterCommit
    <3>3. step \in [Clients -> Steps]
      BY DEF AuditTypeOK
    <3>4. LockInv' /\ StagedInv' /\ CutInv'
      BY <3>1, <3>2, <3>3
    <3>5. MethodInv'
      BY <3>2, <3>3
    <3>6. ASSUME NEW d \in Calls, step'[d] = "started" PROVE StatusOf(d)' # "ABSENT"
      BY <2>7, <3>2, <3>3, <3>6, CommitStatuses DEF Terminal
    <3>7. ASSUME NEW d \in Calls, step'[d] = "finished" PROVE StatusOf(d)' = target'[d]
      <4>1. CASE d = c
        BY <2>7, <3>2, <3>3, <3>7, <4>1, CommitStatuses
      <4>2. CASE d # c
        <5>1. StatusOf(d) = target[d] /\ target[d] \in Terminal
          BY <3>2, <3>3, <3>7, <4>2
        <5>2. QED
          BY <2>7, <3>2, <5>1, CommitStatuses DEF Terminal
      <4>3. QED
        BY <4>1, <4>2
    <3>8. QED
      BY <3>4, <3>5, <3>6, <3>7
  <2>8. CASE Fail(c)
    BY <2>8 DEF Fail, BusySteps, AuditTypeOK, SweptImage, IsStale
  <2>9. QED
    BY <1>6, <2>1, <2>2, <2>3, <2>4, <2>5, <2>6, <2>7, <2>8 DEF MethodStep
<1>7. ASSUME NEW h \in Hosts, Crash(h) PROVE Rest'
  <2> DEFINE lost(c) == HostOf[c] = h /\ (c \in Recoverers \/ Begun(c))
  <2>1. \A c \in Recoverers : step'[c] = IF lost(c) THEN "idle" ELSE step[c]
    BY <1>7 DEF Crash, In
  <2>2. \A c \in Calls : step'[c] = IF lost(c) THEN "dead" ELSE step[c]
    BY <1>7 DEF Crash, In
  <2>3. \A c \in Calls : target'[c] = IF HostOf[c] = h THEN "ABSENT" ELSE target[c]
    BY <1>7 DEF Crash, In
  <2>4. \A c \in Recoverers : cut'[c] = IF HostOf[c] = h THEN {} ELSE cut[c]
    BY <1>7 DEF Crash, In
  <2>5. rows' = rows /\ age' = age
    BY <1>7 DEF Crash
  <2>6. /\ writer \in In(h) => writer' = None /\ staged' = rows
        /\ writer \notin In(h) => writer' = writer /\ staged' = staged
    BY <1>7 DEF Crash
  <2>7. \A c \in Clients : step[c] # "idle" /\ HostOf[c] = h => lost(c)
    BY DEF Begun
  <2>8. LockInv'
    BY <2>1, <2>2, <2>5, <2>6, <2>7 DEF In
  <2>9. MethodInv' /\ CutInv'
    BY <2>1, <2>2, <2>3, <2>4, <2>5, <2>7
  <2>10. StagedInv'
    BY <2>1, <2>2, <2>3, <2>4, <2>5, <2>6, <2>7 DEF In, SweptImage, IsStale
  <2>11. StartedIsDurable' /\ FinishedIsDurable'
    BY <2>2, <2>3, <2>5, <2>7
  <2>12. QED
    BY <2>8, <2>9, <2>10, <2>11
<1>8. CASE UNCHANGED auditVars
  BY <1>8 DEF auditVars, SweptImage, IsStale
<1>9. QED
  BY <1>1, <1>2, <1>3, <1>4, <1>5, <1>6, <1>7, <1>8 DEF AuditNext

(***************************************************************************)
(* What the adapter relies on between its steps holds throughout, for      *)
(* every number of threads, processes and call ids.                        *)
(***************************************************************************)
THEOREM AuditInvariant == AuditSpec => []AuditInv
<1>1. AuditInit => AuditInv
  BY AuditInitInv
<1>2. AuditInv /\ [AuditNext]_auditVars => AuditInv'
  BY AuditNextInv
<1>3. QED
  BY <1>1, <1>2, PTL DEF AuditSpec

(***************************************************************************)
(* When start returns normally a row for its call id is on disk: one it    *)
(* inserted, one its SELECT saw, or the row it lost the INSERT race to.    *)
(***************************************************************************)
THEOREM StartIsDurable == AuditSpec => []StartedIsDurable
<1>1. AuditInv => StartedIsDurable
  BY DEF AuditInv
<1>2. QED
  BY <1>1, AuditInvariant, PTL

(***************************************************************************)
(* When finish returns normally the row has the status it was asked for,   *)
(* and keeps it until the caller has read that.                            *)
(***************************************************************************)
THEOREM FinishIsDurable == AuditSpec => []FinishedIsDurable
<1>1. AuditInv => FinishedIsDurable
  BY DEF AuditInv
<1>2. QED
  BY <1>1, AuditInvariant, PTL

------------------------------------------------------------------------------
(***************************************************************************)
(* Only a commit changes the committed table.                              *)
(***************************************************************************)
LEMMA OnlyCommitWrites ==
  ASSUME [AuditNext]_auditVars, rows' # rows
  PROVE  \E c \in Clients : Commit(c)
BY DEF AuditNext, auditVars, Tick, CallStart, CallFinish, CallRecover, TakeReturn, MethodStep,
       SelectExisting, InsertStarted, InsertDuplicate, UpdateStarted, UpdateMissed, SweepStale,
       Fail, Crash

(***************************************************************************)
(* What a step of any thread can do to the row of any call id: nothing,    *)
(* open it, or close it while it is open.                                  *)
(***************************************************************************)
LEMMA RowMoves ==
  ASSUME AuditInv, [AuditNext]_auditVars, NEW i \in CallIds
  PROVE  \/ rows'[i] = rows[i]
         \/ rows[i].status = "ABSENT" /\ rows'[i].status = "STARTED"
         \/ rows[i].status = "STARTED" /\ rows'[i].status \in Terminal
BY OnlyCommitWrites, CommitStatuses

(***************************************************************************)
(* A closed row keeps its status, and no row is closed that was not open:  *)
(* what AuditLedger says of a ledger, of the rows of audit_events.         *)
(***************************************************************************)
THEOREM RowsCloseOnce == AuditSpec => Ledger!ClosedOnce
<1> DEFINE A == \A i \in CallIds :
       /\ Statuses[i] \in Ledger!Terminal => Statuses'[i] = Statuses[i]
       /\ Statuses[i] = "ABSENT" => Statuses'[i] \in {"ABSENT", "STARTED"}
       /\ Statuses[i] = "STARTED" => Statuses'[i] # "ABSENT"
<1>1. AuditInv /\ [AuditNext]_auditVars => [A]_Statuses
  <2> SUFFICES ASSUME AuditInv, [AuditNext]_auditVars PROVE A
    OBVIOUS
  <2>1. QED
    BY RowMoves DEF Statuses, Terminal, Ledger!Terminal
<1>2. QED
  BY <1>1, AuditInvariant, PTL DEF AuditSpec, Ledger!ClosedOnce

(***************************************************************************)
(* A recovery that commits changes only rows whose call is stale.          *)
(***************************************************************************)
THEOREM FreshRowsSurviveRecovery == AuditSpec => FreshRowsSurvive
<1> DEFINE A == \A i \in CallIds :
       (writer \in Recoverers /\ rows[i].status = "STARTED" /\ rows'[i] # rows[i])
         => age[rows[i].by] > Stale
<1>1. AuditInv /\ [AuditNext]_auditVars => [A]_auditVars
  <2> SUFFICES ASSUME AuditInv, [AuditNext]_auditVars, NEW i \in CallIds,
                      writer \in Recoverers, rows'[i] # rows[i]
               PROVE  age[rows[i].by] > Stale
    OBVIOUS
  <2>1. PICK c \in Clients : Commit(c)
    BY OnlyCommitWrites
  <2>2. c = writer
    BY <2>1, ClientsAssumption DEF Commit, AuditInv, LockInv
  <2>3. rows' = SweptImage(c)
    BY <2>1, <2>2, CommitMoves, ClientsAssumption
  <2>4. rows[i].by \in cut[c]
    BY <2>3 DEF SweptImage, IsStale
  <2>5. QED
    BY <2>2, <2>4 DEF AuditInv, CutInv
<1>2. QED
  BY <1>1, AuditInvariant, PTL DEF AuditSpec, FreshRowsSurvive

(***************************************************************************)
(* The table implements the ledger: each commit opens an entry, closes an  *)
(* open one, or fails a set of open ones; every other step stutters.       *)
(***************************************************************************)
LEMMA ReapIsAStep ==
  ASSUME NEW S \in SUBSET CallIds, Ledger!Reap(S)
  PROVE  Ledger!LedgerNext
BY DEF Ledger!LedgerNext

(***************************************************************************)
(* A commit is one step of the abstract ledger: an Open, a Close or the    *)
(* Reap of the rows a recovery found stale.                                *)
(***************************************************************************)
LEMMA CommitRefines ==
  ASSUME AuditInv, NEW c \in Clients, Commit(c)
  PROVE  Ledger!LedgerNext
<1> USE ClientsAssumption DEF Statuses
<1>2. \A i \in CallIds : rows[i] \in Row
  BY DEF AuditInv, AuditTypeOK
<1>3. CASE c \in Calls /\ step[c] = "startCommit"
  <2>1. Statuses[CallOf[c]] = "ABSENT"
    BY <1>3, CommitMoves DEF StatusOf
  <2>2. \A i \in CallIds : i # CallOf[c] => rows'[i] = rows[i]
    BY <1>3, CommitStatuses
  <2>3. rows'[CallOf[c]].status = "STARTED"
    BY <1>3, CommitStatuses
  <2>4. Statuses' = [Statuses EXCEPT ![CallOf[c]] = "STARTED"]
    BY <2>2, <2>3
  <2>5. QED
    BY <1>3, <2>1, <2>4 DEF Ledger!LedgerNext, Ledger!Open
<1>4. CASE c \in Calls /\ step[c] = "finishCommit"
  <2>1. Statuses[CallOf[c]] = "STARTED" /\ target[c] \in Ledger!Terminal
    BY <1>4, CommitMoves DEF StatusOf, Terminal, Ledger!Terminal
  <2>2. \A i \in CallIds : i # CallOf[c] => rows'[i] = rows[i]
    BY <1>4, CommitStatuses
  <2>3. rows'[CallOf[c]].status = target[c]
    BY <1>4, CommitStatuses
  <2>4. Statuses' = [Statuses EXCEPT ![CallOf[c]] = target[c]]
    BY <2>2, <2>3
  <2>5. QED
    BY <1>4, <2>1, <2>4 DEF Ledger!LedgerNext, Ledger!Close
<1>5. CASE c \in Recoverers
  <2> DEFINE S == {i \in CallIds : IsStale(c, i)}
  <2>1. rows' = SweptImage(c)
    BY <1>5, CommitMoves
  <2>2. \A i \in S : Statuses[i] = "STARTED"
    BY DEF IsStale
  <2>3. \A i \in CallIds : rows'[i].status = IF i \in S THEN "FAILED" ELSE Statuses[i]
    <3>1. ASSUME NEW i \in CallIds, IsStale(c, i) PROVE rows'[i].status = "FAILED"
      <4>1. rows'[i] = [rows[i] EXCEPT !.status = "FAILED"]
        BY <2>1, <3>1 DEF SweptImage
      <4>2. QED
        BY <1>2, <4>1, ChangedRow DEF RowStatus, Terminal
    <3>2. ASSUME NEW i \in CallIds, ~IsStale(c, i) PROVE rows'[i] = rows[i]
      BY <2>1, <3>2 DEF SweptImage
    <3>3. QED
      BY <3>1, <3>2
  <2>4. Statuses' = [i \in CallIds |-> IF i \in S THEN "FAILED" ELSE Statuses[i]]
    BY <2>3
  <2> HIDE DEF S, Statuses
  <2>5. Ledger!Reap(S)
    BY <2>2, <2>4 DEF Ledger!Reap
  <2>6. S \in SUBSET CallIds
    BY DEF S
  <2>7. QED
    BY <2>5, <2>6, ReapIsAStep
<1>6. c \in Recoverers \/ (c \in Calls /\ step[c] \in {"startCommit", "finishCommit"})
  BY CommitMoves
<1>7. QED
  BY <1>3, <1>4, <1>5, <1>6

(***************************************************************************)
(* The statuses in audit_events behave as AuditLedger: start, finish and   *)
(* recover_stale_started, however interleaved and whatever fails, open a   *)
(* call id once and close it once.                                         *)
(***************************************************************************)
THEOREM SqliteImplementsLedger == AuditSpec => ImplementsLedger
<1>1. AuditInit => Ledger!LedgerInit
  BY DEF AuditInit, Ledger!LedgerInit, Statuses, NoRow
<1>2. AuditInv /\ [AuditNext]_auditVars => [Ledger!LedgerNext]_Statuses
  <2> SUFFICES ASSUME AuditInv, [AuditNext]_auditVars, Statuses' # Statuses
               PROVE  Ledger!LedgerNext
    OBVIOUS
  <2>1. rows' # rows
    BY DEF Statuses
  <2>2. QED
    BY <2>1, OnlyCommitWrites, CommitRefines
<1>3. QED
  BY <1>1, <1>2, AuditInvariant, PTL DEF AuditSpec, ImplementsLedger, Ledger!LedgerSpec
=============================================================================

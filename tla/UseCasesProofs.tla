---------------------------- MODULE UseCasesProofs ----------------------------
(***************************************************************************)
(* Proofs about UseCases for any number of executions, recoveries, hosts,  *)
(* call ids and crashes, and any spread of the three use cases: what the   *)
(* envelope a caller holds, the row on disk, the span and the metric say   *)
(* of each other.  They stand on AuditInv, the invariant of the adapter.   *)
(***************************************************************************)
EXTENDS UseCases, SqliteAuditProofs, FiniteSetTheorems

(***************************************************************************)
(* Where an execution is says which adapter method it can be inside of,    *)
(* and with which status it called finish.                                 *)
(***************************************************************************)
PlaceInv ==
  \A c \in Calls :
    /\ pc[c] \in {"new"} \cup Ports \cup Emitting => step[c] = "idle"
    /\ pc[c] = "open" => step[c] \in {"select", "insert", "startCommit", "started", "failed"}
    /\ pc[c] \in Closing => step[c] \in {"update", "finishCommit", "finished", "failed"}
    /\ pc[c] = "done" => step[c] \in {"idle", "dead"}
    /\ pc[c] = "gone" => step[c] = "dead"
    /\ age[c] # Unstamped => pc[c] # "new"
    /\ pc[c] \in Running \cup {"gone"} => age[c] # Unstamped
    /\ answer[c] # "none" <=> pc[c] = "done"

TargetInv ==
  \A c \in Calls :
    target[c] = IF pc[c] = "succeed" THEN "SUCCEEDED"
                ELSE IF pc[c] = "reject" THEN "REJECTED" ELSE "ABSENT"

(***************************************************************************)
(* Executions whose finish went through: their compare-and-set closed the  *)
(* row, so that for each call id there is at most one.                     *)
(***************************************************************************)
Won(c) ==
  \/ step[c] = "finished"
  \/ pc[c] \in Emitting
  \/ answer[c] \in {"ok", "rejected"}
  \/ counted[c] # "none"

OneWinner ==
  \A c, d \in Calls : (c # d /\ CallOf[c] = CallOf[d]) => ~(Won(c) /\ Won(d))

OutcomeInv ==
  \A c \in Calls :
    /\ pc[c] = "emitSucceeded" \/ answer[c] = "ok" => StatusOf(c) = "SUCCEEDED"
    /\ pc[c] = "emitRejected" \/ answer[c] = "rejected" => StatusOf(c) = "REJECTED"
    /\ counted[c] # "none" => StatusOf(c) = counted[c]

(***************************************************************************)
(* The other way round, of a call id that only one execution uses: a row   *)
(* closed by a call is the row of an execution that won, and may have died *)
(* or been left by an exception since.                                     *)
(***************************************************************************)
SoleInv ==
  \A c \in Calls :
    (Sole(c) /\ StatusOf(c) \in {"SUCCEEDED", "REJECTED"})
      => Won(c) \/ pc[c] = "gone" \/ answer[c] = "raised"

FailedRowInv ==
  \A i \in CallIds :
    rows[i].status = "FAILED" => rows[i].by \in Calls /\ age[rows[i].by] > Stale

\* every row was inserted for an execution
OwnedRowInv ==
  \A i \in CallIds : rows[i].status # "ABSENT" => \E c \in Calls : CallOf[c] = i

\* only a query that has ended was counted
CountedInv ==
  \A c \in Calls : counted[c] # "none" => answer[c] \in {"ok", "rejected", "raised"}

BaseInv == TypeOK /\ AuditInv /\ PlaceInv /\ TargetInv

CallInv ==
  /\ BaseInv
  /\ NoPortBeforeAudit
  /\ OutcomeInv
  /\ OneWinner
  /\ SoleInv
  /\ FailedRowInv
  /\ OwnedRowInv
  /\ CountedInv
  /\ AnsweredQueriesEndTheirSpan

------------------------------------------------------------------------------
(***************************************************************************)
(* Every step of a use case is a step of the audit store or leaves it      *)
(* alone, so that what is proved of the adapter holds under it.            *)
(***************************************************************************)
LEMMA StoreSteps == [Next]_vars => [AuditNext]_auditVars
<1> SUFFICES ASSUME Next, auditVars' # auditVars PROVE AuditNext
  BY DEF vars
<1> USE DEF Clients, AuditNext
<1>1. ASSUME NEW c \in Calls, Begin(c) PROVE AuditNext
  BY <1>1 DEF Begin
<1>2. ASSUME NEW c \in Calls, CallStep(c) PROVE AuditNext
  <2>1. "SUCCEEDED" \in RowStatus \ {"ABSENT"} /\ "REJECTED" \in RowStatus \ {"ABSENT"}
    BY DEF RowStatus, Terminal
  <2>2. TakeReturn(c) \/ CallFinish(c, "SUCCEEDED") \/ CallFinish(c, "REJECTED")
    BY <1>2 DEF CallStep, StartReturned, ListPolicies, GetFieldSnapshot, ValidateRequest,
                ExecuteQuery, FinishReturned, EmitTelemetry, EmitRaises, Succeed, Reject, Raise
  <2>3. QED
    BY <2>1, <2>2
<1>3. ASSUME NEW r \in Recoverers, RecoveryStep(r) PROVE AuditNext
  BY <1>3 DEF RecoveryStep
<1>4. ASSUME NEW h \in Hosts, CrashHost(h) PROVE AuditNext
  BY <1>4 DEF CrashHost
<1>5. ASSUME NEW c \in Calls, SpanRaises(c) PROVE FALSE
  BY <1>5 DEF SpanRaises, Raise
<1>6. QED
  BY <1>1, <1>2, <1>3, <1>4, <1>5 DEF Next

(***************************************************************************)
(* The use cases are clients that keep to the adapter's protocol: seen     *)
(* from the store, any run of them is a run of SqliteAudit by itself, and  *)
(* the ledger that SqliteAudit implements is the one they write.           *)
(***************************************************************************)
THEOREM UseCasesImplementStore == Spec => AuditSpec
<1>1. Init => AuditInit
  BY DEF Init
<1>2. QED
  BY <1>1, StoreSteps, PTL DEF Spec, AuditSpec

THEOREM UseCasesKeepLedger == Spec => ImplementsLedger
BY UseCasesImplementStore, SqliteImplementsLedger, PTL

(***************************************************************************)
(* What a step inside an adapter method does to the thread that takes it:  *)
(* only its step moves, along the method, and finish succeeds by a commit. *)
(***************************************************************************)
LEMMA MethodMoves ==
  ASSUME AuditInv, NEW c \in Clients, MethodStep(c)
  PROVE  /\ \A d \in Clients \ {c} : step'[d] = step[d]
         /\ target' = target /\ age' = age
         /\ step[c] \in {"select", "insert", "startCommit"} =>
              step'[c] \in {"insert", "startCommit", "started", "failed"}
         /\ step[c] \in {"update", "finishCommit"} =>
              step'[c] \in {"finishCommit", "finished", "failed"}
         /\ step[c] \in BusySteps
         /\ step'[c] = "finished" => Commit(c) /\ step[c] = "finishCommit"
<1> USE DEF AuditInv, AuditTypeOK
<1>1. CASE c \in Calls /\ SelectExisting(c)
  BY <1>1 DEF SelectExisting, BusySteps
<1>2. CASE c \in Calls /\ InsertStarted(c)
  BY <1>2 DEF InsertStarted, BusySteps
<1>3. CASE c \in Calls /\ InsertDuplicate(c)
  BY <1>3 DEF InsertDuplicate, BusySteps
<1>4. CASE c \in Calls /\ UpdateStarted(c)
  BY <1>4 DEF UpdateStarted, BusySteps
<1>5. CASE c \in Calls /\ UpdateMissed(c)
  BY <1>5 DEF UpdateMissed, BusySteps
<1>6. CASE c \in Recoverers /\ SweepStale(c)
  BY <1>6 DEF SweepStale, BusySteps
<1>7. CASE Commit(c)
  BY <1>7 DEF Commit, AfterCommit, CommitSteps, BusySteps
<1>8. CASE Fail(c)
  BY <1>8 DEF Fail
<1>9. QED
  BY <1>1, <1>2, <1>3, <1>4, <1>5, <1>6, <1>7, <1>8 DEF MethodStep

------------------------------------------------------------------------------
(***************************************************************************)
(* Every variable keeps its type.                                          *)
(***************************************************************************)
LEMMA CallTypes == TypeOK /\ [Next]_vars => TypeOK'
<1> SUFFICES ASSUME TypeOK, [Next]_vars
             PROVE  TypeOK'
  OBVIOUS
<1> AuditTypeOK'
  BY StoreSteps, AuditNextType DEF TypeOK
<1> USE DEF TypeOK, Places, Running, Ports, Closing, Emitting, Answers, GoTo, Answer
<1>1. ASSUME NEW c \in Calls, Begin(c) PROVE TypeOK'
  BY <1>1 DEF Begin
<1>2. ASSUME NEW c \in Calls, StartReturned(c) PROVE TypeOK'
  BY <1>2 DEF StartReturned, AuditUnavailable
<1>3. ASSUME NEW c \in Calls, ListPolicies(c) PROVE TypeOK'
  BY <1>3 DEF ListPolicies, Reject
<1>4. ASSUME NEW c \in Calls, GetFieldSnapshot(c) PROVE TypeOK'
  BY <1>4 DEF GetFieldSnapshot, Raise, Succeed, Reject
<1>5. ASSUME NEW c \in Calls, ValidateRequest(c) PROVE TypeOK'
  BY <1>5 DEF ValidateRequest, Raise, Reject
<1>6. ASSUME NEW c \in Calls, ExecuteQuery(c) PROVE TypeOK'
  BY <1>6 DEF ExecuteQuery, Raise, Succeed
<1>7. ASSUME NEW c \in Calls, FinishReturned(c) PROVE TypeOK'
  BY <1>7 DEF FinishReturned, AuditUnavailable
<1>8. ASSUME NEW c \in Calls, EmitTelemetry(c) \/ EmitRaises(c) PROVE TypeOK'
  BY <1>8 DEF EmitTelemetry, EmitRaises, CountRequest, EndSpan
<1>9. ASSUME NEW h \in Hosts, CrashHost(h) PROVE TypeOK'
  BY <1>9 DEF CrashHost
<1>10. CASE UNCHANGED callVars
  BY <1>10 DEF callVars
<1>11. ASSUME NEW c \in Calls, SpanRaises(c) PROVE TypeOK'
  BY <1>11 DEF SpanRaises, Raise
<1>12. QED
  BY <1>1, <1>2, <1>3, <1>4, <1>5, <1>6, <1>7, <1>8, <1>9, <1>10, <1>11
  DEF Next, CallStep, RecoveryStep, vars

(***************************************************************************)
(* An execution is where its code says, through every return, exception    *)
(* and death of a process.                                                 *)
(***************************************************************************)
LEMMA PlacesKept == BaseInv /\ [Next]_vars => PlaceInv' /\ TargetInv'
<1> SUFFICES ASSUME BaseInv, [Next]_vars
             PROVE  PlaceInv' /\ TargetInv'
  OBVIOUS
<1> USE DEF BaseInv, TypeOK, AuditTypeOK, PlaceInv, TargetInv, Ports, Closing, Emitting,
            Running, GoTo, Answer, Clients, Unstamped
<1>1. ASSUME NEW c \in Calls, Begin(c) PROVE PlaceInv' /\ TargetInv'
  BY <1>1 DEF Begin, CallStart
<1>2. ASSUME NEW c \in Calls, StartReturned(c) PROVE PlaceInv' /\ TargetInv'
  BY <1>2 DEF StartReturned, AuditUnavailable, TakeReturn
<1>3. ASSUME NEW c \in Calls, ListPolicies(c) PROVE PlaceInv' /\ TargetInv'
  BY <1>3 DEF ListPolicies, Reject, CallFinish, Terminal, auditVars
<1>4. ASSUME NEW c \in Calls, GetFieldSnapshot(c) PROVE PlaceInv' /\ TargetInv'
  BY <1>4 DEF GetFieldSnapshot, Raise, Succeed, Reject, CallFinish, Terminal, auditVars
<1>5. ASSUME NEW c \in Calls, ValidateRequest(c) PROVE PlaceInv' /\ TargetInv'
  BY <1>5 DEF ValidateRequest, Raise, Reject, CallFinish, Terminal, auditVars
<1>6. ASSUME NEW c \in Calls, ExecuteQuery(c) PROVE PlaceInv' /\ TargetInv'
  BY <1>6 DEF ExecuteQuery, Raise, Succeed, CallFinish, Terminal, auditVars
<1>7. ASSUME NEW c \in Calls, FinishReturned(c) PROVE PlaceInv' /\ TargetInv'
  BY <1>7 DEF FinishReturned, AuditUnavailable, TakeReturn
<1>8. ASSUME NEW c \in Calls, EmitTelemetry(c) \/ EmitRaises(c) PROVE PlaceInv' /\ TargetInv'
  BY <1>8 DEF EmitTelemetry, EmitRaises, auditVars
<1>9. ASSUME NEW c \in Clients, MethodStep(c), UNCHANGED callVars
      PROVE  PlaceInv' /\ TargetInv'
  BY <1>9, MethodMoves DEF callVars, BusySteps, CommitSteps
<1>10. ASSUME NEW r \in Recoverers, RecoveryStep(r) PROVE PlaceInv' /\ TargetInv'
  BY <1>10, ClientsAssumption DEF RecoveryStep, CallRecover, TakeReturn, callVars
<1>11. CASE Tick /\ UNCHANGED callVars
  BY <1>11 DEF Tick, callVars
<1>12. ASSUME NEW h \in Hosts, CrashHost(h) PROVE PlaceInv' /\ TargetInv'
  <2> SUFFICES ASSUME NEW c \in Calls
               PROVE  PlaceInv!(c)' /\ TargetInv!(c)'
    OBVIOUS
  <2>1. CASE HostOf[c] # h
    <3>1. step'[c] = step[c] /\ target'[c] = target[c] /\ pc'[c] = pc[c]
      BY <1>12, <2>1, ClientsAssumption DEF CrashHost, Crash, In
    <3>2. QED
      BY <1>12, <3>1 DEF CrashHost, Crash
  <2>2. CASE HostOf[c] = h
    <3>1. /\ step'[c] = IF Begun(c) THEN "dead" ELSE step[c]
          /\ target'[c] = "ABSENT"
          /\ pc'[c] = IF pc[c] \in Running THEN "gone" ELSE pc[c]
      BY <1>12, <2>2, ClientsAssumption DEF CrashHost, Crash, In
    <3>2. (pc[c] \in Running => Begun(c)) /\ (Begun(c) => pc[c] # "new")
      BY DEF Begun
    <3>3. age'[c] = age[c] /\ answer'[c] = answer[c]
      BY <1>12 DEF CrashHost, Crash
    <3>4. QED
      BY <3>1, <3>2, <3>3 DEF Running, Places
  <2>3. QED
    BY <2>1, <2>2
<1>13. CASE UNCHANGED vars
  BY <1>13 DEF vars, auditVars, callVars
<1>14. ASSUME NEW c \in Calls, SpanRaises(c) PROVE PlaceInv' /\ TargetInv'
  BY <1>14 DEF SpanRaises, Raise, auditVars
<1>15. QED
  BY <1>1, <1>2, <1>3, <1>4, <1>5, <1>6, <1>7, <1>8, <1>9, <1>10, <1>11, <1>12, <1>13, <1>14
  DEF Next, CallStep

------------------------------------------------------------------------------
(***************************************************************************)
(* A step of the system is one of execution c, the death of its process,   *)
(* or one that c does not notice.                                          *)
(***************************************************************************)
Untouched(c) ==
  /\ step'[c] = step[c] /\ pc'[c] = pc[c] /\ answer'[c] = answer[c]
  /\ openSpans'[c] = openSpans[c] /\ counted'[c] = counted[c]

Dies(c) ==
  /\ pc'[c] = IF pc[c] \in Running THEN "gone" ELSE pc[c]
  /\ step'[c] # "finished"
  /\ answer'[c] = answer[c] /\ openSpans'[c] = 0 /\ counted'[c] = "none"

LEMMA OwnSteps ==
  ASSUME BaseInv, [Next]_vars, NEW c \in Calls
  PROVE  \/ Untouched(c) \/ Dies(c) \/ Begin(c) \/ SpanRaises(c) \/ CallStep(c)
         \/ MethodStep(c) /\ UNCHANGED callVars
<1> USE DEF BaseInv, TypeOK, AuditTypeOK, Untouched, Clients
<1>1. ASSUME NEW d \in Calls, d # c, Begin(d) PROVE Untouched(c)
  BY <1>1 DEF Begin, CallStart
<1>2. ASSUME NEW d \in Calls, d # c, CallStep(d) PROVE Untouched(c)
  <2>1. /\ \A e \in Calls \ {d} : pc'[e] = pc[e] /\ answer'[e] = answer[e]
        /\ \A e \in Calls \ {d} : openSpans'[e] = openSpans[e] /\ counted'[e] = counted[e]
    BY <1>2 DEF CallStep, StartReturned, ListPolicies, GetFieldSnapshot, ValidateRequest,
                ExecuteQuery, FinishReturned, EmitTelemetry, EmitRaises, Succeed, Reject, Raise, GoTo,
                Answer, AuditUnavailable, CountRequest, EndSpan
  <2>2. \/ TakeReturn(d) \/ CallFinish(d, "SUCCEEDED") \/ CallFinish(d, "REJECTED")
        \/ UNCHANGED auditVars
    BY <1>2 DEF CallStep, StartReturned, ListPolicies, GetFieldSnapshot, ValidateRequest,
                ExecuteQuery, FinishReturned, EmitTelemetry, EmitRaises, Succeed, Reject, Raise
  <2>3. step'[c] = step[c]
    BY <1>2, <2>2 DEF TakeReturn, CallFinish, auditVars
  <2>4. QED
    BY <1>2, <2>1, <2>3
<1>3. ASSUME NEW d \in Clients, d # c, MethodStep(d), UNCHANGED callVars PROVE Untouched(c)
  BY <1>3, MethodMoves DEF callVars
<1>4. ASSUME NEW r \in Recoverers, RecoveryStep(r) PROVE Untouched(c)
  BY <1>4, ClientsAssumption DEF RecoveryStep, CallRecover, TakeReturn, callVars
<1>5. CASE Tick /\ UNCHANGED callVars
  BY <1>5 DEF Tick, callVars
<1>6. ASSUME NEW h \in Hosts, CrashHost(h) PROVE Untouched(c) \/ Dies(c)
  <2>1. CASE HostOf[c] # h
    <3>1. step'[c] = step[c]
      BY <1>6, <2>1, ClientsAssumption DEF CrashHost, Crash, In
    <3>2. QED
      BY <1>6, <2>1, <3>1 DEF CrashHost
  <2>2. CASE HostOf[c] = h
    <3>1. step'[c] = IF Begun(c) THEN "dead" ELSE step[c]
      BY <1>6, <2>2, ClientsAssumption DEF CrashHost, Crash, In
    <3>2. step'[c] # "finished"
      BY <3>1 DEF Begun
    <3>3. QED
      BY <1>6, <2>2, <3>2 DEF CrashHost, Dies
  <2>3. QED
    BY <2>1, <2>2
<1>7. CASE UNCHANGED vars
  BY <1>7 DEF vars, auditVars, callVars
<1>8. ASSUME NEW d \in Calls, d # c, SpanRaises(d) PROVE Untouched(c)
  BY <1>8 DEF SpanRaises, Raise, Answer, auditVars
<1>9. QED
  BY <1>1, <1>2, <1>3, <1>4, <1>5, <1>6, <1>7, <1>8 DEF Next

(***************************************************************************)
(* How an execution comes to its outcome: only by a commit of its finish,  *)
(* and only one that died or raised has lost it again.                     *)
(***************************************************************************)
LEMMA OutcomeMoves ==
  ASSUME BaseInv, CountedInv, [Next]_vars, NEW c \in Calls
  PROVE  /\ Won(c)' => Won(c) \/ (Commit(c) /\ step[c] = "finishCommit")
         /\ Won(c) => Won(c)' \/ pc'[c] = "gone" \/ answer'[c] = "raised"
         /\ answer[c] = "raised" => answer'[c] = "raised"
         /\ pc[c] = "gone" => pc'[c] = "gone"
         /\ pc'[c] = "emitSucceeded" \/ answer'[c] = "ok" =>
              \/ pc[c] = "emitSucceeded" \/ answer[c] = "ok"
              \/ pc[c] = "succeed" /\ step[c] = "finished"
         /\ pc'[c] = "emitRejected" \/ answer'[c] = "rejected" =>
              \/ pc[c] = "emitRejected" \/ answer[c] = "rejected"
              \/ pc[c] = "reject" /\ step[c] = "finished"
         /\ counted'[c] # "none" =>
              \/ counted'[c] = counted[c]
              \/ counted'[c] = "SUCCEEDED" /\ pc[c] = "emitSucceeded"
              \/ counted'[c] = "REJECTED" /\ pc[c] = "emitRejected"
<1> c \in Clients
  BY DEF Clients
<1> USE DEF BaseInv, TypeOK, AuditTypeOK, PlaceInv, CountedInv, Ports, Closing, Emitting,
            GoTo, Answer, Won
<1>1. CASE Untouched(c)
  BY <1>1 DEF Untouched
<1>2. CASE Dies(c)
  BY <1>2 DEF Dies, Running, Places
<1>3. CASE Begin(c)
  BY <1>3 DEF Begin, CallStart
<1>4. CASE StartReturned(c)
  BY <1>4 DEF StartReturned, AuditUnavailable, TakeReturn
<1>5. CASE ListPolicies(c)
  BY <1>5 DEF ListPolicies, Reject, CallFinish, Terminal, auditVars
<1>6. CASE GetFieldSnapshot(c)
  BY <1>6 DEF GetFieldSnapshot, Raise, Succeed, Reject, CallFinish, Terminal, auditVars
<1>7. CASE ValidateRequest(c)
  BY <1>7 DEF ValidateRequest, Raise, Reject, CallFinish, Terminal, auditVars
<1>8. CASE ExecuteQuery(c)
  BY <1>8 DEF ExecuteQuery, Raise, Succeed, CallFinish, Terminal, auditVars
<1>9. CASE FinishReturned(c)
  BY <1>9 DEF FinishReturned, AuditUnavailable, TakeReturn
<1>10. CASE EmitTelemetry(c) \/ EmitRaises(c)
  BY <1>10 DEF EmitTelemetry, EmitRaises, CountRequest, auditVars
<1>11. CASE MethodStep(c) /\ UNCHANGED callVars
  BY <1>11, MethodMoves DEF callVars, BusySteps, CommitSteps
<1>12. CASE SpanRaises(c)
  BY <1>12 DEF SpanRaises, Raise, auditVars
<1>13. QED
  BY <1>1, <1>2, <1>3, <1>4, <1>5, <1>6, <1>7, <1>8, <1>9, <1>10, <1>11, <1>12, OwnSteps
  DEF CallStep

(***************************************************************************)
(* What an execution does on the way: it reaches a port from a start that  *)
(* returned, is counted as it ends, and, if it is a query, has no span     *)
(* open when it answers.                                                   *)
(***************************************************************************)
LEMMA WayMoves ==
  ASSUME BaseInv, [Next]_vars, NEW c \in Calls
  PROVE  /\ pc'[c] \in Ports => pc[c] \in Ports \/ step[c] = "started"
         /\ answer[c] # "none" => answer'[c] = answer[c]
         /\ counted'[c] # "none" =>
              \/ counted'[c] = counted[c]
              \/ answer'[c] \in {"ok", "rejected", "raised"}
         /\ (IsQuery(c) /\ pc'[c] = "done" /\ answer'[c] # "raised") =>
              \/ openSpans'[c] = 0
              \/ pc[c] = "done" /\ answer[c] # "raised" /\ openSpans'[c] = openSpans[c]
<1> c \in Clients
  BY DEF Clients
<1> USE DEF BaseInv, TypeOK, AuditTypeOK, PlaceInv, Ports, Closing, Emitting, GoTo, Answer
<1>1. CASE Untouched(c)
  BY <1>1 DEF Untouched
<1>2. CASE Dies(c)
  BY <1>2 DEF Dies, Running
<1>3. CASE Begin(c)
  BY <1>3 DEF Begin, CallStart
<1>4. CASE StartReturned(c)
  BY <1>4 DEF StartReturned, AuditUnavailable, TakeReturn
<1>5. CASE ListPolicies(c)
  BY <1>5 DEF ListPolicies, Reject
<1>6. CASE GetFieldSnapshot(c)
  BY <1>6 DEF GetFieldSnapshot, Raise, Succeed, Reject
<1>7. CASE ValidateRequest(c)
  BY <1>7 DEF ValidateRequest, Raise, Reject
<1>8. CASE ExecuteQuery(c)
  BY <1>8 DEF ExecuteQuery, Raise, Succeed
<1>9. CASE FinishReturned(c)
  BY <1>9 DEF FinishReturned, AuditUnavailable
<1>10. CASE EmitTelemetry(c) \/ EmitRaises(c)
  BY <1>10 DEF EmitTelemetry, EmitRaises, EndSpan
<1>11. CASE MethodStep(c) /\ UNCHANGED callVars
  BY <1>11 DEF callVars
<1>12. CASE SpanRaises(c)
  BY <1>12 DEF SpanRaises, Raise
<1>13. QED
  BY <1>1, <1>2, <1>3, <1>4, <1>5, <1>6, <1>7, <1>8, <1>9, <1>10, <1>11, <1>12, OwnSteps
  DEF CallStep

------------------------------------------------------------------------------
(***************************************************************************)
(* A row that a commit turns to FAILED is one a recovery found stale: the  *)
(* use cases themselves never finish as FAILED.                            *)
(***************************************************************************)
LEMMA WhoFailsRows ==
  ASSUME BaseInv, NEW d \in Clients, Commit(d), NEW i \in CallIds, rows'[i] # rows[i]
  PROVE  /\ rows'[i].status = "FAILED" =>
              rows'[i].by \in Calls /\ age[rows'[i].by] > Stale
         /\ d \in Recoverers => rows'[i].status = "FAILED"
<1> AuditInv
  BY DEF BaseInv
<1>1. rows[i] \in Row
  BY DEF AuditInv, AuditTypeOK
<1>2. CASE d \in Calls
  <2>1. i = CallOf[d] /\ d \notin Recoverers
    BY <1>2, CommitStatuses, ClientsAssumption
  <2>2. rows'[i].status = IF step[d] = "startCommit" THEN "STARTED" ELSE target[d]
    BY <1>2, <2>1, CommitStatuses
  <2>3. rows'[i].status # "FAILED"
    BY <1>2, <2>2 DEF BaseInv, TargetInv
  <2>4. QED
    BY <2>1, <2>3
<1>3. CASE d \in Recoverers
  <2>1. rows' = SweptImage(d) /\ d \notin Calls
    BY <1>3, CommitMoves, ClientsAssumption
  <2>2. IsStale(d, i) /\ rows'[i] = [rows[i] EXCEPT !.status = "FAILED"]
    BY <2>1 DEF SweptImage
  <2>3. rows'[i].status = "FAILED" /\ rows'[i].by = rows[i].by
    BY <1>1, <2>2, ChangedRow DEF RowStatus, Terminal
  <2>4. rows[i].by \in cut[d]
    BY <2>2 DEF IsStale
  <2>5. rows[i].by \in Calls /\ age[rows[i].by] > Stale
    BY <1>3, <2>4 DEF AuditInv, AuditTypeOK, CutInv
  <2>6. QED
    BY <2>3, <2>5
<1>4. QED
  BY <1>2, <1>3 DEF Clients

(***************************************************************************)
(* No execution grows younger.                                             *)
(***************************************************************************)
LEMMA AgesGrow ==
  ASSUME AuditTypeOK, [AuditNext]_auditVars, NEW c \in Calls, age[c] > Stale
  PROVE  age'[c] > Stale
<1> USE BoundsAssumption DEF AuditTypeOK, Unstamped, Expired
<1>1. CASE Tick
  BY <1>1 DEF Tick
<1>2. ASSUME NEW d \in Calls, CallStart(d) PROVE age'[c] > Stale
  BY <1>2 DEF CallStart
<1>3. age' = age \/ Tick \/ \E d \in Calls : CallStart(d)
  BY DEF AuditNext, auditVars, CallFinish, CallRecover, TakeReturn, MethodStep, SelectExisting,
         InsertStarted, InsertDuplicate, UpdateStarted, UpdateMissed, SweepStale, Commit, Fail,
         Crash
<1>4. QED
  BY <1>1, <1>2, <1>3

------------------------------------------------------------------------------
(***************************************************************************)
(* The invariant holds initially.                                          *)
(***************************************************************************)
LEMMA CallInitInv == Init => CallInv
<1> SUFFICES ASSUME Init PROVE CallInv
  OBVIOUS
<1>1. AuditInv /\ AuditTypeOK
  BY AuditInitInv DEF Init, AuditInv
<1>2. TypeOK
  BY <1>1 DEF Init, TypeOK, Places, Answers
<1>3. PlaceInv /\ TargetInv
  BY ClientsAssumption
  DEF Init, AuditInit, PlaceInv, TargetInv, Running, Ports, Closing, Emitting, Clients, Unstamped
<1>4. /\ \A c \in Calls : ~Won(c) /\ StatusOf(c) = "ABSENT"
      /\ \A i \in CallIds : rows[i].status = "ABSENT"
  BY ClientsAssumption
  DEF Init, AuditInit, Won, Emitting, Clients, StatusOf, NoRow
<1>5. NoPortBeforeAudit /\ CountedInv /\ AnsweredQueriesEndTheirSpan
  BY DEF Init, NoPortBeforeAudit, CountedInv, AnsweredQueriesEndTheirSpan, Ports
<1>6. OutcomeInv /\ OneWinner /\ SoleInv /\ FailedRowInv /\ OwnedRowInv
  BY <1>4 DEF Init, OutcomeInv, OneWinner, SoleInv, FailedRowInv, OwnedRowInv
<1>7. QED
  BY <1>1, <1>2, <1>3, <1>5, <1>6 DEF CallInv, BaseInv

(***************************************************************************)
(* An execution that won has a row closed by a call.                       *)
(***************************************************************************)
LEMMA WinnersClosed ==
  ASSUME BaseInv, OutcomeInv, NEW c \in Calls, Won(c)
  PROVE  StatusOf(c) \in {"SUCCEEDED", "REJECTED"}
<1>1. CASE step[c] = "finished"
  <2>1. pc[c] \in Closing
    BY <1>1 DEF BaseInv, TypeOK, PlaceInv, Places, Running, Ports, Emitting, Closing
  <2>2. target[c] \in {"SUCCEEDED", "REJECTED"}
    BY <2>1 DEF BaseInv, TargetInv, Closing
  <2>3. QED
    BY <1>1, <2>2 DEF BaseInv, AuditInv, FinishedIsDurable
<1>2. counted[c] # "none" => counted[c] \in {"SUCCEEDED", "REJECTED"}
  BY DEF BaseInv, TypeOK
<1>3. QED
  BY <1>1, <1>2 DEF Won, OutcomeInv, Emitting

(***************************************************************************)
(* The row of an execution that holds an outcome agrees with it.           *)
(***************************************************************************)
LEMMA OutcomesKept == CallInv /\ [Next]_vars => OutcomeInv'
<1> SUFFICES ASSUME CallInv, [Next]_vars, NEW c \in Calls
             PROVE  OutcomeInv!(c)'
  BY DEF OutcomeInv
<1>1. BaseInv /\ AuditInv /\ [AuditNext]_auditVars
  BY StoreSteps DEF CallInv, BaseInv
<1>2. CallOf[c] \in CallIds
  BY ClientsAssumption
<1>3. StatusOf(c) \in {"SUCCEEDED", "REJECTED"} => StatusOf(c)' = StatusOf(c)
  BY <1>1, <1>2, RowMoves DEF StatusOf
<1>4. step[c] = "finished" => StatusOf(c) = target[c]
  BY <1>1 DEF AuditInv, FinishedIsDurable
<1>5. /\ pc[c] = "succeed" => target[c] = "SUCCEEDED"
      /\ pc[c] = "reject" => target[c] = "REJECTED"
  BY <1>1 DEF BaseInv, TargetInv
<1>6. counted[c] # "none" => counted[c] \in {"SUCCEEDED", "REJECTED"}
  BY <1>1 DEF BaseInv, TypeOK
<1>7. counted'[c] # "none" => StatusOf(c)' = counted'[c]
  <2>1. CASE counted'[c] = counted[c]
    BY <1>3, <1>6, <2>1 DEF CallInv, OutcomeInv
  <2>2. CASE counted'[c] # counted[c]
    BY <1>1, <1>3, <2>2, OutcomeMoves DEF CallInv, OutcomeInv
  <2>3. QED
    BY <2>1, <2>2
<1>8. QED
  BY <1>1, <1>3, <1>4, <1>5, <1>7, OutcomeMoves DEF CallInv, OutcomeInv

(***************************************************************************)
(* A call id has one winner: the next one would close a row that is open,  *)
(* and that of a winner is not.                                            *)
(***************************************************************************)
LEMMA OneWinnerKept == CallInv /\ [Next]_vars => OneWinner'
<1> SUFFICES ASSUME CallInv, [Next]_vars, NEW c \in Calls, NEW d \in Calls,
                    c # d, CallOf[c] = CallOf[d], Won(c)', Won(d)'
             PROVE  FALSE
  BY DEF OneWinner
<1>1. BaseInv /\ AuditInv
  BY DEF CallInv, BaseInv
<1>2. ASSUME NEW e \in Calls, NEW f \in Calls, CallOf[e] = CallOf[f],
             Commit(e), step[e] = "finishCommit"
      PROVE  ~Won(f)
  <2>1. StatusOf(f) = "STARTED"
    BY <1>1, <1>2, CommitMoves DEF StatusOf, Clients
  <2>2. QED
    BY <1>1, <2>1, WinnersClosed DEF CallInv
<1>3. ~(Commit(c) /\ Commit(d))
  BY <1>1, ClientsAssumption DEF Commit, AuditInv, LockInv, Clients
<1>4. QED
  BY <1>1, <1>2, <1>3, OutcomeMoves DEF CallInv, OneWinner

(***************************************************************************)
(* A row that only one execution can close was closed by it.               *)
(***************************************************************************)
LEMMA SoleKept == CallInv /\ [Next]_vars => SoleInv'
<1> SUFFICES ASSUME CallInv, [Next]_vars, NEW c \in Calls, Sole(c),
                    StatusOf(c)' \in {"SUCCEEDED", "REJECTED"}
             PROVE  Won(c)' \/ pc'[c] = "gone" \/ answer'[c] = "raised"
  BY DEF SoleInv, Sole
<1>1. BaseInv /\ AuditInv /\ [AuditNext]_auditVars /\ CallOf[c] \in CallIds
  BY StoreSteps, ClientsAssumption DEF CallInv, BaseInv
<1>2. CASE StatusOf(c) \in {"SUCCEEDED", "REJECTED"}
  BY <1>1, <1>2, OutcomeMoves DEF CallInv, SoleInv
<1>3. CASE StatusOf(c) \notin {"SUCCEEDED", "REJECTED"}
  <2>1. rows' # rows /\ rows'[CallOf[c]] # rows[CallOf[c]]
    BY <1>3 DEF StatusOf
  <2>2. PICK d \in Clients : Commit(d)
    BY <1>1, <2>1, OnlyCommitWrites
  <2>3. d \in Calls
    BY <1>1, <2>1, <2>2, WhoFailsRows DEF StatusOf, Clients
  <2>4. d = c
    BY <1>1, <2>1, <2>2, <2>3, CommitStatuses DEF Sole
  <2>5. step[c] = "finishCommit"
    <3>1. step[c] \in {"startCommit", "finishCommit"}
      BY <1>1, <2>2, <2>4, CommitMoves, ClientsAssumption
    <3>2. step[c] # "startCommit"
      BY <1>1, <2>2, <2>4, CommitStatuses DEF StatusOf
    <3>3. QED
      BY <3>1, <3>2
  <2>6. step'[c] = "finished"
    BY <1>1, <2>2, <2>4, <2>5 DEF Commit, AfterCommit, AuditInv, AuditTypeOK
  <2>7. QED
    BY <2>6 DEF Won
<1>4. QED
  BY <1>2, <1>3

(***************************************************************************)
(* FAILED is what recoveries write, of calls that were stale and stay so.  *)
(***************************************************************************)
LEMMA FailedRowsKept == CallInv /\ [Next]_vars => FailedRowInv'
<1> SUFFICES ASSUME CallInv, [Next]_vars, NEW i \in CallIds, rows'[i].status = "FAILED"
             PROVE  rows'[i].by \in Calls /\ age'[rows'[i].by] > Stale
  BY DEF FailedRowInv
<1>1. BaseInv /\ AuditTypeOK /\ [AuditNext]_auditVars
  BY StoreSteps DEF CallInv, BaseInv, AuditInv
<1>2. rows'[i].by \in Calls /\ age[rows'[i].by] > Stale
  <2>1. CASE rows'[i] = rows[i]
    BY <2>1 DEF CallInv, FailedRowInv
  <2>2. CASE rows'[i] # rows[i]
    BY <1>1, <2>2, OnlyCommitWrites, WhoFailsRows
  <2>3. QED
    BY <2>1, <2>2
<1>3. QED
  BY <1>1, <1>2, AgesGrow

(***************************************************************************)
(* A recovery closes rows, and a call opens only its own.                  *)
(***************************************************************************)
LEMMA OwnedRowsKept == CallInv /\ [Next]_vars => OwnedRowInv'
<1> SUFFICES ASSUME CallInv, [Next]_vars, NEW i \in CallIds, rows'[i].status # "ABSENT"
             PROVE  \E c \in Calls : CallOf[c] = i
  BY DEF OwnedRowInv
<1>1. BaseInv /\ AuditInv /\ [AuditNext]_auditVars
  BY StoreSteps DEF CallInv, BaseInv
<1>2. CASE rows[i].status # "ABSENT"
  BY <1>2 DEF CallInv, OwnedRowInv
<1>3. CASE rows[i].status = "ABSENT"
  <2>1. rows'[i].status = "STARTED" /\ rows'[i] # rows[i]
    BY <1>1, <1>3, RowMoves
  <2>2. PICK d \in Clients : Commit(d)
    BY <1>1, <2>1, OnlyCommitWrites
  <2>3. d \in Calls
    BY <1>1, <2>1, <2>2, WhoFailsRows DEF Clients
  <2>4. QED
    BY <1>1, <2>1, <2>2, <2>3, CommitStatuses
<1>4. QED
  BY <1>2, <1>3

(***************************************************************************)
(* The invariant is inductive.                                             *)
(***************************************************************************)
LEMMA CallNextInv == CallInv /\ [Next]_vars => CallInv'
<1> SUFFICES ASSUME CallInv, [Next]_vars
             PROVE  CallInv'
  OBVIOUS
<1>1. BaseInv /\ TypeOK /\ AuditInv /\ [AuditNext]_auditVars
  BY StoreSteps DEF CallInv, BaseInv
<1>2. BaseInv'
  BY <1>1, CallTypes, AuditNextInv, PlacesKept DEF BaseInv
<1>3. NoPortBeforeAudit'
  <2>1. ASSUME NEW c \in Calls, pc'[c] \in Ports PROVE StatusOf(c) # "ABSENT"
    BY <1>1, <2>1, WayMoves DEF CallInv, NoPortBeforeAudit, AuditInv, StartedIsDurable
  <2>2. ASSUME NEW c \in Calls, StatusOf(c) # "ABSENT" PROVE StatusOf(c)' # "ABSENT"
    BY <1>1, <2>2, RowMoves, ClientsAssumption DEF StatusOf, Terminal
  <2>3. QED
    BY <2>1, <2>2 DEF NoPortBeforeAudit
<1>4. CountedInv'
  BY <1>1, WayMoves DEF CallInv, CountedInv
<1>5. AnsweredQueriesEndTheirSpan'
  BY <1>1, WayMoves DEF CallInv, AnsweredQueriesEndTheirSpan, IsQuery
<1>6. QED
  BY <1>2, <1>3, <1>4, <1>5, OutcomesKept, OneWinnerKept, SoleKept, FailedRowsKept,
     OwnedRowsKept
  DEF CallInv

(***************************************************************************)
(* Envelope, row, span and metric of every execution fit together at all   *)
(* times, on any number of hosts.                                          *)
(***************************************************************************)
THEOREM CallInvariant == Spec => []CallInv
<1>1. Init => CallInv
  BY CallInitInv
<1>2. CallInv /\ [Next]_vars => CallInv'
  BY CallNextInv
<1>3. QED
  BY <1>1, <1>2, PTL DEF Spec

(***************************************************************************)
(* The state of executions and adapters is always well formed.             *)
(***************************************************************************)
THEOREM CallTypeCorrect == Spec => []TypeOK
<1>1. CallInv => TypeOK
  BY DEF CallInv, BaseInv
<1>2. QED
  BY <1>1, CallInvariant, PTL

(***************************************************************************)
(* A caller that holds data has a SUCCEEDED row on disk and a rejected one *)
(* a REJECTED row, from then on for ever.                                  *)
(***************************************************************************)
THEOREM AnswersAreOnRecord == Spec => []AnswerMatchesLedger
<1>1. CallInv => AnswerMatchesLedger
  BY DEF CallInv, OutcomeInv, AnswerMatchesLedger
<1>2. QED
  BY <1>1, CallInvariant, PTL

(***************************************************************************)
(* No policy, catalog or query port is asked for a call without a row.     *)
(***************************************************************************)
THEOREM AuditComesFirst == Spec => []NoPortBeforeAudit
<1>1. CallInv => NoPortBeforeAudit
  BY DEF CallInv
<1>2. QED
  BY <1>1, CallInvariant, PTL

(***************************************************************************)
(* Of the executions that share a call id, at most one answers its caller  *)
(* with data or a rejection.                                               *)
(***************************************************************************)
THEOREM OneAnswer == Spec => []OneAnswerPerCallId
<1>1. CallInv => OneAnswerPerCallId
  BY DEF CallInv, OneWinner, OneAnswerPerCallId, Won
<1>2. QED
  BY <1>1, CallInvariant, PTL

(***************************************************************************)
(* AUDIT_UNAVAILABLE is never told of a call that is on record as served   *)
(* or rejected, when its call id is its own.                               *)
(***************************************************************************)
THEOREM UnavailableLeavesNothing == Spec => []UnavailableIsNotRecorded
<1>1. CallInv => UnavailableIsNotRecorded
  <2> SUFFICES ASSUME CallInv, NEW c \in Calls, Sole(c), answer[c] = "auditUnavailable",
                      StatusOf(c) \in {"SUCCEEDED", "REJECTED"}
               PROVE  FALSE
    BY DEF UnavailableIsNotRecorded
  <2>1. pc[c] = "done" /\ step[c] \in {"idle", "dead"}
    BY DEF CallInv, BaseInv, PlaceInv
  <2>2. QED
    BY <2>1 DEF CallInv, SoleInv, CountedInv, Won, Emitting
<1>2. QED
  BY <1>1, CallInvariant, PTL

(***************************************************************************)
(* A FAILED row was closed by a recovery, of a call that was stale.        *)
(***************************************************************************)
THEOREM InTimeCallsKeepTheirRow == Spec => []OnlyStaleCallsFail
<1>1. CallInv => OnlyStaleCallsFail
  BY DEF CallInv, FailedRowInv, OnlyStaleCallsFail
<1>2. QED
  BY <1>1, CallInvariant, PTL

(***************************************************************************)
(* A query that answered has no span open.                                 *)
(***************************************************************************)
THEOREM SpansEnd == Spec => []AnsweredQueriesEndTheirSpan
<1>1. CallInv => AnsweredQueriesEndTheirSpan
  BY DEF CallInv
<1>2. QED
  BY <1>1, CallInvariant, PTL

------------------------------------------------------------------------------
(***************************************************************************)
(* The calls counted under a status have rows of their own, so that there  *)
(* are as many of those at least.                                          *)
(***************************************************************************)
LEMMA CountedHaveRows ==
  ASSUME CallInv, NEW s \in {"SUCCEEDED", "REJECTED"}
  PROVE  Cardinality({c \in Calls : counted[c] = s})
           <= Cardinality({i \in CallIds : rows[i].status = s})
<1> DEFINE C == {c \in Calls : counted[c] = s}
           I == {i \in CallIds : rows[i].status = s}
           Ids == {CallOf[c] : c \in Calls}
<1>1. \A c \in C : Won(c) /\ CallOf[c] \in I
  BY ClientsAssumption DEF CallInv, CountedInv, OutcomeInv, Won, StatusOf
<1>2. [c \in C |-> CallOf[c]] \in Injection(C, I)
  BY <1>1 DEF CallInv, OneWinner, Injection, IsInjective
<1>3. IsFiniteSet(I)
  <2>1. [c \in Calls |-> CallOf[c]] \in Surjection(Calls, Ids)
    BY DEF Surjection
  <2>2. IsFiniteSet(Ids)
    BY <2>1, FiniteAssumption, FS_Surjection
  <2>3. I \subseteq Ids
    BY DEF CallInv, OwnedRowInv
  <2>4. QED
    BY <2>2, <2>3, FS_Subset
<1>4. QED
  BY <1>2, <1>3, FS_Injection

(***************************************************************************)
(* The request counter never shows more calls of an outcome than the audit *)
(* table has rows of it, summed over the registries of all hosts.          *)
(***************************************************************************)
THEOREM CountersAreCovered == Spec => []MetricsNeverExceedLedger
<1>1. CallInv => MetricsNeverExceedLedger
  BY CountedHaveRows DEF MetricsNeverExceedLedger
<1>2. QED
  BY <1>1, CallInvariant, PTL
=============================================================================

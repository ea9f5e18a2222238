--------------------------- MODULE ComposeRunsProofs --------------------------
(***************************************************************************)
(* Proofs about ComposeRuns for any number of runs and of attempts: type   *)
(* correctness, that a run fails only for a cause, and that the database   *)
(* is not left down by runs that docker served well.                       *)
(***************************************************************************)
EXTENDS ComposeRuns, TLAPS

\* what a failure of run r may be put down to
Excused(r) == faulted \/ disturbed[r] \/ timedOut[r] \/ early[r]

(***************************************************************************)
(* A restore never probes, and a run that has failed is on its way out.    *)
(***************************************************************************)
PhaseInv ==
  \A r \in Runs :
    /\ phase[r] = "restore" => place[r] \notin {"new", "probing", "querying", "cleanup"}
    /\ (phase[r] = "start" /\ error[r]) => place[r] \in {"cleanup", "done"}

(***************************************************************************)
(* While a run has no excuse, the database it waits for exists and the one *)
(* it goes on to use is healthy.                                           *)
(***************************************************************************)
ServedInv ==
  \A r \in Runs :
    (phase[r] = "start" /\ ~Excused(r)) =>
      /\ place[r] = "waiting" => db # "down"
      /\ place[r] \in {"portCheck", "probing", "querying"} => db = "healthy"
      /\ place[r] \notin {"fallback", "polling"}

(***************************************************************************)
(* While nothing has failed and no time was up, a database that is down is *)
(* one that no run has started yet, or one that the run which took it down *)
(* is about to start again.                                                *)
(***************************************************************************)
DownInv ==
  (db = "down" /\ ~faulted /\ \A r \in Runs : ~timedOut[r]) =>
    \/ \A r \in Runs : place[r] \in {"new", "ensure", "up"}
    \/ \E r \in Runs : phase[r] = "restore" /\ place[r] \in {"ensure", "up"}

RunsInv ==
  /\ TypeOK
  /\ PhaseInv
  /\ ServedInv
  /\ DownInv
  /\ FailsOnlyForCause

------------------------------------------------------------------------------
(***************************************************************************)
(* Every variable keeps its type; attempts are counted below their bound.  *)
(***************************************************************************)
LEMMA AttemptTypes ==
  ASSUME TypeOK, NEW r \in Runs, NextAttempt(r)
  PROVE  /\ place' \in [Runs -> Places] /\ phase' \in [Runs -> {"start", "restore"}]
         /\ attempts' \in [Runs -> 0..(MaxAttempts - 1)]
         /\ owned' \in [Runs -> BOOLEAN] /\ error' \in [Runs -> BOOLEAN]
         /\ timedOut' \in [Runs -> BOOLEAN] /\ early' \in [Runs -> BOOLEAN]
<1>1. CASE attempts[r] + 1 = MaxAttempts
  BY <1>1 DEF TypeOK, NextAttempt, Raised, GoTo, Fails, Places
<1>2. CASE attempts[r] + 1 # MaxAttempts
  <2>1. attempts[r] + 1 \in 0..(MaxAttempts - 1)
    BY <1>2, ComposeAssumption DEF TypeOK
  <2>2. attempts' \in [Runs -> 0..(MaxAttempts - 1)]
    BY <1>2, <2>1 DEF TypeOK, NextAttempt
  <2>3. QED
    BY <1>2, <2>2 DEF TypeOK, NextAttempt, GoTo, Places
<1>3. QED
  BY <1>1, <1>2

LEMMA EnsuredTypes ==
  ASSUME TypeOK, NEW r \in Runs, NEW started \in BOOLEAN, Ensured(r, started)
  PROVE  /\ place' \in [Runs -> Places] /\ phase' \in [Runs -> {"start", "restore"}]
         /\ attempts' \in [Runs -> 0..(MaxAttempts - 1)]
         /\ owned' \in [Runs -> BOOLEAN] /\ error' \in [Runs -> BOOLEAN]
         /\ timedOut' \in [Runs -> BOOLEAN] /\ early' \in [Runs -> BOOLEAN]
<1>1. (db = "listening") \in BOOLEAN
  BY Zenon
<1>2. early' \in [Runs -> BOOLEAN]
  BY <1>1 DEF TypeOK, Ensured
<1>3. QED
  BY <1>2 DEF TypeOK, Ensured, GoTo, Places

LEMMA RunsNextType == TypeOK /\ [Next]_vars => TypeOK'
<1> SUFFICES ASSUME TypeOK, [Next]_vars
             PROVE  TypeOK'
  OBVIOUS
<1> USE DEF TypeOK, GoTo, Fails, Fault, Places, States
<1>1. ASSUME NEW r \in Runs, Begin(r) PROVE TypeOK'
  BY <1>1 DEF Begin
<1>2. ASSUME NEW r \in Runs, Step(r) PROVE TypeOK'
  <2>1. CASE EnsureMysqlUp(r)
    <3>1. CASE PortOpen
      BY <2>1, <3>1, EnsuredTypes DEF EnsureMysqlUp
    <3>2. CASE ~PortOpen
      BY <2>1, <3>2, ComposeAssumption DEF EnsureMysqlUp
    <3>3. QED
      BY <3>1, <3>2
  <2>2. CASE ComposeUp(r) \/ UpRaises(r)
    BY <2>2 DEF ComposeUp, Started, UpRaises, Raised
  <2>3. CASE WaitEnds(r) \/ WaitFails(r)
    BY <2>3 DEF WaitEnds, WaitFails
  <2>4. CASE PortCheck(r)
    BY <2>4, EnsuredTypes, AttemptTypes DEF PortCheck
  <2>5. CASE Fallback(r)
    BY <2>5, AttemptTypes DEF Fallback, Started
  <2>6. CASE Poll(r)
    BY <2>6, EnsuredTypes DEF Poll
  <2>7. CASE PollTimesOut(r)
    BY <2>7, AttemptTypes DEF PollTimesOut
  <2>8. CASE Probe(r) \/ Query(r)
    BY <2>8 DEF Probe, Query, Use
  <2>9. CASE LeaveUp(r)
    BY <2>9 DEF LeaveUp
  <2>10. CASE ComposeDown(r)
    BY <2>10 DEF ComposeDown, RestoreFrom
  <2>11. CASE DownFails(r)
    BY <2>11 DEF DownFails, RestoreFrom
  <2>12. QED
    BY <1>2, <2>1, <2>2, <2>3, <2>4, <2>5, <2>6, <2>7, <2>8, <2>9, <2>10, <2>11 DEF Step
<1>3. ASSUME NEW r \in Runs, TimesOut(r) PROVE TypeOK'
  BY <1>3 DEF TimesOut
<1>4. CASE Boot \/ Stops
  BY <1>4 DEF Boot, Stops, run
<1>5. CASE UNCHANGED vars
  BY <1>5 DEF vars
<1>6. QED
  BY <1>1, <1>2, <1>3, <1>4, <1>5 DEF Next

------------------------------------------------------------------------------
(***************************************************************************)
(* What the end of ensure_mysql_up and of an attempt of compose_up do to   *)
(* the run they belong to.                                                 *)
(***************************************************************************)
LEMMA EnsuredMoves ==
  ASSUME TypeOK, NEW r \in Runs, NEW started, Ensured(r, started)
  PROVE  /\ phase' = phase /\ error' = error /\ timedOut' = timedOut
         /\ \A o \in Runs \ {r} : place'[o] = place[o] /\ early'[o] = early[o]
         /\ phase[r] = "start" => place'[r] = "probing" /\ (early'[r] <=> db = "listening")
         /\ phase[r] = "restore" => place'[r] = "done" /\ early'[r] = early[r]
BY DEF TypeOK, Ensured, GoTo

LEMMA AttemptMoves ==
  ASSUME TypeOK, NEW r \in Runs, NextAttempt(r)
  PROVE  /\ phase' = phase /\ timedOut' = timedOut /\ early' = early
         /\ \A o \in Runs \ {r} : place'[o] = place[o] /\ error'[o] = error[o]
         /\ place'[r] = "up" => error'[r] = error[r]
         /\ phase[r] = "start" => place'[r] \in {"up", "cleanup"}
         /\ phase[r] = "restore" => place'[r] \in {"up", "done"} /\ error'[r] = error[r]
BY DEF TypeOK, NextAttempt, Raised, GoTo, Fails

(***************************************************************************)
(* The phases are kept: only the cleanup begins a restore, once.           *)
(***************************************************************************)
LEMMA PhasesKept == RunsInv /\ [Next]_vars => PhaseInv'
<1> SUFFICES ASSUME RunsInv, [Next]_vars
             PROVE  PhaseInv'
  OBVIOUS
<1> USE DEF RunsInv, TypeOK, GoTo, Fails, Fault, PhaseInv
<1>1. ASSUME NEW r \in Runs, Begin(r) PROVE PhaseInv'
  BY <1>1 DEF Begin
<1>2. ASSUME NEW r \in Runs, Step(r) PROVE PhaseInv'
  <2>1. CASE EnsureMysqlUp(r)
    BY <2>1, EnsuredMoves DEF EnsureMysqlUp, PortOpen, States
  <2>2. CASE ComposeUp(r) \/ UpRaises(r)
    BY <2>2 DEF ComposeUp, Started, UpRaises, Raised
  <2>3. CASE WaitEnds(r) \/ WaitFails(r)
    BY <2>3 DEF WaitEnds, WaitFails
  <2>4. CASE PortCheck(r)
    BY <2>4, EnsuredMoves, AttemptMoves DEF PortCheck, PortOpen, States
  <2>5. CASE Fallback(r)
    BY <2>5, AttemptMoves DEF Fallback, Started
  <2>6. CASE Poll(r)
    BY <2>6, EnsuredMoves DEF Poll, PortOpen, States
  <2>7. CASE PollTimesOut(r)
    BY <2>7, AttemptMoves DEF PollTimesOut, PortOpen, States
  <2>8. CASE Probe(r) \/ Query(r)
    BY <2>8 DEF Probe, Query, Use
  <2>9. CASE LeaveUp(r)
    BY <2>9 DEF LeaveUp
  <2>10. CASE ComposeDown(r)
    BY <2>10 DEF ComposeDown, RestoreFrom, Active
  <2>11. CASE DownFails(r)
    BY <2>11 DEF DownFails, RestoreFrom
  <2>12. QED
    BY <1>2, <2>1, <2>2, <2>3, <2>4, <2>5, <2>6, <2>7, <2>8, <2>9, <2>10, <2>11 DEF Step
<1>3. ASSUME NEW r \in Runs, TimesOut(r) PROVE PhaseInv'
  BY <1>3 DEF TimesOut
<1>4. CASE Boot \/ Stops
  BY <1>4 DEF Boot, Stops, run
<1>5. CASE UNCHANGED vars
  BY <1>5 DEF vars
<1>6. QED
  BY <1>1, <1>2, <1>3, <1>4, <1>5 DEF Next

(***************************************************************************)
(* A database that goes away leaves every run that needs it with an        *)
(* excuse, at whatever step of its own the run is.                         *)
(***************************************************************************)
LEMMA ServedKept == RunsInv /\ [Next]_vars => ServedInv'
<1> SUFFICES ASSUME RunsInv, [Next]_vars
             PROVE  ServedInv'
  OBVIOUS
<1> USE DEF RunsInv, TypeOK, GoTo, Fails, Fault, ServedInv, PhaseInv, Excused
<1>1. ASSUME NEW r \in Runs, Begin(r) PROVE ServedInv'
  BY <1>1 DEF Begin
<1>2. ASSUME NEW r \in Runs, Step(r) PROVE ServedInv'
  <2>1. CASE EnsureMysqlUp(r)
    <3>1. CASE PortOpen
      BY <2>1, <3>1, EnsuredMoves DEF EnsureMysqlUp, PortOpen
    <3>2. CASE ~PortOpen
      BY <2>1, <3>2 DEF EnsureMysqlUp
    <3>3. QED
      BY <3>1, <3>2
  <2>2. CASE ComposeUp(r) \/ UpRaises(r)
    BY <2>2 DEF ComposeUp, Started, UpRaises, Raised
  <2>3. CASE WaitEnds(r) \/ WaitFails(r)
    BY <2>3 DEF WaitEnds, WaitFails
  <2>4. CASE PortCheck(r)
    <3>1. CASE PortOpen
      BY <2>4, <3>1, EnsuredMoves DEF PortCheck, PortOpen
    <3>2. CASE ~PortOpen
      BY <2>4, <3>2, AttemptMoves DEF PortCheck, PortOpen
    <3>3. QED
      BY <3>1, <3>2
  <2>5. CASE Fallback(r)
    BY <2>5, AttemptMoves DEF Fallback, Started
  <2>6. CASE Poll(r)
    BY <2>6, EnsuredMoves DEF Poll, PortOpen, States
  <2>7. CASE PollTimesOut(r)
    BY <2>7, AttemptMoves DEF PollTimesOut, PortOpen, States
  <2>8. CASE Probe(r) \/ Query(r)
    BY <2>8 DEF Probe, Query, Use
  <2>9. CASE LeaveUp(r)
    BY <2>9 DEF LeaveUp
  <2>10. CASE ComposeDown(r)
    BY <2>10 DEF ComposeDown, RestoreFrom, Active
  <2>11. CASE DownFails(r)
    BY <2>11 DEF DownFails, RestoreFrom
  <2>12. QED
    BY <1>2, <2>1, <2>2, <2>3, <2>4, <2>5, <2>6, <2>7, <2>8, <2>9, <2>10, <2>11 DEF Step
<1>3. ASSUME NEW r \in Runs, TimesOut(r) PROVE ServedInv'
  BY <1>3 DEF TimesOut
<1>4. CASE Boot \/ Stops
  BY <1>4 DEF Boot, Stops, run
<1>5. CASE UNCHANGED vars
  BY <1>5 DEF vars
<1>6. QED
  BY <1>1, <1>2, <1>3, <1>4, <1>5 DEF Next

(***************************************************************************)
(* A run whose ensure_mysql_up returns has not failed, unless it is the    *)
(* restore of a run that has.                                              *)
(***************************************************************************)
LEMMA EnsuredHasCause ==
  ASSUME RunsInv, NEW r \in Runs, NEW started, Ensured(r, started),
         place[r] \in {"ensure", "portCheck", "polling"}, UNCHANGED <<disturbed, faulted>>
  PROVE  FailsOnlyForCause'
<1> SUFFICES ASSUME NEW o \in Runs, error'[o]
             PROVE  faulted' \/ disturbed'[o] \/ timedOut'[o] \/ early'[o]
  BY DEF FailsOnlyForCause
<1>1. error[o] /\ timedOut' = timedOut
  BY EnsuredMoves DEF RunsInv
<1>2. early'[o] = early[o]
  <2>1. CASE o = r
    <3>1. phase[r] = "restore"
      BY <1>1, <2>1 DEF RunsInv, TypeOK, PhaseInv
    <3>2. QED
      BY <2>1, <3>1, EnsuredMoves DEF RunsInv
  <2>2. QED
    BY <2>1, EnsuredMoves DEF RunsInv
<1>3. faulted \/ disturbed[o] \/ timedOut[o] \/ early[o]
  BY <1>1 DEF RunsInv, FailsOnlyForCause
<1>4. QED
  BY <1>1, <1>2, <1>3

(***************************************************************************)
(* An error is written only where the database was found missing.          *)
(***************************************************************************)
LEMMA CausesKept == RunsInv /\ [Next]_vars => FailsOnlyForCause'
<1> SUFFICES ASSUME RunsInv, [Next]_vars
             PROVE  FailsOnlyForCause'
  OBVIOUS
<1> USE DEF RunsInv, TypeOK, GoTo, Fails, Fault, FailsOnlyForCause, ServedInv, PhaseInv, Excused
<1>1. ASSUME NEW r \in Runs, Begin(r) PROVE FailsOnlyForCause'
  BY <1>1 DEF Begin
<1>2. ASSUME NEW r \in Runs, Step(r) PROVE FailsOnlyForCause'
  <2>1. CASE EnsureMysqlUp(r)
    <3>1. CASE PortOpen
      BY <2>1, <3>1, EnsuredHasCause DEF EnsureMysqlUp
    <3>2. CASE ~PortOpen
      BY <2>1, <3>2 DEF EnsureMysqlUp
    <3>3. QED
      BY <3>1, <3>2
  <2>2. CASE ComposeUp(r) \/ UpRaises(r)
    BY <2>2 DEF ComposeUp, Started, UpRaises, Raised
  <2>3. CASE WaitEnds(r) \/ WaitFails(r)
    BY <2>3 DEF WaitEnds, WaitFails
  <2>4. CASE PortCheck(r)
    <3>1. CASE PortOpen
      BY <2>4, <3>1, EnsuredHasCause DEF PortCheck
    <3>2. CASE ~PortOpen
      BY <2>4, <3>2, AttemptMoves DEF PortCheck, PortOpen
    <3>3. QED
      BY <3>1, <3>2
  <2>5. CASE Fallback(r)
    BY <2>5, AttemptMoves DEF Fallback, Started
  <2>6. CASE Poll(r)
    BY <2>6, EnsuredHasCause DEF Poll
  <2>7. CASE PollTimesOut(r)
    BY <2>7, AttemptMoves DEF PollTimesOut, PortOpen, States
  <2>8. CASE Probe(r) \/ Query(r)
    BY <2>8 DEF Probe, Query, Use
  <2>9. CASE LeaveUp(r)
    BY <2>9 DEF LeaveUp
  <2>10. CASE ComposeDown(r)
    BY <2>10 DEF ComposeDown, RestoreFrom, Active
  <2>11. CASE DownFails(r)
    BY <2>11 DEF DownFails, RestoreFrom
  <2>12. QED
    BY <1>2, <2>1, <2>2, <2>3, <2>4, <2>5, <2>6, <2>7, <2>8, <2>9, <2>10, <2>11 DEF Step
<1>3. ASSUME NEW r \in Runs, TimesOut(r) PROVE FailsOnlyForCause'
  BY <1>3 DEF TimesOut
<1>4. CASE Boot \/ Stops
  BY <1>4 DEF Boot, Stops, run
<1>5. CASE UNCHANGED vars
  BY <1>5 DEF vars
<1>6. QED
  BY <1>1, <1>2, <1>3, <1>4, <1>5 DEF Next

(***************************************************************************)
(* Who takes the database down goes on to start it, and until it has, the  *)
(* others that find it down change nothing of that.                        *)
(***************************************************************************)
LEMMA DownKept == RunsInv /\ [Next]_vars => DownInv'
<1> SUFFICES ASSUME RunsInv, [Next]_vars
             PROVE  DownInv'
  OBVIOUS
<1> USE DEF RunsInv, TypeOK, GoTo, Fails, Fault, DownInv, PhaseInv
<1>1. ASSUME NEW r \in Runs, Begin(r) PROVE DownInv'
  BY <1>1 DEF Begin
<1>2. ASSUME NEW r \in Runs, Step(r) PROVE DownInv'
  <2>1. CASE EnsureMysqlUp(r)
    BY <2>1, EnsuredMoves DEF EnsureMysqlUp, PortOpen, States
  <2>2. CASE ComposeUp(r) \/ UpRaises(r)
    BY <2>2 DEF ComposeUp, Started, UpRaises, Raised
  <2>3. CASE WaitEnds(r) \/ WaitFails(r)
    BY <2>3 DEF WaitEnds, WaitFails
  <2>4. CASE PortCheck(r)
    BY <2>4, EnsuredMoves, AttemptMoves DEF PortCheck, PortOpen, States
  <2>5. CASE Fallback(r)
    BY <2>5, AttemptMoves DEF Fallback, Started
  <2>6. CASE Poll(r)
    BY <2>6, EnsuredMoves DEF Poll, PortOpen, States
  <2>7. CASE PollTimesOut(r)
    BY <2>7, AttemptMoves DEF PollTimesOut, PortOpen, States
  <2>8. CASE Probe(r) \/ Query(r)
    BY <2>8 DEF Probe, Query, Use
  <2>9. CASE LeaveUp(r)
    BY <2>9 DEF LeaveUp
  <2>10. CASE ComposeDown(r)
    BY <2>10 DEF ComposeDown, RestoreFrom, Active
  <2>11. CASE DownFails(r)
    BY <2>11 DEF DownFails, RestoreFrom
  <2>12. QED
    BY <1>2, <2>1, <2>2, <2>3, <2>4, <2>5, <2>6, <2>7, <2>8, <2>9, <2>10, <2>11 DEF Step
<1>3. ASSUME NEW r \in Runs, TimesOut(r) PROVE DownInv'
  BY <1>3 DEF TimesOut
<1>4. CASE Boot \/ Stops
  BY <1>4 DEF Boot, Stops, run
<1>5. CASE UNCHANGED vars
  BY <1>5 DEF vars
<1>6. QED
  BY <1>1, <1>2, <1>3, <1>4, <1>5 DEF Next

------------------------------------------------------------------------------
(***************************************************************************)
(* The invariant holds from the first moment, with the database up or down *)
(* before any run begins.                                                  *)
(***************************************************************************)
LEMMA RunsInitInv == Init => RunsInv
<1> SUFFICES ASSUME Init PROVE RunsInv
  OBVIOUS
<1>1. TypeOK
  <2>1. 0 \in 0..(MaxAttempts - 1)
    BY ComposeAssumption
  <2>2. faulted \in BOOLEAN
    BY Zenon DEF Init
  <2>3. QED
    BY <2>1, <2>2 DEF Init, TypeOK, States, Places
<1>2. PhaseInv /\ ServedInv /\ DownInv
  BY DEF Init, PhaseInv, ServedInv, DownInv
<1>3. FailsOnlyForCause
  BY DEF Init, FailsOnlyForCause
<1>4. QED
  BY <1>1, <1>2, <1>3 DEF RunsInv

(***************************************************************************)
(* What runs may count on about the shared database, whatever the others   *)
(* do and wherever their time is up.                                       *)
(***************************************************************************)
THEOREM RunsInvariant == Spec => []RunsInv
<1>1. Init => RunsInv
  BY RunsInitInv
<1>2. RunsInv /\ [Next]_vars => RunsInv'
  <2> SUFFICES ASSUME RunsInv, [Next]_vars PROVE RunsInv'
    OBVIOUS
  <2>1. TypeOK'
    BY RunsNextType DEF RunsInv
  <2>2. QED
    BY <2>1, PhasesKept, ServedKept, CausesKept, DownKept DEF RunsInv
<1>3. QED
  BY <1>1, <1>2, PTL DEF Spec

(***************************************************************************)
(* The state of the runs is always well formed, and no compose_up makes    *)
(* more attempts than it counts.                                           *)
(***************************************************************************)
THEOREM RunsTypeCorrect == Spec => []TypeOK
<1>1. RunsInv => TypeOK
  BY DEF RunsInv
<1>2. QED
  BY <1>1, RunsInvariant, PTL

(***************************************************************************)
(* A run that reports a failure has one of the four excuses, for any       *)
(* number of runs that share the database.                                 *)
(***************************************************************************)
THEOREM FailuresHaveCauses == Spec => []FailsOnlyForCause
<1>1. RunsInv => FailsOnlyForCause
  BY DEF RunsInv
<1>2. QED
  BY <1>1, RunsInvariant, PTL

(***************************************************************************)
(* When all runs that began have ended, and neither docker nor a clock     *)
(* ended one of them early, the database is there for the next session.    *)
(***************************************************************************)
THEOREM DatabaseIsPutBack == Spec => []NotStarved
<1>1. RunsInv => NotStarved
  BY DEF RunsInv, DownInv, NotStarved, Ended
<1>2. QED
  BY <1>1, RunsInvariant, PTL
=============================================================================

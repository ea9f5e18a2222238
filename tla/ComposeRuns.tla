----------------------------- MODULE ComposeRuns -----------------------------
(***************************************************************************)
(* Runs of the end-to-end helper (scripts/compose_e2e.py) on one machine:  *)
(* several test sessions share one database container, edmcp-demo-mysql on *)
(* port 3307.  A run makes sure that the database is up, uses it twice,    *)
(* and, if it started the database, takes it down and brings it back.      *)
(*                                                                         *)
(* Every docker command and every look at the port is a step, so the steps *)
(* of two runs mix in every order.  A command may fail, the container may  *)
(* stop, and pytest-timeout may end a run wherever it is: its exception is *)
(* not an Exception, so it passes the except clauses but not the finally.  *)
(***************************************************************************)
EXTENDS Naturals, FiniteSets

CONSTANTS
  Runs,
  MaxAttempts   \* of compose_up; 3 in the code

ASSUME ComposeAssumption ==
  /\ IsFiniteSet(Runs)
  /\ MaxAttempts \in Nat \ {0}

VARIABLES
  db,         \* the container
  place,      \* where each run is
  phase,      \* whether ensure_mysql_up runs to start or, in the finally, to restore
  attempts,   \* failed attempts of the compose_up under way
  owned,      \* run_full_e2e's owned
  error,      \* whether the report has ok = False
  timedOut,   \* pytest-timeout has fired
  early,      \* the run went on from an open port behind which nobody answers yet
  disturbed,  \* another run took the container down while this one needed it
  faulted     \* a docker command failed by itself, or the container did

run == <<place, phase, attempts, owned, error, timedOut, early>>
vars == <<db, place, phase, attempts, owned, error, timedOut, early,
          disturbed, faulted>>

\* "listening": the published port accepts, the server does not answer logins yet
States == {"down", "booting", "listening", "healthy"}
Places == {"new", "ensure", "up", "waiting", "portCheck", "fallback", "polling",
           "probing", "querying", "cleanup", "done"}

TypeOK ==
  /\ db \in States
  /\ place \in [Runs -> Places]
  /\ phase \in [Runs -> {"start", "restore"}]
  /\ attempts \in [Runs -> 0..(MaxAttempts - 1)]
  /\ owned \in [Runs -> BOOLEAN]
  /\ error \in [Runs -> BOOLEAN]
  /\ timedOut \in [Runs -> BOOLEAN]
  /\ early \in [Runs -> BOOLEAN]
  /\ disturbed \in [Runs -> BOOLEAN]
  /\ faulted \in BOOLEAN

Init ==
  /\ db \in {"down", "healthy"}
  /\ place = [r \in Runs |-> "new"]
  /\ phase = [r \in Runs |-> "start"]
  /\ attempts = [r \in Runs |-> 0]
  /\ owned = [r \in Runs |-> FALSE]
  /\ error = [r \in Runs |-> FALSE]
  /\ timedOut = [r \in Runs |-> FALSE]
  /\ early = [r \in Runs |-> FALSE]
  /\ disturbed = [r \in Runs |-> FALSE]
  /\ faulted = FALSE

\* mysql_port_open
PortOpen == db \in {"listening", "healthy"}

\* the run has begun and still needs the database
Active == {r \in Runs : phase[r] = "start" /\ place[r] \notin {"new", "cleanup", "done"}}

GoTo(r, p) == place' = [place EXCEPT ![r] = p]
Fails(r) == error' = [error EXCEPT ![r] = TRUE]
Fault == faulted' = TRUE

------------------------------------------------------------------------------
(* What ensure_mysql_up ends in.                                            *)

\* it returns whether this call started the database
Ensured(r, started) ==
  IF phase[r] = "start"
  THEN /\ owned' = [owned EXCEPT ![r] = started]
       /\ early' = [early EXCEPT ![r] = db = "listening"]
       /\ GoTo(r, "probing")
       /\ UNCHANGED <<phase, attempts, error, timedOut>>
  ELSE GoTo(r, "done") /\ UNCHANGED <<phase, attempts, owned, error, timedOut, early>>

\* it raises: a start is an error of the run, a restore is best effort
Raised(r) ==
  IF phase[r] = "start"
  THEN Fails(r) /\ GoTo(r, "cleanup") /\ UNCHANGED <<phase, attempts, owned, timedOut, early>>
  ELSE GoTo(r, "done") /\ UNCHANGED <<phase, attempts, owned, error, timedOut, early>>

\* MUTANT of NextAttempt: the loop has no end
NextAttemptForever(r) == GoTo(r, "up") /\ UNCHANGED <<phase, attempts, owned, error, timedOut, early>>

\* MUTANT of NextAttempt: one attempt too many
NextAttemptOver(r) ==
  IF attempts[r] = MaxAttempts
  THEN Raised(r)
  ELSE /\ attempts' = [attempts EXCEPT ![r] = @ + 1]
       /\ GoTo(r, "up")
       /\ UNCHANGED <<phase, owned, error, timedOut, early>>

\* the end of one attempt of compose_up
NextAttempt(r) ==
  IF attempts[r] + 1 = MaxAttempts
  THEN Raised(r)
  ELSE /\ attempts' = [attempts EXCEPT ![r] = @ + 1]
       /\ GoTo(r, "up")
       /\ UNCHANGED <<phase, owned, error, timedOut, early>>

------------------------------------------------------------------------------
(* ensure_mysql_up and compose_up.                                          *)

Begin(r) ==
  /\ place[r] = "new"
  /\ GoTo(r, "ensure")
  /\ UNCHANGED <<db, phase, attempts, owned, error, timedOut, early, disturbed, faulted>>

EnsureMysqlUp(r) ==
  /\ place[r] = "ensure"
  /\ IF PortOpen
     THEN Ensured(r, FALSE)
     ELSE /\ attempts' = [attempts EXCEPT ![r] = 0]
          /\ GoTo(r, "up")
          /\ UNCHANGED <<phase, owned, error, timedOut, early>>
  /\ UNCHANGED <<db, disturbed, faulted>>

\* docker creates the container unless there is one
Started == db' = IF db = "down" THEN "booting" ELSE db

\* `up -d --wait` begins ...
ComposeUp(r) ==
  /\ place[r] = "up"
  /\ Started
  /\ GoTo(r, "waiting")
  /\ UNCHANGED <<phase, attempts, owned, error, timedOut, early, disturbed, faulted>>

\* starting docker raises, which is no CalledProcessError: it leaves compose_up at once
UpRaises(r) ==
  /\ place[r] \in {"up", "fallback"}
  /\ Raised(r)
  /\ Fault
  /\ UNCHANGED <<db, disturbed>>

\* MUTANT of WaitEnds: `up -d` without --wait
WaitEndsAtOnce(r) ==
  /\ place[r] = "waiting"
  /\ GoTo(r, "portCheck")
  /\ UNCHANGED <<db, phase, attempts, owned, error, timedOut, early, disturbed, faulted>>

\* ... ends well when the health check does ...
WaitEnds(r) ==
  /\ place[r] = "waiting"
  /\ db = "healthy"
  /\ GoTo(r, "portCheck")
  /\ UNCHANGED <<db, phase, attempts, owned, error, timedOut, early, disturbed, faulted>>

\* ... and fails when the container is gone, or by itself
WaitFails(r) ==
  /\ place[r] = "waiting"
  /\ \/ db = "down" /\ UNCHANGED faulted
     \/ Fault
  /\ GoTo(r, "fallback")
  /\ UNCHANGED <<db, phase, attempts, owned, error, timedOut, early, disturbed>>

PortCheck(r) ==
  /\ place[r] = "portCheck"
  /\ IF PortOpen THEN Ensured(r, TRUE) ELSE NextAttempt(r)
  /\ UNCHANGED <<db, disturbed, faulted>>

\* `up -d` after a CalledProcessError, without waiting for the health check
Fallback(r) ==
  /\ place[r] = "fallback"
  /\ \/ /\ Started
        /\ GoTo(r, "polling")
        /\ UNCHANGED <<phase, attempts, owned, error, timedOut, early, faulted>>
     \/ NextAttempt(r) /\ Fault /\ UNCHANGED db
  /\ UNCHANGED disturbed

\* _wait_port; a container that needs longer than the 120 s is a fault
Poll(r) ==
  /\ place[r] = "polling"
  /\ PortOpen
  /\ Ensured(r, TRUE)
  /\ UNCHANGED <<db, disturbed, faulted>>

PollTimesOut(r) ==
  /\ place[r] = "polling"
  /\ ~PortOpen
  /\ NextAttempt(r)
  /\ faulted' = (faulted \/ db = "booting")
  /\ UNCHANGED <<db, disturbed>>

------------------------------------------------------------------------------
(* The probes of run_full_e2e, and the finally.                             *)

\* probe_mysql_select1, then probe_execute_read_query: each opens a connection
Use(r, here, next) ==
  /\ place[r] = here
  /\ \/ db = "healthy" /\ GoTo(r, next) /\ UNCHANGED <<error, faulted>>
     \/ db # "healthy" /\ GoTo(r, "cleanup") /\ Fails(r) /\ UNCHANGED faulted
     \/ GoTo(r, "cleanup") /\ Fails(r) /\ Fault
  /\ UNCHANGED <<db, phase, attempts, owned, timedOut, early, disturbed>>

Probe(r) == Use(r, "probing", "querying")
Query(r) == Use(r, "querying", "cleanup")

LeaveUp(r) ==
  /\ place[r] = "cleanup"
  /\ ~owned[r]
  /\ GoTo(r, "done")
  /\ UNCHANGED <<db, phase, attempts, owned, error, timedOut, early, disturbed, faulted>>

\* MUTANT of RestoreFrom: the run that took the database down leaves it there
RestoreFromNever(r) == GoTo(r, "done") /\ UNCHANGED phase

\* the second ensure_mysql_up, after a down that succeeded or not
RestoreFrom(r) == GoTo(r, "ensure") /\ phase' = [phase EXCEPT ![r] = "restore"]

ComposeDown(r) ==
  /\ place[r] = "cleanup"
  /\ owned[r]
  /\ db' = "down"
  /\ disturbed' = [o \in Runs |-> disturbed[o] \/ (o # r /\ o \in Active)]
  /\ RestoreFrom(r)
  /\ UNCHANGED <<attempts, owned, error, timedOut, early, faulted>>

\* check=False drops docker's exit status; only starting docker can raise
DownFails(r) ==
  /\ place[r] = "cleanup"
  /\ owned[r]
  /\ error' \in {error, [error EXCEPT ![r] = TRUE]}
  /\ Fault
  /\ RestoreFrom(r)
  /\ UNCHANGED <<db, attempts, owned, timedOut, early, disturbed>>

\* pytest.mark.timeout(120), once per run: the finally still runs unless the run is in it
TimesOut(r) ==
  /\ place[r] \notin {"new", "done"}
  /\ ~timedOut[r]
  /\ timedOut' = [timedOut EXCEPT ![r] = TRUE]
  /\ Fails(r)
  /\ IF phase[r] = "start" /\ place[r] # "cleanup" THEN GoTo(r, "cleanup") ELSE GoTo(r, "done")
  /\ UNCHANGED <<db, phase, attempts, owned, early, disturbed, faulted>>

------------------------------------------------------------------------------
(* The container.                                                           *)

Boot ==
  /\ \/ db = "booting" /\ db' = "listening"
     \/ db = "listening" /\ db' = "healthy"
  /\ UNCHANGED <<run, disturbed, faulted>>

\* bound: it stops by itself only while nothing has failed yet
Stops ==
  /\ db # "down"
  /\ ~faulted
  /\ db' = "down"
  /\ Fault
  /\ UNCHANGED <<run, disturbed>>

Step(r) ==
  \/ EnsureMysqlUp(r) \/ ComposeUp(r) \/ UpRaises(r)
  \/ WaitEnds(r) \/ WaitFails(r) \/ PortCheck(r)
  \/ Fallback(r) \/ Poll(r) \/ PollTimesOut(r)
  \/ Probe(r) \/ Query(r) \/ LeaveUp(r) \/ ComposeDown(r) \/ DownFails(r)

Next ==
  \/ \E r \in Runs : Begin(r) \/ Step(r) \/ TimesOut(r)
  \/ Boot \/ Stops

Spec == Init /\ [][Next]_vars

(***************************************************************************)
(* A run's process is scheduled, and a container that docker has created   *)
(* boots unless somebody stops it.  Nothing makes a session begin a run,   *)
(* and no failure is fair.                                                 *)
(***************************************************************************)
FairSpec ==
  /\ Spec
  /\ WF_vars(Boot)
  /\ \A r \in Runs : WF_vars(Step(r))

------------------------------------------------------------------------------
(***************************************************************************)
(* Runs that take the database down put it back: when every run that       *)
(* began has ended, none timed out and docker did what it was told, the    *)
(* container is not down, in whatever order the runs started, took it      *)
(* down and restored it ("so later tests in the same pytest session are    *)
(* not starved", compose_e2e.py:207).                                      *)
(***************************************************************************)
Ended == \A r \in Runs : place[r] \in {"new", "done"}
NotStarved ==
  (/\ Ended
   /\ \E r \in Runs : place[r] = "done"
   /\ ~faulted
   /\ \A r \in Runs : ~timedOut[r])
  => db # "down"

(***************************************************************************)
(* A run reports a failure only for a cause: docker or the container       *)
(* failed, another run took the database away under it, its time was up,   *)
(* or it took an open port for a database that answers.  compose_up never  *)
(* goes on from a database that it knows is not there.                     *)
(***************************************************************************)
FailsOnlyForCause ==
  \A r \in Runs :
    error[r] => faulted \/ disturbed[r] \/ timedOut[r] \/ early[r]

(***************************************************************************)
(* Every run that begins ends, whatever fails and however often the others *)
(* take the container down: attempts are counted and waits have an end.    *)
(***************************************************************************)
EveryRunEnds == \A r \in Runs : (place[r] # "new") ~> (place[r] = "done")
=============================================================================

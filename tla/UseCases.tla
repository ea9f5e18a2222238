------------------------------ MODULE UseCases -------------------------------
(***************************************************************************)
(* The three application use cases over the shared audit store:            *)
(* ExecuteReadQuery (application/query_service.py), ListAuthorizedDatasets *)
(* and GetAuthorizedSchema (application/catalog_service.py).               *)
(*                                                                         *)
(* One member of Calls is one execution: a worker thread of a host with a  *)
(* trace_id of its own.  It stamps started_at, opens its audit row, asks   *)
(* policy, catalog and query port in turn, closes the row, and only then   *)
(* hands out an envelope.  Executions of one or several hosts, recovery    *)
(* threads and process deaths interleave at every adapter step.            *)
(*                                                                         *)
(* The ports' answers are inputs: whether the policy grants the dataset,   *)
(* whether MySQL answers or raises, whether the request validates, whether *)
(* a call of the telemetry port raises.                                    *)
(***************************************************************************)
EXTENDS SqliteAudit, FiniteSets

CONSTANT OperationOf     \* which use case an execution runs

Operations == {"query_data", "list_authorized_datasets", "get_authorized_schema"}

ASSUME OperationAssumption == OperationOf \in [Calls -> Operations]

\* as many executions as one likes, but they can be counted
ASSUME FiniteAssumption == IsFiniteSet(Calls)

VARIABLES
  pc,         \* where each execution is
  answer,     \* the envelope it returned, or "raised" when an exception left it
  openSpans,  \* spans started and not ended under its trace_id
  counted     \* the status under which mcp_requests_total counted it

callVars == <<pc, answer, openSpans, counted>>
vars == <<auditVars, callVars>>

Ports == {"policy", "catalog", "validate", "query"}
Closing == {"succeed", "reject"}
Emitting == {"emitSucceeded", "emitRejected"}
Running == {"open"} \cup Ports \cup Closing \cup Emitting
Places == {"new", "done", "gone"} \cup Running
Answers == {"none", "ok", "rejected", "auditUnavailable", "raised"}

TypeOK ==
  /\ AuditTypeOK
  /\ pc \in [Calls -> Places]
  /\ answer \in [Calls -> Answers]
  /\ openSpans \in [Calls -> {0, 1}]
  /\ counted \in [Calls -> {"none", "SUCCEEDED", "REJECTED"}]

Init ==
  /\ AuditInit
  /\ pc = [c \in Calls |-> "new"]
  /\ answer = [c \in Calls |-> "none"]
  /\ openSpans = [c \in Calls |-> 0]
  /\ counted = [c \in Calls |-> "none"]

IsQuery(c) == OperationOf[c] = "query_data"
IsList(c) == OperationOf[c] = "list_authorized_datasets"
IsSchema(c) == OperationOf[c] = "get_authorized_schema"

------------------------------------------------------------------------------
(* Ways an execution goes on.                                               *)

GoTo(c, place) ==
  /\ pc' = [pc EXCEPT ![c] = place]
  /\ UNCHANGED <<answer, openSpans, counted>>

Answer(c, envelope) ==
  /\ pc' = [pc EXCEPT ![c] = "done"]
  /\ answer' = [answer EXCEPT ![c] = envelope]

\* an exception of a port leaves execute: no envelope, no finish, no end_span
Raise(c) ==
  /\ Answer(c, "raised")
  /\ UNCHANGED <<auditVars, openSpans, counted>>

CountRequest(c) ==
  counted' = [counted EXCEPT ![c] = IF pc[c] = "emitSucceeded" THEN "SUCCEEDED" ELSE "REJECTED"]

EndSpan(c) == openSpans' = [openSpans EXCEPT ![c] = 0]

\* MUTANT of AuditUnavailable: no end_span
AuditUnavailableSpanLeft(c) ==
  /\ Answer(c, "auditUnavailable")
  /\ UNCHANGED <<openSpans, counted>>

\* _audit_unavailable: only the query use case ends its span
AuditUnavailable(c) ==
  /\ Answer(c, "auditUnavailable")
  /\ openSpans' = IF IsQuery(c) THEN [openSpans EXCEPT ![c] = 0] ELSE openSpans
  /\ UNCHANGED counted

Succeed(c) == CallFinish(c, "SUCCEEDED") /\ GoTo(c, "succeed")

\* _reject, _reject_not_allowed
Reject(c) == CallFinish(c, "REJECTED") /\ GoTo(c, "reject")

------------------------------------------------------------------------------
(* The steps of execute.                                                    *)

Begin(c) ==
  /\ pc[c] = "new"
  /\ CallStart(c)
  /\ pc' = [pc EXCEPT ![c] = "open"]
  /\ openSpans' = [openSpans EXCEPT ![c] = 1]
  /\ UNCHANGED <<answer, counted>>

\* an exception of start_span leaves execute before audit.start; the adapter keeps a
\* span only as its last statement
SpanRaises(c) == pc[c] = "new" /\ Raise(c)

\* MUTANT of StartReturned: the call goes on when audit.start raised
StartFailureIgnored(c) ==
  /\ pc[c] = "open"
  /\ TakeReturn(c)
  /\ GoTo(c, "policy")

StartReturned(c) ==
  /\ pc[c] = "open"
  /\ TakeReturn(c)
  /\ \/ step[c] = "started" /\ GoTo(c, "policy")
     \/ step[c] = "failed" /\ AuditUnavailable(c)

\* list_authorized_datasets takes whatever the policy grants, the others one dataset
ListPolicies(c) ==
  /\ pc[c] = "policy"
  /\ \/ GoTo(c, "catalog") /\ UNCHANGED auditVars
     \/ ~IsList(c) /\ Reject(c)

GetFieldSnapshot(c) ==
  /\ pc[c] = "catalog"
  /\ \/ Raise(c)
     \/ IsQuery(c) /\ GoTo(c, "validate") /\ UNCHANGED auditVars
     \/ ~IsQuery(c) /\ Succeed(c)
     \/ IsSchema(c) /\ Reject(c)

\* a BETWEEN bound that Decimal cannot compare raises through execute
ValidateRequest(c) ==
  /\ pc[c] = "validate"
  /\ \/ GoTo(c, "query") /\ UNCHANGED auditVars
     \/ Reject(c)
     \/ Raise(c)

\* MUTANT of ExecuteQuery: the request is counted before audit.finish
QueryCountedEarly(c) ==
  /\ pc[c] = "query"
  /\ CallFinish(c, "SUCCEEDED")
  /\ pc' = [pc EXCEPT ![c] = "succeed"]
  /\ counted' = [counted EXCEPT ![c] = "SUCCEEDED"]
  /\ UNCHANGED <<answer, openSpans>>

ExecuteQuery(c) ==
  /\ pc[c] = "query"
  /\ Succeed(c) \/ Raise(c)

\* MUTANT of FinishReturned: a failed audit.finish does not discard the result
FinishFailureIgnored(c) ==
  /\ pc[c] \in Closing
  /\ TakeReturn(c)
  /\ GoTo(c, IF pc[c] = "succeed" THEN "emitSucceeded" ELSE "emitRejected")

FinishReturned(c) ==
  /\ pc[c] \in Closing
  /\ TakeReturn(c)
  /\ \/ step[c] = "failed" /\ AuditUnavailable(c)
     \/ /\ step[c] = "finished"
        /\ IsQuery(c)
        /\ GoTo(c, IF pc[c] = "succeed" THEN "emitSucceeded" ELSE "emitRejected")
     \/ /\ step[c] = "finished"
        /\ ~IsQuery(c)
        /\ Answer(c, IF pc[c] = "succeed" THEN "ok" ELSE "rejected")
        /\ UNCHANGED <<openSpans, counted>>

\* MUTANT of EmitTelemetry: the metric label is the envelope's, not the row's
EmitWrongLabel(c) ==
  /\ pc[c] \in Emitting
  /\ counted' = [counted EXCEPT ![c] = "ok"]
  /\ EndSpan(c)
  /\ Answer(c, IF pc[c] = "emitSucceeded" THEN "ok" ELSE "rejected")
  /\ UNCHANGED auditVars

\* _emit_query_telemetry, then the envelope
EmitTelemetry(c) ==
  /\ pc[c] \in Emitting
  /\ CountRequest(c)
  /\ EndSpan(c)
  /\ Answer(c, IF pc[c] = "emitSucceeded" THEN "ok" ELSE "rejected")
  /\ UNCHANGED auditVars

\* MUTANT of EmitRaises: inside the try of audit.finish, so that the exception is
\* reported as AUDIT_UNAVAILABLE
EmitInsideTry(c) ==
  /\ pc[c] \in Emitting
  /\ AuditUnavailable(c)
  /\ UNCHANGED auditVars

\* an exception of the metrics, of record_event or end_span, or of emit_log leaves
\* execute with the row closed
EmitRaises(c) ==
  /\ pc[c] \in Emitting
  /\ Answer(c, "raised")
  /\ \/ UNCHANGED <<counted, openSpans>>
     \/ CountRequest(c) /\ UNCHANGED openSpans
     \/ CountRequest(c) /\ EndSpan(c)
  /\ UNCHANGED auditVars

CallStep(c) ==
  \/ StartReturned(c)
  \/ ListPolicies(c)
  \/ GetFieldSnapshot(c)
  \/ ValidateRequest(c)
  \/ ExecuteQuery(c)
  \/ FinishReturned(c)
  \/ EmitTelemetry(c)
  \/ EmitRaises(c)

\* Executions of the dead process are gone, with its span stacks and metric registry.
CrashHost(h) ==
  /\ Crash(h)
  /\ pc' = [c \in Calls |->
              IF HostOf[c] = h /\ pc[c] \in Running THEN "gone" ELSE pc[c]]
  /\ openSpans' = [c \in Calls |-> IF HostOf[c] = h THEN 0 ELSE openSpans[c]]
  /\ counted' = [c \in Calls |-> IF HostOf[c] = h THEN "none" ELSE counted[c]]
  /\ UNCHANGED answer

RecoveryStep(r) == (CallRecover(r) \/ TakeReturn(r)) /\ UNCHANGED callVars

Next ==
  \/ \E c \in Calls : Begin(c) \/ SpanRaises(c) \/ CallStep(c)
  \/ \E c \in Clients : MethodStep(c) /\ UNCHANGED callVars
  \/ \E r \in Recoverers : RecoveryStep(r)
  \/ Tick /\ UNCHANGED callVars
  \/ \E h \in Hosts : CrashHost(h)

Spec == Init /\ [][Next]_vars

(***************************************************************************)
(* Fairness.  A begun execution is a running thread: it takes its own      *)
(* steps and those of the adapter methods it calls.  Time passes.  Nothing *)
(* obliges a client to begin a call or a process to die.                   *)
(***************************************************************************)
FairSpec ==
  /\ Spec
  /\ \A c \in Calls : WF_vars(CallStep(c))
  /\ \A c \in Clients : WF_vars(MethodStep(c) /\ UNCHANGED callVars)
  /\ WF_vars(Tick /\ UNCHANGED callVars)

(***************************************************************************)
(* A deployment that keeps calling recover_stale_started.  No host under   *)
(* src/ does; without Recoverers FairSpec describes the hosts as shipped.  *)
(***************************************************************************)
RecoveringSpec == FairSpec /\ \A r \in Recoverers : WF_vars(RecoveryStep(r))

------------------------------------------------------------------------------
\* no other execution uses the call id, as when the MCP handlers draw it from uuid4
Sole(c) == \A d \in Calls \ {c} : CallOf[d] # CallOf[c]

(***************************************************************************)
(* The envelope and the audit row never disagree: a caller holding data    *)
(* has a SUCCEEDED row on disk and a rejected caller a REJECTED one, now   *)
(* and for ever, whatever other threads, recoveries and crashes do.        *)
(***************************************************************************)
AnswerMatchesLedger ==
  \A c \in Calls :
    /\ answer[c] = "ok" => StatusOf(c) = "SUCCEEDED"
    /\ answer[c] = "rejected" => StatusOf(c) = "REJECTED"

(***************************************************************************)
(* No policy, catalog or query port is touched for a call that has no row  *)
(* on disk (test_call_order_started_before_policy_catalog_before_finish    *)
(* checks it for one thread and a fake store).                             *)
(***************************************************************************)
NoPortBeforeAudit ==
  \A c \in Calls : pc[c] \in Ports => StatusOf(c) # "ABSENT"

(***************************************************************************)
(* Executions that share a call id may all reach the database, but at most *)
(* one of them gives its caller a result or a rejection; the others are    *)
(* told AUDIT_UNAVAILABLE and their data is discarded.                     *)
(***************************************************************************)
OneAnswerPerCallId ==
  \A c, d \in Calls :
    (c # d /\ CallOf[c] = CallOf[d])
      => ~(answer[c] \in {"ok", "rejected"} /\ answer[d] \in {"ok", "rejected"})

(***************************************************************************)
(* A caller told AUDIT_UNAVAILABLE, alone on its call id, is not on record *)
(* as served or rejected: a failed finish left nothing behind.             *)
(***************************************************************************)
UnavailableIsNotRecorded ==
  \A c \in Calls :
    (Sole(c) /\ answer[c] = "auditUnavailable")
      => StatusOf(c) \notin {"SUCCEEDED", "REJECTED"}

(***************************************************************************)
(* A FAILED row is one that recovery closed, and its call was more than    *)
(* Stale old by then: a call that finishes in time never loses its result  *)
(* to a concurrent recovery.                                               *)
(***************************************************************************)
OnlyStaleCallsFail ==
  \A i \in CallIds : rows[i].status = "FAILED" => age[rows[i].by] > Stale

(***************************************************************************)
(* mcp_requests_total never counts an outcome the audit table does not     *)
(* hold, summed over the registries of all hosts.                          *)
(***************************************************************************)
MetricsNeverExceedLedger ==
  \A s \in {"SUCCEEDED", "REJECTED"} :
    Cardinality({c \in Calls : counted[c] = s})
      <= Cardinality({i \in CallIds : rows[i].status = s})

(***************************************************************************)
(* A query that answers its caller has ended the span it started, on the   *)
(* success, rejection and both AUDIT_UNAVAILABLE paths.  (The two catalog  *)
(* use cases do not, nor need a query that an exception of a port leaves,  *)
(* the telemetry port included.)                                           *)
(***************************************************************************)
AnsweredQueriesEndTheirSpan ==
  \A c \in Calls :
    (IsQuery(c) /\ pc[c] = "done" /\ answer[c] # "raised") => openSpans[c] = 0

(***************************************************************************)
(* Every call that begins ends: with an envelope, an exception, or the     *)
(* death of its process.                                                   *)
(***************************************************************************)
EveryCallEnds ==
  \A c \in Calls : pc[c] \in Running ~> pc[c] \in {"done", "gone"}

(***************************************************************************)
(* No row stays STARTED for ever: rows of calls that died or raised are    *)
(* turned to FAILED (tests/unit/adapters/audit/                            *)
(* test_stale_started_recovery.py:3, "Stale STARTED -> FAILED").           *)
(***************************************************************************)
NoRowStaysStarted ==
  \A i \in CallIds : rows[i].status = "STARTED" ~> rows[i].status # "STARTED"
=============================================================================

------------------------------ MODULE QueryPath ------------------------------
(***************************************************************************)
(* One query_data request on its way from the Demo Agent (agent.py) or an  *)
(* MCP client to MySQL and back: the agent's model turn and its request    *)
(* check, the dataset and field policy, validate_query_request, the plan,  *)
(* the SQL compiler, MysqlQueryAdapter.execute and the answer.             *)
(*                                                                         *)
(* The audit row around this path is the subject of UseCases; here it is   *)
(* the data that flows.  An exception of the catalog, the compiler or the  *)
(* driver leaves the use case and reaches the client as a tool error.      *)
(***************************************************************************)
EXTENDS QueryRules

CONSTANTS
  Requests,    \* the requests a client or a language model may come up with
  None,        \* no request
  MaxMatches   \* BOUND: how many rows of the view may match

ASSUME RequestsAssumption == Requests \subseteq Payload /\ MaxMatches \in Nat

VARIABLES
  place,     \* where the request is
  viaAgent,  \* whether the Demo Agent sent it
  request,   \* its arguments; None before there are any
  code,      \* the error code of the envelope, or "none"
  matches,   \* how many rows matched when MySQL answered
  result,    \* what of them the envelope carries
  answer     \* DemoAnswer: the fields the properties are about

vars == <<place, viaAgent, request, code, matches, result, answer>>

Places == {"idle", "checking", "sent", "matched", "validated", "compiled", "returned",
           "done", "raised", "compileError"}

NoResult == [rowCount |-> 0, truncated |-> FALSE, status |-> "none"]
NoAnswer == [called |-> FALSE, succeeded |-> FALSE, rowCount |-> Absent]

TypeOK ==
  /\ place \in Places
  /\ viaAgent \in BOOLEAN
  /\ code \in Refusals \cup {"none", "DATASET_NOT_ALLOWED"}
  /\ matches \in Nat
  /\ result \in [rowCount : 0 .. MaxLimit, truncated : BOOLEAN,
                 status : {"none", "EMPTY", "NON_EMPTY"}]
  /\ answer \in [called : BOOLEAN, succeeded : BOOLEAN, rowCount : {Absent} \cup (0 .. MaxLimit)]

Init ==
  /\ place = "idle"
  /\ viaAgent = FALSE
  /\ request = None
  /\ code = "none"
  /\ matches = 0
  /\ result = NoResult
  /\ answer = NoAnswer

GoTo(p) == place' = p
Return(c) == code' = c /\ GoTo("returned")

Plan == PlanOf(request)

------------------------------------------------------------------------------
(* The callers.                                                             *)

ClientCalls(p) ==
  /\ place = "idle"
  /\ request' = p
  /\ GoTo("sent")
  /\ UNCHANGED <<viaAgent, code, matches, result, answer>>

\* DemoAgent.handle: the first model turn chose the tool query_data
ModelCallsTool(p) ==
  /\ place = "idle"
  /\ viaAgent' = TRUE
  /\ request' = p
  /\ GoTo("checking")
  /\ UNCHANGED <<code, matches, result, answer>>

\* what the model's endpoint may come back with, other than a call of query_data
BadReplies == {"unreachable", "malformed", "final", "otherTool", "badArguments"}

\* OpenAICompatModel turns every one of them into a final text; another model port
\* hands its decision over as it is
Decisions(reply) == {"final"} \cup ({reply} \ {"unreachable", "malformed"})

\* DemoAgent answers without a call; arguments that are no object count as a call
ModelRefuses(reply) ==
  /\ place = "idle"
  /\ viaAgent' = TRUE
  /\ \E d \in Decisions(reply) : answer' = [NoAnswer EXCEPT !.called = (d = "badArguments")]
  /\ GoTo("done")
  /\ UNCHANGED <<request, code, matches, result>>

\* an exception ends handle: of the first model turn; of call_query_data before the
\* server has the request, or when its answer is lost or no envelope; of the second turn
AgentRaises ==
  /\ \/ place = "idle" /\ viaAgent' = TRUE
     \/ place \in {"sent", "returned"} /\ viaAgent /\ UNCHANGED viaAgent
  /\ GoTo("raised")
  /\ UNCHANGED <<request, code, matches, result, answer>>

AgentChecks ==
  /\ place = "checking"
  /\ \/ /\ DemoVerdict(request) \in Refusals
        /\ answer' = [NoAnswer EXCEPT !.called = TRUE]
        /\ GoTo("done")
        /\ UNCHANGED request
     \/ /\ DemoVerdict(request) = "raised"
        /\ GoTo("raised")
        /\ UNCHANGED <<request, answer>>
     \/ /\ DemoVerdict(request) = "accepted"
        /\ request' = DemoArgs(request)
        /\ GoTo("sent")
        /\ UNCHANGED answer
  /\ UNCHANGED <<viaAgent, code, matches, result>>

------------------------------------------------------------------------------
(* ExecuteReadQuery.                                                        *)

MatchPolicy ==
  /\ place = "sent"
  /\ IF request.dataset = "granted"
       THEN GoTo("matched") /\ UNCHANGED code
       ELSE Return("DATASET_NOT_ALLOWED")
  /\ UNCHANGED <<viaAgent, request, matches, result, answer>>

\* get_field_snapshot raises DATA_SOURCE_UNAVAILABLE or QUERY_TIMEOUT
CatalogFails ==
  /\ place = "matched"
  /\ GoTo("raised")
  /\ UNCHANGED <<viaAgent, request, code, matches, result, answer>>

Validate ==
  /\ place = "matched"
  /\ \/ Verdict(request) = "accepted" /\ GoTo("validated") /\ UNCHANGED code
     \/ Verdict(request) = "raised" /\ GoTo("raised") /\ UNCHANGED code
     \/ Verdict(request) \in Refusals /\ Return(Verdict(request))
  /\ UNCHANGED <<viaAgent, request, matches, result, answer>>

CompilePlan ==
  /\ place = "validated"
  /\ GoTo(IF Compiles(Plan) THEN "compiled" ELSE "compileError")
  /\ UNCHANGED <<viaAgent, request, code, matches, result, answer>>

Least(m, n) == IF m < n THEN m ELSE n

\* MUTANT of ToResult: the row fetched for the probe is returned as well
Unclipped(plan, fetched) ==
  [rowCount  |-> fetched,
   truncated |-> fetched > plan.limit,
   status    |-> IF fetched = 0 THEN "EMPTY" ELSE "NON_EMPTY"]

\* MUTANT of ToResult: a full window counts as truncated
TruncatedWhenFull(plan, fetched) ==
  [rowCount  |-> Least(fetched, plan.limit),
   truncated |-> fetched >= plan.limit,
   status    |-> IF fetched = 0 THEN "EMPTY" ELSE "NON_EMPTY"]

\* _to_result: one row more than the limit was asked for
ToResult(plan, fetched) ==
  [rowCount  |-> Least(fetched, plan.limit),
   truncated |-> fetched > plan.limit,
   status    |-> IF Least(fetched, plan.limit) = 0 THEN "EMPTY" ELSE "NON_EMPTY"]

MySqlAnswers(n) ==
  /\ place = "compiled"
  /\ matches' = n
  /\ result' = ToResult(Plan, Least(n, FetchLimit(Plan)))
  /\ GoTo("returned")
  /\ UNCHANGED <<viaAgent, request, code, answer>>

\* map_mysql_error
MySqlFails ==
  /\ place = "compiled"
  /\ GoTo("raised")
  /\ UNCHANGED <<viaAgent, request, code, matches, result, answer>>

------------------------------------------------------------------------------
(* The answer.                                                              *)

\* MUTANT of Answer: the envelope's data is read whether or not it succeeded
QuoteAnyway ==
  /\ place = "returned"
  /\ answer' = IF viaAgent
                 THEN [called |-> TRUE, succeeded |-> code = "none",
                       rowCount |-> result.rowCount]
                 ELSE answer
  /\ GoTo("done")
  /\ UNCHANGED <<viaAgent, request, code, matches, result>>

Answer ==
  /\ place = "returned"
  /\ answer' = IF viaAgent
                 THEN [called |-> TRUE, succeeded |-> code = "none",
                       rowCount |-> IF code = "none" THEN result.rowCount ELSE Absent]
                 ELSE answer
  /\ GoTo("done")
  /\ UNCHANGED <<viaAgent, request, code, matches, result>>

NextRequest ==
  /\ place \in {"done", "raised", "compileError"}
  /\ place' = "idle"
  /\ viaAgent' = FALSE
  /\ request' = None
  /\ code' = "none"
  /\ matches' = 0
  /\ result' = NoResult
  /\ answer' = NoAnswer

Next ==
  \/ \E p \in Requests : ClientCalls(p) \/ ModelCallsTool(p)
  \/ \E reply \in BadReplies : ModelRefuses(reply)
  \/ AgentChecks \/ AgentRaises
  \/ MatchPolicy \/ CatalogFails \/ Validate \/ CompilePlan
  \/ \E n \in 0 .. MaxMatches : MySqlAnswers(n)
  \/ MySqlFails \/ Answer \/ NextRequest

Spec == Init /\ [][Next]_vars

------------------------------------------------------------------------------
(***************************************************************************)
(* No request, whatever its parts name, makes a statement that reads a     *)
(* column outside the fields the policy grants and the view has: not       *)
(* through projection, filters, aggregations, group_by or order_by, nor    *)
(* through an alias that is spelled like a column.                         *)
(***************************************************************************)
OnlyGrantedColumns ==
  place = "compiled" => ColumnsRead(Plan) \subseteq Fields

(***************************************************************************)
(* The rules and the compiler are two lists of checks in two layers.  What *)
(* validate_query_request accepts, compile_query_plan refuses for a single *)
(* cause: the request reads a granted field that the adapter's own column  *)
(* list does not have.  And what it compiles stays within that list.       *)
(***************************************************************************)
AcceptedCompiles ==
  /\ place = "compileError" => ~(ColumnsRead(Plan) \subseteq Columns)
  /\ place = "compiled" => ColumnsRead(Plan) \subseteq Columns

(***************************************************************************)
(* The statement has one placeholder for each parameter the driver gets.   *)
(* The parameters are computed from the filters next to the placeholders;  *)
(* they are also what the plan announced as its bind_values, a field that  *)
(* the adapter does not read.                                              *)
(***************************************************************************)
BindsMatchStatement ==
  place = "compiled"
    => /\ PlaceholdersOf(Plan) = Len(ParamsOf(Plan))
       /\ ParamsOf(Plan) = Plan.binds

(***************************************************************************)
(* A statement is built only for a request on a dataset of the caller that *)
(* has no write key and names no write operation, at either door: the      *)
(* agent passes on a copy that it has filtered itself.                     *)
(***************************************************************************)
NoWriteReachesMySql ==
  place = "compiled"
    => ~request.writeKey /\ request.operation # "write" /\ request.dataset = "granted"

(***************************************************************************)
(* RESULT_LIMIT_EXCEEDED is reported only when the limit is all that is    *)
(* wrong: the same request with the largest limit is accepted.             *)
(***************************************************************************)
LimitIsTheOnlyFault ==
  code = "RESULT_LIMIT_EXCEEDED"
    => Verdict([request EXCEPT !.limit = MaxLimit]) = "accepted"

(***************************************************************************)
(* The envelope shows a window of the matching rows: at most limit of      *)
(* them, truncated exactly when there are more, EMPTY exactly when there   *)
(* are none.                                                               *)
(***************************************************************************)
ResultIsWindow ==
  (place = "returned" /\ code = "none")
    => /\ result.rowCount = Least(matches, Plan.limit)
       /\ result.truncated <=> matches > Plan.limit
       /\ result.status = "EMPTY" <=> matches = 0

(***************************************************************************)
(* The hallucination gate: an answer that quotes a row count quotes the    *)
(* envelope of a query that reached MySQL and succeeded.                   *)
(***************************************************************************)
AnswersQuoteTheServer ==
  answer.rowCount # Absent
    => /\ answer.succeeded
       /\ code = "none"
       /\ result.status # "none"
       /\ answer.rowCount = result.rowCount

(***************************************************************************)
(* The agent's own check catches what it is there for: the server never    *)
(* has to refuse one of its requests for the limit or for write intent.    *)
(***************************************************************************)
AgentStaysInLimits ==
  viaAgent => code \notin {"RESULT_LIMIT_EXCEEDED", "WRITE_OPERATION_FORBIDDEN"}

(***************************************************************************)
(* The bounds of an accepted BETWEEN are in order of what they mean        *)
(* (test_query_request_rules.py, reason "between_order").                  *)
(***************************************************************************)
BetweenIsOrdered ==
  place = "compiled" =>
    \A f \in ToSet(Plan.filters) :
      (f.op = "BETWEEN" /\ TypeOf[f.field] # "STRING")
        => f.items[1].means <= f.items[2].means
=============================================================================

------------------------------- MODULE HttpHost ------------------------------
(***************************************************************************)
(* The Streamable HTTP and legacy SSE hosts (hosts/__init__.py), from one  *)
(* start of the process to the next: HttpSecurityMiddleware and its        *)
(* InflightLimiter (hosts/http_security.py) in front of /healthz, /readyz  *)
(* (hosts/health.py) and the MCP routes.                                   *)
(*                                                                         *)
(* One event loop runs all requests.  Between reading the headers and      *)
(* awaiting the inner application the middleware awaits nothing, so the    *)
(* decision is one step; the inner application and its end, by a response, *)
(* an exception or the cancellation of a client that went away, are later  *)
(* steps, in any order with those of other requests.  A client may have    *)
(* its response some steps before the application returns and the finally  *)
(* gives the slot back.  An SSE stream stays in the application until its  *)
(* client leaves.                                                          *)
(***************************************************************************)
EXTENDS HostSettings, FiniteSets

CONSTANTS
  Requests,      \* connections of clients, each with one request at a time
  Environments,  \* the environments in which an operator starts the host
  NotRunning,
  Missing,       \* a request without an Origin
  Unknown        \* or without a Content-Length that can be read

ASSUME HostAssumption ==
  /\ IsFiniteSet(Requests)
  /\ \A env \in Environments : env.origins \in {Blank} \cup SUBSET (Sites \cup {Wildcard})
  /\ NotRunning \notin Settings
  /\ Missing \notin Sites
  /\ Unknown \notin Nat

VARIABLES
  settings,  \* of the host that runs, or NotRunning
  current,   \* InflightLimiter._current
  place,     \* where each request is
  request,   \* what it asks for
  status     \* the status of its response

vars == <<settings, current, place, request, status>>

\* "strayGet": a GET of the SSE path that does not accept an event stream
Kinds == {"healthz", "readyz", "message", "stream", "strayGet"}
Lengths == {Unknown, 1025}          \* BOUND: one length, above the smallest limit
Request == [kind : Kinds, origin : Sites \cup {Missing}, length : Lengths]
NoRequest == [kind |-> "healthz", origin |-> Missing, length |-> Unknown]

\* 0: no response yet; 200: whatever the inner application answered
Codes == {0, 200, 403, 406, 413, 503}

TypeOK ==
  /\ settings = NotRunning \/ settings \in Settings
  /\ current \in Nat
  /\ place \in [Requests -> {"idle", "arrived", "app", "responded", "answered"}]
  /\ request \in [Requests -> Request]
  /\ status \in [Requests -> Codes]

Init ==
  /\ settings = NotRunning
  /\ current = 0
  /\ place = [r \in Requests |-> "idle"]
  /\ request = [r \in Requests |-> NoRequest]
  /\ status = [r \in Requests |-> 0]

\* the requests that await the inner application, answered already or not
Inside == {"app", "responded"}
InApp == {r \in Requests : place[r] \in Inside}
Streams == {r \in InApp : request[r].kind = "stream"}

GoTo(r, p) == place' = [place EXCEPT ![r] = p]
Answer(r, code, p) == status' = [status EXCEPT ![r] = code] /\ GoTo(r, p)

\* the connection is free for its client's next request
Finish(r) ==
  /\ GoTo(r, "idle")
  /\ status' = [status EXCEPT ![r] = 0]
  /\ request' = [request EXCEPT ![r] = NoRequest]

------------------------------------------------------------------------------
(* The process; without settings that are accepted it never serves.         *)

Start(env) ==
  /\ settings = NotRunning
  /\ Accepted(env)
  /\ settings' = SettingsOf(env)
  /\ UNCHANGED <<current, place, request, status>>

\* every connection is lost, and the next process has a limiter of its own
Stop ==
  /\ settings # NotRunning
  /\ settings' = NotRunning
  /\ current' = 0
  /\ place' = [r \in Requests |-> "idle"]
  /\ request' = [r \in Requests |-> NoRequest]
  /\ status' = [r \in Requests |-> 0]

------------------------------------------------------------------------------
Arrive(r, q) ==
  /\ settings # NotRunning
  /\ place[r] = "idle"
  /\ request' = [request EXCEPT ![r] = q]
  /\ GoTo(r, "arrived")
  /\ UNCHANGED <<settings, current, status>>

\* decide_origin accepts a missing Origin, decide_body_size an unknown length
Forbidden(q) == q.origin # Missing /\ q.origin \notin settings.origins
TooLong(q) == q.length # Unknown /\ q.length > settings.body

\* the checks of __call__ in their order, up to try_acquire
Refusal(q) ==
  IF Sse /\ q.kind = "strayGet" THEN 406
  ELSE IF Forbidden(q) THEN 403
  ELSE IF TooLong(q) THEN 413
  ELSE 0

Refuse(r) ==
  /\ place[r] = "arrived"
  /\ Refusal(request[r]) # 0
  /\ Answer(r, Refusal(request[r]), "answered")
  /\ UNCHANGED <<settings, current, request>>

\* try_acquire found no free slot
Saturated(r) ==
  /\ place[r] = "arrived"
  /\ Refusal(request[r]) = 0
  /\ current >= settings.inflight
  /\ Answer(r, 503, "answered")
  /\ UNCHANGED <<settings, current, request>>

\* MUTANT of Admit: try_acquire lets one request too many in
AdmitInclusive(r) ==
  /\ place[r] = "arrived"
  /\ Refusal(request[r]) = 0
  /\ current <= settings.inflight
  /\ current' = current + 1
  /\ GoTo(r, "app")
  /\ UNCHANGED <<settings, request, status>>

Admit(r) ==
  /\ place[r] = "arrived"
  /\ Refusal(request[r]) = 0
  /\ current < settings.inflight
  /\ current' = current + 1
  /\ GoTo(r, "app")
  /\ UNCHANGED <<settings, request, status>>

------------------------------------------------------------------------------
(* The inner application; release() is in a finally.                        *)

Release == current' = IF current > 0 THEN current - 1 ELSE current

\* the response is sent from inside the application, and the slot still held;
\* /healthz and /readyz answer 200 as well: the checks of demo_readiness are constants
AppResponds(r) ==
  /\ place[r] = "app"
  /\ request[r].kind # "stream"
  /\ Answer(r, 200, "responded")
  /\ UNCHANGED <<settings, current, request>>

\* the application has returned
AppReturns(r) ==
  /\ place[r] = "responded"
  /\ GoTo(r, "answered")
  /\ Release
  /\ UNCHANGED <<settings, request, status>>

\* MUTANT of Leave: release() after the await and not in a finally
LeaveHoldingSlot(r) ==
  /\ place[r] \in Inside
  /\ Finish(r)
  /\ UNCHANGED <<settings, current>>

\* the application raised, or the client went away and the task was cancelled
Leave(r) ==
  /\ place[r] \in Inside
  /\ Finish(r)
  /\ Release
  /\ UNCHANGED settings

ReadResponse(r) ==
  /\ place[r] = "answered"
  /\ Finish(r)
  /\ UNCHANGED <<settings, current>>

Middleware(r) == Refuse(r) \/ Saturated(r) \/ Admit(r)

Next ==
  \/ \E env \in Environments : Start(env)
  \/ Stop
  \/ \E r \in Requests :
       \/ \E q \in Request : Arrive(r, q)
       \/ Middleware(r) \/ AppResponds(r) \/ AppReturns(r)
       \/ Leave(r) \/ ReadResponse(r)

Spec == Init /\ [][Next]_vars

(***************************************************************************)
(* The event loop runs every request that is not a stream to its end.      *)
(* Nothing makes a client close its stream.                                *)
(***************************************************************************)
FairSpec ==
  /\ Spec
  /\ \A r \in Requests :
       WF_vars(Middleware(r)) /\ WF_vars(AppResponds(r)) /\ WF_vars(AppReturns(r))

------------------------------------------------------------------------------
(***************************************************************************)
(* The limiter's counter is the number of requests inside, through every   *)
(* mix of responses, exceptions and cancellations: no slot leaks, none is  *)
(* given back twice, and never more are inside than the settings allow of  *)
(* the process that runs now, however often it was started.                *)
(***************************************************************************)
SlotsMatchRequests ==
  /\ current = Cardinality(InApp)
  /\ current <= IF settings = NotRunning THEN 0 ELSE settings.inflight

(***************************************************************************)
(* A host saturated by requests alone takes new ones again.                *)
(***************************************************************************)
Full == settings # NotRunning /\ current >= settings.inflight
SaturationEnds == (Full /\ Streams = {}) ~> (~Full \/ Streams # {})

(***************************************************************************)
(* No more SSE streams are open than the session limit allows              *)
(* (hosts/sse_session.py:10, "Bound active SSE sessions").                 *)
(***************************************************************************)
StreamsWithinSessions ==
  settings # NotRunning => Cardinality(Streams) <= settings.sessions
=============================================================================

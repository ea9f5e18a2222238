---------------------------- MODULE HttpHostProofs ----------------------------
(***************************************************************************)
(* Proofs about HttpHost for any number of connections and any set of      *)
(* environments, with and without SSE: type correctness, and that the      *)
(* limiter's counter is the number of requests inside.                     *)
(***************************************************************************)
EXTENDS HttpHost, FiniteSetTheorems, TLAPS

(***************************************************************************)
(* Settings that load are settings: every bound of settings.py is checked  *)
(* before a host keeps the value.                                          *)
(***************************************************************************)
LEMMA AcceptedSettings ==
  ASSUME NEW env \in Environments, Accepted(env)
  PROVE  SettingsOf(env) \in Settings
<1>1. env.origins \in SUBSET Sites
  BY HostAssumption DEF Accepted, OriginsOk
<1>2. env.body \in BodyLimits /\ env.inflight \in 1 .. 128
  BY DEF Accepted, InLimits
<1>3. (IF Sse THEN env.sessions ELSE 0) \in 0 .. 64
  BY SettingsAssumption DEF Accepted, SessionsOk
<1>4. QED
  BY <1>1, <1>2, <1>3 DEF SettingsOf, Settings

(***************************************************************************)
(* A connection that has no request yet is in the set of requests.         *)
(***************************************************************************)
LEMMA NoRequestType == NoRequest \in Request
BY DEF NoRequest, Request, Kinds, Lengths

(***************************************************************************)
(* The checks in front of the limiter answer with one of their codes.      *)
(***************************************************************************)
LEMMA RefusalType == \A q : Refusal(q) \in Codes
BY DEF Refusal, Codes

------------------------------------------------------------------------------
(***************************************************************************)
(* Why SlotsMatchRequests holds: a host that does not run has nobody at    *)
(* its door, so that a new process starts with a limiter that is right.    *)
(***************************************************************************)
HostInv ==
  /\ TypeOK
  /\ SlotsMatchRequests
  /\ settings = NotRunning => \A r \in Requests : place[r] = "idle"

(***************************************************************************)
(* The requests inside are finitely many, and one that comes or goes       *)
(* changes their number by one.                                            *)
(***************************************************************************)
LEMMA InAppCounts ==
  ASSUME NEW r \in Requests
  PROVE  /\ IsFiniteSet(InApp)
         /\ Cardinality(InApp) \in Nat
         /\ r \notin InApp => Cardinality(InApp \cup {r}) = Cardinality(InApp) + 1
         /\ r \in InApp => Cardinality(InApp \ {r}) = Cardinality(InApp) - 1
<1>1. IsFiniteSet(InApp)
  BY HostAssumption, FS_Subset DEF InApp
<1>2. QED
  BY <1>1, FS_CardinalityType, FS_AddElement, FS_RemoveElement

(***************************************************************************)
(* A request inside holds a slot: the counter is not zero then.            *)
(***************************************************************************)
LEMMA InsideCounts ==
  ASSUME HostInv, NEW r \in Requests, place[r] \in Inside
  PROVE  current \in Nat \ {0}
<1>1. r \in InApp /\ Cardinality(InApp) \in Nat
  BY InAppCounts DEF InApp
<1>2. Cardinality(InApp) # 0
  BY <1>1, InAppCounts, FS_EmptySet
<1>3. QED
  BY <1>1, <1>2 DEF HostInv, SlotsMatchRequests

(***************************************************************************)
(* Every variable keeps its type.                                          *)
(***************************************************************************)
LEMMA NextType == HostInv /\ [Next]_vars => TypeOK'
<1> SUFFICES ASSUME HostInv, [Next]_vars
             PROVE  TypeOK'
  OBVIOUS
<1> USE NoRequestType DEF HostInv, TypeOK, GoTo, Answer, Finish
<1>1. ASSUME NEW env \in Environments, Start(env) PROVE TypeOK'
  BY <1>1, AcceptedSettings DEF Start
<1>2. CASE Stop
  BY <1>2 DEF Stop, Codes
<1>3. ASSUME NEW r \in Requests, NEW q \in Request, Arrive(r, q) PROVE TypeOK'
  BY <1>3 DEF Arrive
<1>4. ASSUME NEW r \in Requests, Middleware(r) PROVE TypeOK'
  <2>1. CASE Refuse(r)
    BY <2>1, RefusalType DEF Refuse
  <2>2. CASE Saturated(r)
    BY <2>2 DEF Saturated, Codes
  <2>3. CASE Admit(r)
    BY <2>3 DEF Admit
  <2>4. QED
    BY <1>4, <2>1, <2>2, <2>3 DEF Middleware
<1>5. ASSUME NEW r \in Requests, AppResponds(r) \/ AppReturns(r) \/ Leave(r)
      PROVE  TypeOK'
  <2>1. current' \in Nat
    BY <1>5 DEF AppResponds, AppReturns, Leave, Release
  <2>2. CASE AppResponds(r) \/ AppReturns(r)
    BY <2>1, <2>2 DEF AppResponds, AppReturns, Codes
  <2>3. CASE Leave(r)
    BY <2>1, <2>3 DEF Leave, Codes
  <2>4. QED
    BY <1>5, <2>2, <2>3
<1>6. ASSUME NEW r \in Requests, ReadResponse(r) PROVE TypeOK'
  BY <1>6 DEF ReadResponse, Codes
<1>7. CASE UNCHANGED vars
  BY <1>7 DEF vars
<1>8. QED
  BY <1>1, <1>2, <1>3, <1>4, <1>5, <1>6, <1>7 DEF Next

------------------------------------------------------------------------------
(***************************************************************************)
(* A step that changes neither the requests inside, nor the counter, nor   *)
(* the process keeps the count.                                            *)
(***************************************************************************)
LEMMA OutsideSteps ==
  ASSUME HostInv, TypeOK', NEW r \in Requests, settings # NotRunning,
         UNCHANGED <<settings, current>>, place[r] \notin Inside,
         \/ place' = [place EXCEPT ![r] = "idle"]
         \/ place' = [place EXCEPT ![r] = "arrived"]
         \/ place' = [place EXCEPT ![r] = "answered"]
  PROVE  HostInv'
<1>1. InApp' = InApp
  BY DEF HostInv, TypeOK, InApp, Inside
<1>2. QED
  BY <1>1 DEF HostInv, SlotsMatchRequests

(***************************************************************************)
(* The end of the application, an exception and a cancellation each give   *)
(* one slot back.                                                          *)
(***************************************************************************)
LEMMA LeavingSteps ==
  ASSUME HostInv, TypeOK', NEW r \in Requests, place[r] \in Inside,
         settings' = settings, Release,
         \/ place' = [place EXCEPT ![r] = "idle"]
         \/ place' = [place EXCEPT ![r] = "answered"]
  PROVE  HostInv'
<1>1. settings \in Settings /\ settings.inflight \in Nat
  BY DEF HostInv, TypeOK, Settings, Inside
<1>2. current' = current - 1
  BY InsideCounts DEF Release
<1>3. r \in InApp /\ InApp' = InApp \ {r}
  BY DEF HostInv, TypeOK, InApp, Inside
<1>4. SlotsMatchRequests'
  BY <1>1, <1>2, <1>3, InAppCounts, HostAssumption DEF HostInv, SlotsMatchRequests, TypeOK
<1>5. QED
  BY <1>1, <1>4, HostAssumption DEF HostInv

(***************************************************************************)
(* The invariant is inductive.                                             *)
(***************************************************************************)
LEMMA NextInv == HostInv /\ [Next]_vars => HostInv'
<1> SUFFICES ASSUME HostInv, [Next]_vars
             PROVE  HostInv'
  OBVIOUS
<1>t. TypeOK'
  BY NextType
<1>r. \A r \in Requests : place[r] # "idle" => settings # NotRunning
  BY DEF HostInv
<1> USE DEF GoTo, Answer, Finish, Inside
<1>1. ASSUME NEW env \in Environments, Start(env) PROVE HostInv'
  <2>1. current = 0 /\ current' = 0 /\ InApp' = InApp
    BY <1>1 DEF Start, HostInv, SlotsMatchRequests, TypeOK, InApp
  <2>2. settings' \in Settings
    BY <1>1, AcceptedSettings DEF Start
  <2>3. settings' # NotRunning /\ settings'.inflight \in 1 .. 128
    BY <2>2, HostAssumption DEF Settings
  <2>4. current' = Cardinality(InApp')
    BY <2>1 DEF HostInv, SlotsMatchRequests
  <2>5. QED
    BY <1>t, <2>1, <2>3, <2>4 DEF HostInv, SlotsMatchRequests
<1>2. CASE Stop
  <2>1. InApp' = {}
    BY <1>2 DEF Stop, InApp
  <2>2. QED
    BY <1>2, <1>t, <2>1, FS_EmptySet DEF Stop, HostInv, SlotsMatchRequests
<1>3. ASSUME NEW r \in Requests, NEW q \in Request, Arrive(r, q) PROVE HostInv'
  BY <1>3, <1>t, OutsideSteps DEF Arrive
<1>4. ASSUME NEW r \in Requests, Refuse(r) \/ Saturated(r) \/ ReadResponse(r) PROVE HostInv'
  BY <1>4, <1>t, <1>r, OutsideSteps DEF Refuse, Saturated, ReadResponse
<1>5. ASSUME NEW r \in Requests, Admit(r) PROVE HostInv'
  <2>1. settings # NotRunning
    BY <1>5, <1>r DEF Admit
  <2>2. settings.inflight \in Nat
    BY <2>1 DEF HostInv, TypeOK, Settings
  <2>3. r \notin InApp /\ InApp' = InApp \cup {r}
    BY <1>5 DEF Admit, HostInv, TypeOK, InApp
  <2>4. SlotsMatchRequests'
    BY <1>5, <2>1, <2>2, <2>3, InAppCounts DEF Admit, HostInv, SlotsMatchRequests, TypeOK
  <2>5. QED
    BY <1>5, <1>t, <2>1, <2>4 DEF Admit, HostInv
<1>6. ASSUME NEW r \in Requests, AppResponds(r) PROVE HostInv'
  <2>1. InApp' = InApp
    BY <1>6 DEF AppResponds, HostInv, TypeOK, InApp
  <2>2. settings # NotRunning
    BY <1>6, <1>r DEF AppResponds
  <2>3. QED
    BY <1>6, <1>t, <2>1, <2>2 DEF AppResponds, HostInv, SlotsMatchRequests
<1>7. ASSUME NEW r \in Requests, AppReturns(r) \/ Leave(r) PROVE HostInv'
  BY <1>7, <1>t, LeavingSteps DEF AppReturns, Leave
<1>8. CASE UNCHANGED vars
  BY <1>8, <1>t DEF vars, HostInv, SlotsMatchRequests, InApp
<1>9. QED
  BY <1>1, <1>2, <1>3, <1>4, <1>5, <1>6, <1>7, <1>8 DEF Next, Middleware

(***************************************************************************)
(* The counter of the limiter is right at every moment.                    *)
(***************************************************************************)
THEOREM HostInvariant == Spec => []HostInv
<1>1. Init => HostInv
  <2> SUFFICES ASSUME Init PROVE HostInv
    OBVIOUS
  <2>1. InApp = {}
    BY DEF Init, InApp, Inside
  <2>2. TypeOK
    BY NoRequestType DEF Init, TypeOK, Codes
  <2>3. QED
    BY <2>1, <2>2, FS_EmptySet DEF Init, HostInv, SlotsMatchRequests
<1>2. HostInv /\ [Next]_vars => HostInv'
  BY NextInv
<1>3. QED
  BY <1>1, <1>2, PTL DEF Spec

(***************************************************************************)
(* The host's state is always well formed; what it runs with passed every  *)
(* check of its environment.                                               *)
(***************************************************************************)
THEOREM HostTypeCorrect == Spec => []TypeOK
<1>1. HostInv => TypeOK
  BY DEF HostInv
<1>2. QED
  BY <1>1, HostInvariant, PTL

(***************************************************************************)
(* No slot leaks and none is given back twice, for any number of           *)
(* connections, through responses, exceptions, cancellations and restarts. *)
(***************************************************************************)
THEOREM NoSlotLeaks == Spec => []SlotsMatchRequests
<1>1. HostInv => SlotsMatchRequests
  BY DEF HostInv
<1>2. QED
  BY <1>1, HostInvariant, PTL
=============================================================================

----------------------------- MODULE HostSettings ----------------------------
(***************************************************************************)
(* bootstrap/settings.py: the environment of an HTTP or SSE host and what  *)
(* load_http_settings and load_sse_settings make of it.  A variable that   *)
(* is not set has its default and is a value like any other; one that      *)
(* int() cannot read is NotANumber.                                        *)
(***************************************************************************)
EXTENDS Naturals

CONSTANTS
  Sse,         \* whether this is the SSE host
  BindHosts,   \* _ALLOWED_BIND_HOSTS
  Sites,       \* origins a browser may name
  Wildcard,    \* an entry of MCP_ALLOWED_ORIGINS with a star in it
  Blank,       \* MCP_ALLOWED_ORIGINS is empty; a list of commas only is {}
  NotANumber

ASSUME SettingsAssumption ==
  /\ Sse \in BOOLEAN
  /\ Wildcard \notin Sites
  /\ NotANumber \notin Nat

\* the values of MCP_TRANSPORT that the host of each kind takes
Transports == IF Sse THEN {"sse"} ELSE {"streamable_http", "streamable-http"}

BindHostOk(env) == env.host \in BindHosts

OriginsOk(env) == env.origins # Blank /\ Wildcard \notin env.origins

TcpPorts == 1 .. 65535
BodyLimits == 1024 .. 1048576

\* MUTANT of InLimits: the slots are not counted from one
InLimitsFromZero(env) ==
  /\ env.body \in BodyLimits
  /\ env.inflight \in 0 .. 128
  /\ env.port \in TcpPorts

InLimits(env) ==
  /\ env.body \in BodyLimits
  /\ env.inflight \in 1 .. 128
  /\ env.port \in TcpPorts

SessionsOk(env) == env.sessions \in 1 .. 64 /\ env.idle \in 30 .. 900

\* every check that fails raises, and the host does not start
Accepted(env) ==
  /\ env.transport \in Transports
  /\ BindHostOk(env) /\ OriginsOk(env) /\ InLimits(env)
  /\ Sse => SessionsOk(env)

\* what the host keeps of it for its requests
SettingsOf(env) ==
  [origins |-> env.origins, body |-> env.body, inflight |-> env.inflight,
   sessions |-> IF Sse THEN env.sessions ELSE 0]

Settings ==
  [origins : SUBSET Sites, body : BodyLimits, inflight : 1 .. 128, sessions : 0 .. 64]
=============================================================================

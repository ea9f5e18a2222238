------------------------------ MODULE MCHttpHost ------------------------------
(***************************************************************************)
(* Small instances of HttpHost: three connections, hosts with one slot or  *)
(* two, a session limit below the slot limit as in the defaults (16 and    *)
(* 32), and environments in which one variable is wrong.                   *)
(***************************************************************************)
EXTENDS HttpHost

CONSTANTS q1, q2, q3

Good == [transport |-> "sse", host |-> "127.0.0.1", port |-> 8001, origins |-> {"app"},
         body |-> 1024, inflight |-> 2, sessions |-> 1, idle |-> 30]

MCEnvironments ==
  {Good, [Good EXCEPT !.inflight = 1, !.origins = {}],
   [Good EXCEPT !.transport = "stdio"], [Good EXCEPT !.host = "public"]}
  \cup {[Good EXCEPT !.origins = o] : o \in {Blank, {Wildcard}, {"app", Wildcard}}}
  \cup {[Good EXCEPT !.body = n] : n \in {NotANumber, 1023, 1048577}}
  \cup {[Good EXCEPT !.inflight = n] : n \in {NotANumber, 0, 129}}
  \cup {[Good EXCEPT !.port = n] : n \in {NotANumber, 0, 65536}}
  \cup {[Good EXCEPT !.sessions = n] : n \in {NotANumber, 0, 65}}
  \cup {[Good EXCEPT !.idle = n] : n \in {NotANumber, 29, 901}}
===============================================================================

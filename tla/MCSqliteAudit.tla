---------------------------- MODULE MCSqliteAudit ----------------------------
(***************************************************************************)
(* A small instance of SqliteAudit: two executions of one call id in two   *)
(* processes, as a direct user of the use cases may issue them, and one    *)
(* recovery thread.                                                        *)
(***************************************************************************)
EXTENDS SqliteAudit, TLC

CONSTANTS c1, c2, r1, i1, h1, h2

MCCallOf == (c1 :> i1) @@ (c2 :> i1)
MCHostOf == (c1 :> h1) @@ (c2 :> h2) @@ (r1 :> h1)
=============================================================================

----------------------------- MODULE MCUseCases ------------------------------
(***************************************************************************)
(* Small instances of UseCases.  c1 and c2 run in different host           *)
(* processes on one database, c3 next to c1; r1 recovers in the process of *)
(* c1.  The three operations are spread over the calls.                    *)
(***************************************************************************)
EXTENDS UseCases, TLC

CONSTANTS c1, c2, c3, r1, i1, i2, i3, h1, h2

OwnIds == (c1 :> i1) @@ (c2 :> i2) @@ (c3 :> i3)
SharedId == (c1 :> i1) @@ (c2 :> i1) @@ (c3 :> i1)
TwoHosts == (c1 :> h1) @@ (c2 :> h2) @@ (c3 :> h1) @@ (r1 :> h1)
Mixed == (c1 :> "query_data") @@ (c2 :> "get_authorized_schema")
           @@ (c3 :> "list_authorized_datasets")
ListAndQuery == (c1 :> "list_authorized_datasets") @@ (c2 :> "query_data")
                  @@ (c3 :> "get_authorized_schema")

\* the part of a map that concerns the threads of this instance
On(S, f) == [x \in S |-> f[x]]
OwnIdsHere == On(Calls, OwnIds)
SharedIdHere == On(Calls, SharedId)
TwoHostsHere == On(Clients, TwoHosts)
MixedHere == On(Calls, Mixed)
ListAndQueryHere == On(Calls, ListAndQuery)
=============================================================================

----------------------------- MODULE AuditLedger -----------------------------
(***************************************************************************)
(* What the audit trail promises, whatever store keeps it: one entry per   *)
(* call id that is opened as STARTED, closed at most once by a terminal    *)
(* status, and never rewritten afterwards.  SqliteAudit is shown to        *)
(* implement this specification.                                           *)
(***************************************************************************)

CONSTANT CallIds        \* the call_id values a ledger can be asked about

VARIABLE ledger         \* the status of each call id, "ABSENT" before it opens

Terminal == {"SUCCEEDED", "REJECTED", "FAILED"}
RowStatus == {"ABSENT", "STARTED"} \cup Terminal

LedgerTypeOK == ledger \in [CallIds -> RowStatus]

LedgerInit == ledger = [i \in CallIds |-> "ABSENT"]

(***************************************************************************)
(* A call is entered before anything is done for it.                       *)
(***************************************************************************)
Open(i) ==
  /\ ledger[i] = "ABSENT"
  /\ ledger' = [ledger EXCEPT ![i] = "STARTED"]

(***************************************************************************)
(* The call itself reports how it ended: compare-and-set from STARTED.     *)
(***************************************************************************)
Close(i, t) ==
  /\ ledger[i] = "STARTED"
  /\ ledger' = [ledger EXCEPT ![i] = t]

(***************************************************************************)
(* A recovery pass fails any set of entries still open, in one step.       *)
(***************************************************************************)
Reap(S) ==
  /\ \A i \in S : ledger[i] = "STARTED"
  /\ ledger' = [i \in CallIds |-> IF i \in S THEN "FAILED" ELSE ledger[i]]

LedgerNext ==
  \/ \E i \in CallIds : Open(i)
  \/ \E i \in CallIds, t \in Terminal : Close(i, t)
  \/ \E S \in SUBSET CallIds : Reap(S)

LedgerSpec == LedgerInit /\ [][LedgerNext]_ledger

(***************************************************************************)
(* A closed entry keeps the status it was closed with, and an entry is     *)
(* never closed without having been open: the two halves of the STARTED    *)
(* compare-and-set of SqliteAuditAdapter.finish.                           *)
(***************************************************************************)
ClosedOnce ==
  [][\A i \in CallIds :
       /\ ledger[i] \in Terminal => ledger'[i] = ledger[i]
       /\ ledger[i] = "ABSENT" => ledger'[i] \in {"ABSENT", "STARTED"}
       /\ ledger[i] = "STARTED" => ledger'[i] # "ABSENT"]_ledger
=============================================================================

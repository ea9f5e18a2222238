--------------------------- MODULE MCAuditMigrator ---------------------------
(***************************************************************************)
(* Small instances of AuditMigrator: three hosts booting on one file (the  *)
(* default AUDIT_DB_PATH is shared), or hosts and an operator.             *)
(***************************************************************************)
EXTENDS AuditMigrator

CONSTANTS p1, p2, p3
=============================================================================

---------------------------- MODULE MCComposeRuns ----------------------------
(***************************************************************************)
(* Two runs, with the three attempts of the code.                          *)
(***************************************************************************)
EXTENDS ComposeRuns

CONSTANTS r1, r2
===============================================================================

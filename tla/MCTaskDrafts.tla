---------------------------- MODULE MCTaskDrafts ----------------------------
(***************************************************************************)
(* Small instances of TaskDrafts.                                          *)
(***************************************************************************)
EXTENDS TaskDrafts, TLC

CONSTANTS c1, c2, c3
=============================================================================

--------------------------- MODULE MCTeleopStream ---------------------------
(***************************************************************************)
(* Small instances of TeleopStream.                                        *)
(***************************************************************************)
EXTENDS TeleopStream, TLC

CONSTANTS v1, v2, g1, g2, t1, t2

\* The report that follows the first version is of another task.
OtherTask == (0 :> t1) @@ (1 :> t2)
=============================================================================

--------------------------- MODULE MCStatusStream ---------------------------
(***************************************************************************)
(* Small instances of StatusStream.                                        *)
(***************************************************************************)
EXTENDS StatusStream, TLC

CONSTANTS v1, v2, g1, g2
=============================================================================

------------------------------ MODULE MCUptime ------------------------------
(***************************************************************************)
(* Small instances of UptimeBuffer: a client for each robot.               *)
(***************************************************************************)
EXTENDS UptimeBuffer, TLC

CONSTANTS r1, r2, c1, c2

OneClientEach == [c \in Clients |-> IF c = c1 THEN r1 ELSE r2]
=============================================================================

--------------------------- MODULE MCOperatorLock ---------------------------
(***************************************************************************)
(* Small instances of OperatorLock: a page for each user.                  *)
(***************************************************************************)
EXTENDS OperatorLock, TLC

CONSTANTS p1, p2, u1, u2

OnePageEach == [p \in Pages |-> IF p = p2 THEN u2 ELSE u1]
=============================================================================

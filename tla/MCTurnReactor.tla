--------------------------- MODULE MCTurnReactor ---------------------------
(* Instances of TurnReactor for TLC. *)
EXTENDS TurnReactor

CONSTANTS t1, t2

OneTool  == {t1}
TwoTools == {t1, t2}
OneSig   == {1}
TwoSigs  == {1, 2}
=============================================================================

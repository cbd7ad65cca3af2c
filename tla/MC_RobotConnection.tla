------------------------- MODULE MC_RobotConnection -------------------------
(* Instances of RobotConnection for TLC.                                    *)
EXTENDS RobotConnection, TLC

CONSTANTS c1, c2, t1, t2

\* A complete login and one without an auth code.
Shapes == {Fields, {"ip", "port"}}

FullLogin == {Fields}

Symmetry == Permutations(Conns) \union Permutations(Callers)
=============================================================================

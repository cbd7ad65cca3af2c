----------------------------- MODULE MC_Status ------------------------------
(* An instance of Status for TLC: two of the seven status keys and one of   *)
(* the four cleaning keys.                                                  *)
EXTENDS Status, TLC

CONSTANTS h1, h2, r1

TwoStatusKeys == <<"workState", "battery">>
OneCleaningKey == <<"clearArea">>

Symmetry == Permutations(Handlers)
=============================================================================

----------------------------- MODULE MCKisClient -----------------------------
(* Instances of KisClient for TLC. *)
EXTENDS KisClient, TLC

CONSTANTS c1, c2

TwoCallers  == {c1, c2}
OneBaseline == {c1}
==============================================================================

------------------------------ MODULE MCEngineDay ------------------------------
(* Instances of EngineDay for TLC.                                            *)
EXTENDS EngineDay, TLC

CONSTANTS r1, r2

OneRequest  == {r1}
TwoRequests == {r1, r2}

RequestSymmetry == Permutations(TwoRequests)
===============================================================================

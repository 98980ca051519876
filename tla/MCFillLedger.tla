----------------------------- MODULE MCFillLedger -----------------------------
(* Instances of FillLedger for TLC.                                           *)
EXTENDS FillLedger, TLC

CONSTANTS a, b, c, p, q

TwoRows   == {a, b}
ThreeRows == {a, b, c}
OnePoller == {p}
TwoPollers == {p, q}

TwoSymmetry   == Permutations(TwoRows) \cup Permutations(TwoPollers)
RowSymmetry   == Permutations(TwoRows)
ThreeSymmetry == Permutations(ThreeRows)
===============================================================================

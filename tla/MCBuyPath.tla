------------------------------- MODULE MCBuyPath -------------------------------
(* Instances of BuyPath for TLC.                                              *)
EXTENDS BuyPath, TLC

CONSTANTS s1, s2, s3, x, y, k1, k2, k3

TwoSignals   == {s1, s2}
ThreeSignals == {s1, s2, s3}
TwoSymbols   == {x, y}
ThreeOrders  == {k1, k2, k3}

TwoSymmetry == Permutations(TwoSignals) \cup Permutations(TwoSymbols) \cup Permutations(ThreeOrders)
===============================================================================

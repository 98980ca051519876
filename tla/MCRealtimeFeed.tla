---------------------------- MODULE MCRealtimeFeed ----------------------------
(* Instances of RealtimeFeed for TLC. *)
EXTENDS RealtimeFeed, TLC

CONSTANTS c1, c2, r1, r2, r3

TwoCallers   == {c1, c2}
ThreeRunners == {r1, r2, r3}

\* Callers and runner ids are interchangeable.
FeedSymmetry == Permutations(TwoCallers) \cup Permutations(ThreeRunners)
===============================================================================

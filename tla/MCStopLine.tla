------------------------------ MODULE MCStopLine ------------------------------
(* Instances of StopLine for TLC. The prices, in ticks, step over every        *)
(* threshold of an entry at 200: 195 is its first stop, 202 triggers break     *)
(* even, 203 starts trailing, 204 is the target; two prices lie above it.      *)
EXTENDS StopLine, TLC

CONSTANTS id1, id2, tick, rest

TwoIds     == {id1, id2}
MCTicks    == {tick}
MCRests    == {rest}
MCPrices   == {194, 202, 205, 208}
MCEntries  == {200, 202}
IdSymmetry == Permutations(TwoIds)
===============================================================================

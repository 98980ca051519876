--------------------------- MODULE MCEodLiquidation ---------------------------
(* Instances of EodLiquidation for TLC.                                       *)
EXTENDS EodLiquidation, TLC

CONSTANTS sweep, post, x, y

OneRun     == {post}
TwoRuns    == {sweep, post}
OneSymbol  == {x}
TwoSymbols == {x, y}
NoSymbol   == {}
OneCarried == {y}

RunSymmetry    == Permutations(TwoRuns)
SymbolSymmetry == Permutations(TwoSymbols)
===============================================================================

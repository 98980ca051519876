------------------------------ MODULE MCExitPath ------------------------------
(* Instances of ExitPath for TLC. A cfg that gives tick, rest and direct one    *)
(* value has one task play these roles, one exit at a time.                    *)
EXTENDS ExitPath, TLC

CONSTANTS tick, rest, direct, r1, r2, k1, k2

MCTicks   == {tick}
MCRests   == {rest}
MCDirects == {direct}
TwoRows   == {r1, r2}
TwoOrders == {k1, k2}

\* Rows and order numbers are interchangeable.
RowSymmetry == Permutations(TwoRows)
TwoSymmetry == RowSymmetry \cup Permutations(TwoOrders)
===============================================================================

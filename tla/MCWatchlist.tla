----------------------------- MODULE MCWatchlist -----------------------------
(* Instances of Watchlist for TLC. *)
EXTENDS Watchlist, TLC

CONSTANTS x, y

TwoSymbols == {x, y}
==============================================================================

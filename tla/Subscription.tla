----------------------------- MODULE Subscription ------------------------------
(***************************************************************************)
(* What the realtime feed and the REST backup owe to the positions: the     *)
(* state that their promises are about, and the promises. Watchlist is the  *)
(* code that keeps them.                                                   *)
(***************************************************************************)

CONSTANT Symbols

VARIABLES
  managed,    \* PositionManager._positions
  list,       \* realtime_ws_manager._symbols
  feed,       \* ticks of the list come
  task,       \* where each task is, and the list it will install
  kept,       \* history: the list in force is the engine's, and no position outside
              \* it came after it was computed
  due         \* history: positions whose price has not been judged for a while

\* No restart of the feed is under way.
Quiet == \A t \in DOMAIN task : task[t].pc = "idle"

\* Holdings are never cut off (_subscription_symbols), as far as the lists of the engine
\* go: when no restart of the feed is under way and the list in force is the engine's,
\* every position ticks except those that came after the list was computed, by a buy
\* or by a sync whose own list was installed before an older one.
HoldingsWatched == Quiet /\ kept => feed /\ managed \subseteq list

\* Whatever the list, and however the other symbols tick, the price of a position that
\* has not been judged for a while is judged (check_exits_via_rest), or it is sold.
JudgedInTime(x)    == x \in due ~> x \notin due
EveryHoldingJudged == \A x \in Symbols : JudgedInTime(x)
===============================================================================

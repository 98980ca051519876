------------------------------- MODULE MarketDay -------------------------------
(***************************************************************************)
(* What the intraday regime monitor owes to the buys of a day: the state    *)
(* that the crash defence and the SET in force are about, and what is said  *)
(* of them. EntryDefense is the code that writes it.                        *)
(***************************************************************************)

VARIABLES
  day,
  app,        \* regime_set_applications: the row in force today
  defence,    \* day of risk.flash_crash_defense_date, 0 when never set
  crashed,    \* history: the market crashed at some time today
  foreign,    \* history: a check of today took the KOSPI of an earlier day for today's
  judged      \* history: the SET the last check found right

\* The flash crash defence, which keeps new buys out for the whole day, is raised on a
\* day the market crashed - or when KIS did not answer and the row the monitor had left
\* in market_snapshots on an earlier day stood for the market.
DefenceHasCause == defence = day => crashed \/ foreign

\* A SET the monitor switched to is the one its last check found right, although each
\* check compares with what it read before an await and activations and restarts come
\* in between.
JudgedInForce == app.trigger = "intraday" => app.set = judged

\* The docstring of is_flash_crash_defense_active: the flag is of today and lifts itself
\* on the next trading day, so it is never up on a day without a crash.
DefenceOfToday == defence = day => crashed
===============================================================================

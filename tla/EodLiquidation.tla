---------------------------- MODULE EodLiquidation ----------------------------
(***************************************************************************)
(* The end-of-day liquidation: run_eod_liquidation reads the account, sells *)
(* every holding, checks the executions after a while, sells the residue    *)
(* once more and reports what is left. The 15:12 sweep, post-processing and  *)
(* the operator's liquidate-all run it, stop-losses sell beside it.         *)
(*                                                                         *)
(* Every action is the code a task runs from one await to the next, except  *)
(* that execute_sell is one await from its guards to its row (ExitPath is   *)
(* its detail: the clamp, the retries, partial quantities). A symbol is     *)
(* held or not; its sell orders at KIS compete for one quantity, so at most  *)
(* one of them is live. What the position manager or the database shows     *)
(* when KIS does not answer is any set of symbols.                          *)
(***************************************************************************)
EXTENDS Naturals, FiniteSets

CONSTANTS
  Symbols,
  Runs,         \* calls of run_eod_liquidation
  Exit,         \* the task of PositionManager's sells
  Carried,      \* symbols held since before today, of which as much was sold today
                \* as was bought today
  MaxRestarts,  \* bound on process restarts
  None

Tasks == Runs \cup {Exit}

ASSUME EodAssumption ==
  /\ Exit \notin Runs
  /\ None \notin Symbols
  /\ Carried \subseteq Symbols
  /\ MaxRestarts \in Nat

VARIABLES
  held,      \* symbols the account holds
  live,      \* symbols with a sell order that may execute
  executed,  \* symbols with an executed, or partly executed, sell of today
  rows,      \* status of the sell row each task saved for each symbol
  cool,      \* symbols in the cooldown of a failed sell
  selling,   \* the symbol each task awaits a sell of
  run,       \* where each run is
  alert,     \* the CRITICAL alert: unacknowledged, and the symbols it named
  swallowed, \* history: symbols whose report met an unacknowledged alert
  late,      \* history: symbols bought since each run last heard from KIS
  restarts

broker == <<held, live, executed>>
sells  == <<rows, cool, selling>>
report == <<alert, swallowed>>
vars   == <<held, live, executed, rows, cool, selling, run, alert, swallowed, late, restarts>>

-------------------------------------------------------------------------------
(* Data *)

\* "lookup": the first balance; "sell", "retry": the two rounds of sells; "check",
\* "recheck": the balance fifty seconds after each.
Places == {"new", "lookup", "sell", "check", "retry", "recheck", "done", "lost"}

Run == [pc    : Places,
        todo  : SUBSET Symbols,    \* positions the round has still to sell
        found : SUBSET Symbols,    \* residuals of the check
        tried : SUBSET Symbols,    \* history: residuals sent to KIS again, or found sold
        blind : BOOLEAN]           \* history: no balance to verify the sells with

NewRun == [pc |-> "new", todo |-> {}, found |-> {}, tried |-> {}, blind |-> FALSE]

RowStatuses == {"none", "submitted", "uncertain"}   \* of a row that blocks; else "none"

\* find_active_sell_order
DuplicateSell(x) == \E t \in Tasks : rows[t][x] # "none"

\* load_order_net_positions counts the orders of today, carried-over shares are none.
NetClosed(x) == x \in Carried

-------------------------------------------------------------------------------
(* execute_sell *)

Free(t) == selling[t] = None

\* The sell of x is over for t, whatever came of it.
Sold(t, x) ==
  /\ selling' = [selling EXCEPT ![t] = None]
  /\ run' = IF t \in Runs
              THEN [run EXCEPT ![t].todo = @ \ {x}]
              ELSE run

SoldAfterAsking(t, x) ==
  /\ selling' = [selling EXCEPT ![t] = None]
  /\ run' = IF t \in Runs
              THEN [run EXCEPT ![t].todo = @ \ {x},
                               ![t].tried = IF run[t].pc = "retry" THEN @ \cup {x} ELSE @]
              ELSE run

SkippedIsKept(t, x) ==                                                  \* mutant
  \/ /\ x \in cool \/ DuplicateSell(x) \/ NetClosed(x)
     /\ UNCHANGED <<selling, run>>
  \/ /\ x \notin cool
     /\ ~DuplicateSell(x)
     /\ ~NetClosed(x)
     /\ selling' = [selling EXCEPT ![t] = x]
     /\ UNCHANGED run

\* The guards, up to the first await.
Sells(t, x) ==
  \/ /\ x \in cool \/ DuplicateSell(x) \/ NetClosed(x)
     /\ Sold(t, x)
  \/ /\ x \notin cool
     /\ ~DuplicateSell(x)
     /\ ~NetClosed(x)
     /\ selling' = [selling EXCEPT ![t] = x]
     /\ UNCHANGED run

SavedAsFailed(t, x, status) ==                                          \* mutant
  rows' = [rows EXCEPT ![t][x] = IF x \in cool THEN "failed" ELSE status]
Saved(t, x, status) == rows' = [rows EXCEPT ![t][x] = status]

CanBeAccepted(x) == x \in held \ live

\* The clamp says that nothing is held, as it was up to fifteen seconds ago.
NotHeld(t, x) ==
  /\ x \notin held \/ \E r \in Runs : x \in late[r]
  /\ SoldAfterAsking(t, x)
  /\ UNCHANGED <<live, rows, cool>>

\* Accepted, with a number in the answer or without.
Accepted(t, x) ==
  /\ CanBeAccepted(x)
  /\ live' = live \cup {x}
  /\ \E status \in {"submitted", "uncertain"} : Saved(t, x, status)
  /\ cool' = cool \ {x}
  /\ SoldAfterAsking(t, x)

\* Refused with rt_cd # 0: an uncertain row and a cooldown, unless the number of
\* another executed sell of the symbol is taken for its own.
Rejected(t, x) ==
  /\ \/ /\ Saved(t, x, "uncertain")
        /\ cool' = cool \cup {x}
     \/ /\ x \in executed
        /\ Saved(t, x, "submitted")
        /\ cool' = cool \ {x}
  /\ SoldAfterAsking(t, x)
  /\ UNCHANGED live

\* Every order_cash raised: a failed row, which blocks nobody.
Failed(t, x) ==
  /\ cool' = cool \cup {x}
  /\ SoldAfterAsking(t, x)
  /\ UNCHANGED <<live, rows>>

SellReturns(t) ==
  LET sold == selling[t]
  IN
  /\ sold # None
  /\ NotHeld(t, sold) \/ Accepted(t, sold) \/ Rejected(t, sold) \/ Failed(t, sold)
  /\ UNCHANGED <<held, executed, report, late, restarts>>

\* An answer is lost, and order_cash is called again.
SellLost(t) ==
  LET sold == selling[t]
  IN
  /\ sold # None
  /\ CanBeAccepted(sold)
  /\ live' = live \cup {sold}
  /\ UNCHANGED <<held, executed, sells, run, report, late, restarts>>

\* A stop, a target or the forced exit of the position manager.
Exits(x) ==
  /\ Free(Exit)
  /\ Sells(Exit, x)
  /\ selling' # selling
  /\ UNCHANGED <<broker, rows, cool, report, late, restarts>>

-------------------------------------------------------------------------------
(* run_eod_liquidation *)

\* create_integrity_alert_once: not while one of the title is unacknowledged.
Reported(S) ==
  IF alert.open
    THEN /\ swallowed' = swallowed \cup S
         /\ UNCHANGED alert
    ELSE /\ alert' = [open |-> TRUE, named |-> alert.named \cup S]
         /\ UNCHANGED swallowed

Heard(t) == late' = [late EXCEPT ![t] = {}]

Starts(t) ==
  /\ run[t].pc = "new"
  /\ run' = [run EXCEPT ![t].pc = "lookup"]
  /\ UNCHANGED <<broker, sells, report, late, restarts>>

\* The positions to sell: none ends the run.
Begins(t, S, blind) ==
  run' = [run EXCEPT ![t].pc = IF S = {} THEN "done" ELSE "sell", ![t].todo = S,
                     ![t].blind = (blind /\ S = {})]

\* Three failures in a row: what the position manager or else the database shows,
\* less the positions that were imported.
LookupEnds(t) ==
  /\ run[t].pc = "lookup"
  /\ \/ Begins(t, held, FALSE) /\ Heard(t)
     \/ \E S \in SUBSET Symbols : Begins(t, S, TRUE) /\ UNCHANGED late
  /\ UNCHANGED <<broker, sells, report, restarts>>

\* The next position: one with a sell under way is skipped here already.
SellsNext(t) ==
  /\ run[t].pc \in {"sell", "retry"}
  /\ Free(t)
  /\ \E x \in run[t].todo : Sells(t, x)
  /\ UNCHANGED <<broker, rows, cool, report, late, restarts>>

\* The round is over: fifty seconds, then the balance.
RoundEnds(t) ==
  /\ run[t].pc \in {"sell", "retry"}
  /\ run[t].todo = {}
  /\ run' = [run EXCEPT ![t].pc = IF @ = "sell" THEN "check" ELSE "recheck"]
  /\ UNCHANGED <<broker, sells, report, late, restarts>>

\* _verify_and_retry_eod_fills: without a balance nothing is retried, nor reported.
Checked(t) ==
  /\ run[t].pc = "check"
  /\ \/ /\ run' = [run EXCEPT ![t].pc = IF held = {} THEN "done" ELSE "retry",
                              ![t].todo = held, ![t].found = held]
        /\ Heard(t)
     \/ /\ run' = [run EXCEPT ![t].pc = "done", ![t].blind = TRUE]
        /\ UNCHANGED late
  /\ UNCHANGED <<broker, sells, report, restarts>>

RecheckedOnlyIfAnswered(t) ==                                           \* mutant
  /\ run[t].pc = "recheck"
  /\ run' = [run EXCEPT ![t].pc = "done"]
  /\ \/ /\ IF held = {} THEN UNCHANGED report ELSE Reported(held)
        /\ Heard(t)
     \/ UNCHANGED <<report, late>>
  /\ UNCHANGED <<broker, sells, restarts>>

\* What is left is reported; without a balance, what the check had found.
Rechecked(t) ==
  /\ run[t].pc = "recheck"
  /\ run' = [run EXCEPT ![t].pc = "done"]
  /\ \/ /\ IF held = {} THEN UNCHANGED report ELSE Reported(held)
        /\ Heard(t)
     \/ /\ Reported(run[t].found)
        /\ UNCHANGED late
  /\ UNCHANGED <<broker, sells, restarts>>

-------------------------------------------------------------------------------
(* KIS, the poller, the reconciliation, the operator, the clock *)

Executes(x) ==
  /\ x \in live
  /\ executed' = executed \cup {x}
  /\ \/ held' = held \ {x} /\ live' = live \ {x}
     \/ UNCHANGED <<held, live>>
  /\ UNCHANGED <<sells, run, report, late, restarts>>

Buys(x) ==
  /\ held' = held \cup {x}
  /\ late' = [t \in Runs |-> late[t] \cup {x}]
  /\ UNCHANGED <<live, executed, sells, run, report, restarts>>

\* The poller settles a row whose order executed, partly or not; the reconciliation
\* of every three minutes settles or cancels a row without a number.
Settles(t, x) ==
  /\ \/ rows[t][x] = "submitted" /\ x \in executed
     \/ rows[t][x] = "uncertain"
  /\ Saved(t, x, "none")
  /\ UNCHANGED <<broker, cool, selling, run, report, late, restarts>>

Cools(x) ==
  /\ x \in cool
  /\ cool' = cool \ {x}
  /\ UNCHANGED <<broker, rows, selling, run, report, late, restarts>>

Acknowledges ==
  /\ alert.open
  /\ alert' = [alert EXCEPT !.open = FALSE]
  /\ UNCHANGED <<broker, sells, run, swallowed, late, restarts>>

\* A run under way is not taken up again.
Restart ==
  /\ restarts < MaxRestarts
  /\ restarts' = restarts + 1
  /\ cool' = {}
  /\ selling' = [t \in Tasks |-> None]
  /\ run' = [t \in Runs |-> IF run[t].pc \in {"new", "done"}
                              THEN run[t]
                              ELSE [NewRun EXCEPT !.pc = "lost"]]
  /\ UNCHANGED <<broker, rows, report, late>>

\* An earlier run of the day may have left an alert, and the day's sells executions.
Init ==
  /\ held \in SUBSET Symbols
  /\ live = {}
  /\ executed \in SUBSET Symbols
  /\ rows = [t \in Tasks |-> [x \in Symbols |-> "none"]]
  /\ cool = {}
  /\ selling = [t \in Tasks |-> None]
  /\ run = [t \in Runs |-> NewRun]
  /\ alert \in [open : BOOLEAN, named : {{}}]
  /\ swallowed = {}
  /\ late = [t \in Runs |-> {}]
  /\ restarts = 0

\* What a run does once it was started.
Continues(t) ==
  \/ LookupEnds(t)
  \/ SellsNext(t)
  \/ RoundEnds(t)
  \/ Checked(t)
  \/ Rechecked(t)

Next ==
  \/ \E t \in Runs : Starts(t) \/ Continues(t)
  \/ \E t \in Tasks : SellReturns(t) \/ SellLost(t)
  \/ \E t \in Tasks, x \in Symbols : Settles(t, x)
  \/ \E x \in Symbols : Exits(x) \/ Executes(x) \/ Buys(x) \/ Cools(x)
  \/ Acknowledges
  \/ Restart

Spec == Init /\ [][Next]_vars

\* The cron fires each run, and what a run awaits returns.
GoesOn(t) == WF_vars(Starts(t)) /\ WF_vars(Continues(t)) /\ WF_vars(SellReturns(t))
RunsGoOn  == \A t \in Runs : GoesOn(t)

FairSpec == Spec /\ RunsGoOn

-------------------------------------------------------------------------------
TypeOK ==
  /\ \A S \in {held, live, executed, cool, swallowed} : S \subseteq Symbols
  /\ rows \in [Tasks -> [Symbols -> RowStatuses]]
  /\ selling \in [Tasks -> Symbols \cup {None}]
  /\ run \in [Runs -> Run]
  /\ alert \in [open : BOOLEAN, named : SUBSET Symbols]
  /\ late \in [Runs -> SUBSET Symbols]
  /\ restarts \in 0 .. MaxRestarts

\* Whatever a run met - refused, failed or lost sells, a balance that failed at the
\* start or at the end - a symbol it leaves held was named in the alert, or its report
\* met one that nobody had acknowledged, unless the run had no balance to verify with
\* or the symbol was bought since.
AccountedFor ==
  \A t \in Runs :
    run[t].pc = "done" /\ ~run[t].blind =>
      held \subseteq alert.named \cup swallowed \cup late[t]

\* Every holding of a run's start is sold, reported, or the run lost its sight or
\* the process: no run hangs on a sell.
Settled(t, x) ==
  run[t].pc = "lookup" /\ x \in held ~>
    \/ x \notin held \/ x \in alert.named \cup swallowed \cup late[t]
    \/ run[t].blind \/ run[t].pc = "lost"
SoldOrReported == \A t \in Runs, x \in Symbols : Settled(t, x)

\* A round of sells comes to its end.
RoundEnded(t) == run[t].pc \in {"sell", "retry"} ~> run[t].pc \notin {"sell", "retry"}
RoundsOver    == \A t \in Runs : RoundEnded(t)

\* A run that awaits a balance can go on with what comes of it.
RunsCanGo ==
  \A t \in Runs : run[t].pc \in {"lookup", "check", "recheck"} => ENABLED <<Continues(t)>>_vars

\* The docstring of _verify_and_retry_eod_fills: what is left is sold once more. At
\* the second check a residual was sent to KIS again, is sold, or has a live order.
ResidualsAreResold ==
  \A t \in Runs :
    run[t].pc = "recheck" => run[t].found \cap held \subseteq run[t].tried \cup live \cup late[t]
===============================================================================

------------------------------- MODULE StopLine -------------------------------
(***************************************************************************)
(* The stop line of one symbol: how PositionManager raises it with the     *)
(* price, what it saves in position_stop_states, and what a restart makes  *)
(* of that. ExitPath models what the sell itself does; here a sell only    *)
(* has the outcomes its caller tells apart.                                *)
(*                                                                         *)
(* Every action is the code a task runs from one await to the next. Prices *)
(* are whole ticks, rates are per mille and levels are in thousandths of a *)
(* tick, so all comparisons are exact. One rule is in force for all        *)
(* positions. The lowest price since entry and the position's quantity     *)
(* move no stop and are left out.                                          *)
(***************************************************************************)
EXTENDS Integers, FiniteSets

CONSTANTS
  Ids,          \* position_id: a new one for every registration
  Ticks,        \* tasks that run on_tick
  Rests,        \* tasks that run check_exits_via_rest
  Top,          \* highest price
  Prices,       \* prices the market trades at
  Entries,      \* prices positions are entered at
  Loss,         \* initial_stop_loss
  Activate,     \* trailing_activate_profit
  Trail,        \* trailing_stop_rate
  TrailRates,   \* Trail, and Trail tightened in a down transition
  Breakeven,    \* engine.breakeven_mode = enforce
  Trigger,      \* engine.breakeven_trigger_rate
  Lock,         \* engine.breakeven_lock_rate
  Target,       \* scaleout_target_rate
  MaxRestarts,  \* bound on process restarts
  None          \* "no position"

Tasks == Ticks \cup Rests

ASSUME PriceAssumption   == Top \in Nat \ {0} /\ Prices \cup Entries \subseteq 1 .. Top
ASSUME RateAssumption    == /\ Loss \in 0 .. 1000
                            /\ Trail \in TrailRates
                            /\ TrailRates \subseteq 0 .. Trail
                            /\ Trail \in 0 .. 1000
                            /\ {Activate, Target} \subseteq Nat
\* A trigger of 0 is read as the default, and a lock beyond the trigger would put
\* the stop above the price that moves it.
ASSUME LockAssumption    == /\ Breakeven \in BOOLEAN
                            /\ Trigger \in Nat \ {0}
                            /\ Lock \in 0 .. Trigger
ASSUME RestartAssumption == MaxRestarts \in Nat
ASSUME NoneAssumption    == None \notin Ids

VARIABLES
  current,   \* position_id of _positions[symbol], or None
  dict,      \* the position dicts, also those a task still holds after removal
  db,        \* position_stop_states
  latest,    \* its row with the newest last_updated_at
  closing,   \* symbol \in _closing
  task,      \* what each task is doing
  reached,   \* history: the highest stop the holding had since it was bought
  restarts

vars == <<current, dict, db, latest, closing, task, reached, restarts>>

-------------------------------------------------------------------------------
Level    == 0 .. (1000 * Top)
StopRow  == [entry : 1 .. Top, high : 1 .. Top, initial : Level, active : Level,
             trailing : BOOLEAN, harvested : BOOLEAN]
NoRow    == [entry |-> 0, high |-> 0, initial |-> 0, active |-> 0,
             trailing |-> FALSE, harvested |-> FALSE]

Job  == [pc : {"idle", "price", "target", "exit", "part", "all"},
         id : Ids \cup {None}, price : 0 .. Top]
Idle == [pc |-> "idle", id |-> None, price |-> 0]

AtLeast(m, n) == IF n > m THEN n ELSE m

InitialStop(e)          == e * (1000 - Loss)
TrailStopAbove(h, rate) == h * (1000 + rate)                            \* mutant
TrailStop(h, rate)      == h * (1000 - rate)
BreakevenStop(e, h) ==
  IF Breakeven /\ 1000 * h >= e * (1000 + Trigger) THEN e * (1000 + Lock) ELSE 0

-------------------------------------------------------------------------------
(* Registration and removal *)

Saved(i, p) == db' = [db EXCEPT ![i] = p] /\ latest' = i

HarvestedToday == \E i \in Ids : db[i].harvested

NewPosition(e) == [entry |-> e, high |-> e, initial |-> InitialStop(e),
                   active |-> InitialStop(e), trailing |-> FALSE,
                   harvested |-> HarvestedToday]

\* add_position overwrites what _positions holds for the symbol.
AddPosition(i, e) ==
  /\ db[i] = NoRow
  /\ current' = i
  /\ dict' = [dict EXCEPT ![i] = NewPosition(e)]
  /\ Saved(i, NewPosition(e))
  /\ closing' = FALSE

\* A submitted buy, or a holding imported by the account sync.
Register(i) ==
  /\ \E e \in Entries : AddPosition(i, e)
  /\ reached' = dict'[i].active
  /\ UNCHANGED <<task, restarts>>

\* The account sync finds the holding gone.
Remove ==
  /\ current # None
  /\ current' = None
  /\ closing' = FALSE
  /\ reached' = 0
  /\ UNCHANGED <<dict, db, latest, task, restarts>>

-------------------------------------------------------------------------------
(* _process_price *)

\* The stop only ever counts up from what it was.
RaisedFromInitial(p, trail, be) == AtLeast(AtLeast(p.initial, trail), be)   \* mutant
Raised(p, trail, be) == AtLeast(AtLeast(AtLeast(p.active, p.initial), trail), be)

\* _update_trailing on dict p.
Updated(p, price, rate) ==
  LET high     == AtLeast(p.high, price)
      trailing == p.trailing \/ 1000 * price >= p.entry * (1000 + Activate)
  IN  [p EXCEPT !.high = high,
                !.trailing = trailing,
                !.active = Raised(p, IF trailing THEN TrailStop(high, rate) ELSE 0,
                                  BreakevenStop(p.entry, high))]

\* The row is saved when the update moved something.
MovedHigh(p, q) == q.high > p.high                                      \* mutant
Moved(p, q) == q.high > p.high \/ q.trailing # p.trailing \/ q.active > p.active

Reach(i, level) == reached' = IF current' = i THEN AtLeast(reached, level) ELSE reached

\* Task t has a price of position i: the trailing state moves first, then a price
\* at the stop or the forced exit time sells everything, a price at the target
\* starts the scale-out (the account target is awaited next), and any other
\* price only moved the stop.
ProcessPriceAt(t, i, price, rate) ==
  LET p == dict[i]
      q == Updated(p, price, rate)
  IN
  /\ dict' = [dict EXCEPT ![i] = q]
  /\ IF Moved(p, q) THEN Saved(i, q) ELSE UNCHANGED <<db, latest>>
  /\ UNCHANGED <<current, restarts>>
  /\ Reach(i, q.active)
  /\ \/ /\ closing' = TRUE                       \* also at any price past the forced time
        /\ task' = [task EXCEPT ![t] = [pc |-> "exit", id |-> i, price |-> price]]
     \/ /\ 1000 * price > q.active
        /\ ~q.harvested
        /\ ~closing
        /\ 1000 * price >= q.entry * (1000 + Target)
        /\ task' = [task EXCEPT ![t] = [pc |-> "target", id |-> i, price |-> price]]
        /\ UNCHANGED closing
     \/ /\ 1000 * price > q.active
        /\ task' = [task EXCEPT ![t] = Idle]
        /\ UNCHANGED closing

ProcessPrice(t, i, price) == \E rate \in TrailRates : ProcessPriceAt(t, i, price, rate)

OnTick(t) ==
  /\ task[t] = Idle
  /\ current # None
  /\ ~closing
  /\ \E price \in Prices : ProcessPrice(t, current, price)

\* check_exits_via_rest picks the dict, awaits its price, and processes it
\* whatever became of the position meanwhile.
RestPick(t) ==
  /\ task[t] = Idle
  /\ current # None
  /\ ~closing
  /\ task' = [task EXCEPT ![t] = [pc |-> "price", id |-> current, price |-> 0]]
  /\ UNCHANGED <<current, dict, db, latest, closing, reached, restarts>>

RestPrice(t) ==
  /\ task[t].pc = "price"
  /\ \/ \E price \in Prices : ProcessPrice(t, task[t].id, price)
     \/ /\ task' = [task EXCEPT ![t] = Idle]       \* no price
        /\ UNCHANGED <<current, dict, db, latest, closing, reached, restarts>>

-------------------------------------------------------------------------------
(* _scaleout_check after its first await, and the end of the sells *)

\* The dict is marked before the sell; a ratio of 1 sells everything.
Harvest(t) ==
  /\ task[t].pc = "target"
  /\ \/ \E part \in {"part", "all"} :
          /\ dict' = [dict EXCEPT ![task[t].id].harvested = TRUE]
          /\ task' = [task EXCEPT ![t].pc = part]
          /\ closing' = (closing \/ part = "all")
     \/ /\ task' = [task EXCEPT ![t] = Idle]       \* int(qty * ratio) = 0
        /\ UNCHANGED <<dict, closing>>
  /\ UNCHANGED <<current, db, latest, reached, restarts>>

\* remove_position goes by symbol, whichever dict the task holds.
Gone == current' = None /\ closing' = FALSE /\ reached' = 0

\* An exit: sold, or probably sold (no order number); refused; or skipped behind
\* another sell, which leaves the closing mark where it is.
ExitDone(t) ==
  /\ task[t].pc = "exit"
  /\ task' = [task EXCEPT ![t] = Idle]
  /\ \/ Gone
     \/ closing' \in {closing, FALSE} /\ UNCHANGED <<current, reached>>
  /\ UNCHANGED <<dict, db, latest, restarts>>

\* The rest of the position turns into a trailing runner.
RunnerFromHere(p, price) ==                                             \* mutant
  [p EXCEPT !.high = AtLeast(p.high, price), !.trailing = TRUE,
            !.active = AtLeast(p.initial, TrailStop(price, Trail))]
Runner(p, price) ==
  LET high == AtLeast(p.high, price)
  IN  [p EXCEPT !.high = high,
                !.trailing = TRUE,
                !.active = AtLeast(AtLeast(p.active, p.initial), TrailStop(high, Trail))]

HarvestSold(t) ==
  LET i == task[t].id
      p == Runner(dict[i], task[t].price)
  IN
  /\ task[t].pc = "part"
  /\ dict' = [dict EXCEPT ![i] = p]
  /\ Saved(i, [p EXCEPT !.harvested = TRUE])
  /\ task' = [task EXCEPT ![t] = Idle]
  /\ UNCHANGED <<current, closing, restarts>>
  /\ Reach(i, p.active)

\* Everything sold, or no order number: the mark is saved, and the position goes
\* unless KIS refused the order.
HarvestPersisted(t) ==
  /\ task[t].pc \in {"part", "all"}
  /\ Saved(task[t].id, [dict[task[t].id] EXCEPT !.harvested = TRUE])
  /\ task' = [task EXCEPT ![t] = Idle]
  /\ \/ Gone
     \/ closing' = FALSE /\ UNCHANGED <<current, reached>>
  /\ UNCHANGED <<dict, restarts>>

HarvestRefused(t) ==
  /\ task[t].pc \in {"part", "all"}
  /\ dict' = [dict EXCEPT ![task[t].id].harvested = FALSE]
  /\ task' = [task EXCEPT ![t] = Idle]
  /\ closing' = FALSE
  /\ \/ UNCHANGED <<current, reached>>
     \/ current' = None /\ reached' = 0             \* KIS holds nothing
  /\ UNCHANGED <<db, latest, restarts>>

-------------------------------------------------------------------------------
\* The process dies and starts again. The position is restored with the entry
\* price of the newest stop state, or left to the account sync to import. The
\* newest entry is all that is read of the stop.
Restart ==
  /\ restarts < MaxRestarts
  /\ restarts' = restarts + 1
  /\ task' = [t \in Tasks |-> Idle]
  /\ \/ /\ latest # None
        /\ \E i \in Ids : AddPosition(i, db[latest].entry)
        /\ UNCHANGED reached
     \/ /\ current' = None
        /\ closing' = FALSE
        /\ reached' = 0
        /\ UNCHANGED <<dict, db, latest>>

Init ==
  /\ current = None
  /\ dict = [i \in Ids |-> NoRow]
  /\ db = [i \in Ids |-> NoRow]
  /\ latest = None
  /\ closing = FALSE
  /\ task = [t \in Tasks |-> Idle]
  /\ reached = 0
  /\ restarts = 0

Next ==
  \/ \E i \in Ids : Register(i)
  \/ Remove
  \/ \E t \in Ticks : OnTick(t)
  \/ \E t \in Rests : RestPick(t) \/ RestPrice(t)
  \/ \E t \in Tasks :
       \/ Harvest(t)
       \/ ExitDone(t)
       \/ HarvestSold(t)
       \/ HarvestPersisted(t)
       \/ HarvestRefused(t)
  \/ Restart

Spec == Init /\ [][Next]_vars

-------------------------------------------------------------------------------
TypeOK ==
  /\ current \in Ids \cup {None}
  /\ dict \in [Ids -> StopRow \cup {NoRow}]
  /\ db \in [Ids -> StopRow \cup {NoRow}]
  /\ latest \in Ids \cup {None}
  /\ closing \in BOOLEAN
  /\ task \in [Tasks -> Job]
  /\ reached \in Level
  /\ restarts \in 0 .. MaxRestarts

\* stop_price_can_only_increase, while a position stays registered: no tick, REST
\* price or scale-out, each working on what it captured before its await, lowers
\* the stop of the position.
StopNeverLowered ==
  [][\A i \in Ids : current = i /\ current' = i => dict'[i].active >= dict[i].active]_vars

\* A position that trails keeps its stop within the trailing rate of its high,
\* and break-even protection once triggered is never lost, whether a tick, a
\* REST price or the end of a scale-out moved the high.
StopFollowsHigh ==
  current # None =>
    LET p == dict[current]
    IN  /\ p.active >= p.initial
        /\ p.trailing => p.active >= TrailStop(p.high, Trail)
        /\ p.active >= BreakevenStop(p.entry, p.high)

\* Whatever the interleaving, the saved stop state of the managed position is the
\* one in memory: a crash loses no move of the stop.
StopSaved ==
  current # None =>
    /\ db[current].entry = dict[current].entry
    /\ db[current].high = dict[current].high
    /\ db[current].active = dict[current].active
    /\ db[current].trailing = dict[current].trailing

\* The stop of a holding is never below one it had, restarts included ("the stop
\* line is never lowered", the module's docstring says).
StopSurvivesRestart == current # None => dict[current].active >= reached
===============================================================================

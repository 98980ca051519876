------------------------------- MODULE ExitPath -------------------------------
(***************************************************************************)
(* The exit path of one managed symbol: PositionManager decides to sell,   *)
(* OrderExecutor.execute_sell submits, the account sync, the fill poller   *)
(* and the intraday reconciliation repair what the two believe, and the    *)
(* process may restart.                                                    *)
(*                                                                         *)
(* The engine is one asyncio loop: code between two awaits is atomic, and  *)
(* every action below is the code a task runs from one await to the next.  *)
(* All tables and sets of the code are keyed by symbol, and no guard of    *)
(* this path relates two symbols, so one symbol is modelled.               *)
(*                                                                         *)
(* Prices are abstracted to what a tick decides (exit, harvest, nothing):  *)
(* StopLine models the prices. The database rows of failed orders, which   *)
(* no guard reads, are left out. risk.partial_fill_reorder_enabled is off: *)
(* FillLedger models the remainder reorder. The poll and the intraday      *)
(* reconciliation read KIS and write their rows in one action here:        *)
(* FillLedger models the awaits of the poll.                               *)
(***************************************************************************)
EXTENDS Integers, FiniteSets, FiniteSetsExt

CONSTANTS
  Ticks,        \* tasks that run PositionManager.on_tick (realtime feed)
  Rests,        \* tasks that run check_exits_via_rest (REST stop backup)
  Directs,      \* tasks that call execute_sell directly (S9, API, replacement)
  Rows,         \* ids of trading_orders rows of side "sell"
  Orders,       \* KIS order numbers
  Lot,          \* shares held at the start
  BuyQty,       \* filled buys of the symbol today: Lot, or 0 for a carried position
  ClampEnabled, \* setting engine.sell_kis_qty_clamp_enabled
  MaxRestarts,  \* bound on process restarts
  NoOrder       \* "no KIS order number"

Tasks == Ticks \cup Rests \cup Directs

ASSUME LotAssumption == Lot \in Nat \ {0}
ASSUME BuyAssumption == BuyQty \in {0, Lot}
ASSUME NoOrderAssumption == NoOrder \notin Orders
ASSUME ClampAssumption == ClampEnabled \in BOOLEAN
ASSUME RestartAssumption == MaxRestarts \in Nat

VARIABLES
  \* memory of the process
  pos,        \* PositionManager._positions[symbol], or NoPosition
  closing,    \* symbol \in PositionManager._closing
  cooldown,   \* _SELL_FAIL_COOLDOWN holds an unexpired entry
  clamp,      \* _KIS_HELD_CACHE: cached holding, or Unknown when expired
  task,       \* what each task is doing
  sync,       \* balance read by the account sync and not applied yet, or Unknown
  \* database
  rows,       \* trading_orders, side "sell"
  harvestDb,  \* position_stop_states.harvested: own row of the position (or of the
              \* last one), or another row of today
  \* KIS
  kis,        \* sell orders the broker accepted
  held,       \* shares in the account
  \* bound
  restarts

memory   == <<pos, closing, cooldown, clamp, task, sync>>
database == <<rows, harvestDb>>
broker   == <<kis, held>>
vars     == <<memory, database, broker, restarts>>

-------------------------------------------------------------------------------
(* Data *)

Unknown    == -1
NoPosition == [qty |-> 0, harvested |-> FALSE]
Position   == [qty : 1 .. Lot, harvested : BOOLEAN]
Managed    == pos # NoPosition

\* What the tables hold before a row or an order exists.
NoRow   == [status |-> "none", qty |-> 0, kis |-> NoOrder,
            accepted |-> FALSE, partial |-> FALSE, older |-> {}]
Unsent  == [qty |-> 0, done |-> 0, live |-> FALSE]

\* Statuses of a sell that is submitted and not verified. The code spells
\* "uncertain" submitted_without_order_no.
Unverified == {"submitted", "uncertain"}
Statuses   == {"none", "filled", "partial", "cancelled"} \cup Unverified

Row == [status : Statuses, qty : 0 .. Lot, kis : Orders \cup {NoOrder},
        accepted : BOOLEAN,             \* history: KIS accepted this submission
        partial : BOOLEAN,              \* history: a scale-out sell
        older : SUBSET Rows]            \* history: rows there were at its guards

KisOrder == [qty : 0 .. Lot, done : 0 .. Lot, live : BOOLEAN]

\* A task between two awaits of execute_sell or of its caller.
Kinds == {"exit", "harvest", "harvest_all", "direct"}
Task  == [pc       : {"idle", "price", "target", "clamp", "submit", "record"},
          kind     : Kinds,
          qty      : 0 .. Lot,            \* shares to sell
          left     : 0 .. Lot,            \* remainder of a scale-out
          reply    : {"none", "number", "blank", "rejected"},
          sent     : Orders \cup {NoOrder},
          attached : BOOLEAN,             \* its position dict is still the managed one
          ref      : Position \cup {NoPosition},  \* that dict, once it is not and a
                                                  \* REST price is still to judge it
          older    : SUBSET Rows]         \* history: rows there were at the guards

Idle == [pc |-> "idle", kind |-> "direct", qty |-> 0, left |-> 0,
         reply |-> "none", sent |-> NoOrder, attached |-> FALSE, ref |-> NoPosition,
         older |-> {}]

Harvests == {"harvest", "harvest_all"}

HarvestedToday == harvestDb.own \/ harvestDb.other

\* The position dict the task captured: the managed one while nobody replaced it.
Ref(t) == IF task[t].attached THEN pos ELSE task[t].ref

\* Removing the symbol leaves the dict p behind in the tasks that captured it.
Detached(tasks, p) ==
  [t \in Tasks |-> IF tasks[t].attached
                     THEN [tasks[t] EXCEPT !.attached = FALSE,
                             !.ref = IF tasks[t].pc = "price" THEN p ELSE NoPosition]
                     ELSE tasks[t]]

-------------------------------------------------------------------------------
(* KIS, as the engine uses it *)

LiveOrders == {k \in Orders : kis[k].live}
OpenQty    == MapThenSumSet(LAMBDA k : kis[k].qty - kis[k].done, LiveOrders)
Sellable   == held - OpenQty

\* inquire-daily-ccld is asked with CCLD_DVSN = "01": executed orders only.
Listed == {k \in Orders : kis[k].done > 0}

Accept(k, q) ==
  /\ kis[k] = Unsent
  /\ q <= Sellable
  /\ kis' = [kis EXCEPT ![k] = [qty |-> q, done |-> 0, live |-> TRUE]]

Execute(k) ==
  /\ kis[k].live
  /\ \E n \in 1 .. (kis[k].qty - kis[k].done) :
       /\ n <= held
       /\ kis' = [kis EXCEPT ![k].done = @ + n, ![k].live = kis[k].done + n < kis[k].qty]
       /\ held' = held - n
  /\ UNCHANGED <<memory, database, restarts>>

\* The exchange drops the open part of an order.
Expire(k) ==
  /\ kis[k].live
  /\ kis' = [kis EXCEPT ![k].live = FALSE]
  /\ UNCHANGED <<memory, database, held, restarts>>

-------------------------------------------------------------------------------
(* execute_sell *)

Existing      == {r \in Rows : rows[r].status # "none"}
ActiveSells   == {r \in Rows : rows[r].status \in Unverified}
SoldQty(S)    == MapThenSumSet(LAMBDA r : rows[r].qty, {r \in Rows : rows[r].status \in S})

\* find_active_sell_order: "partial" is not among its statuses.
DuplicateSellSubmittedOnly == \E r \in ActiveSells : rows[r].status = "submitted"   \* mutant
DuplicateSell == ActiveSells # {}

\* load_order_net_positions counts submitted and filled sells at their order quantity.
NetClosed     == BuyQty > 0 /\ BuyQty - SoldQty(Unverified \cup {"filled"}) <= 0

\* A scale-out that is neither ok nor uncertain takes its mark back.
Unharvested(t, kind, p) ==
  IF kind \in Harvests /\ task[t].attached THEN [p EXCEPT !.harvested = FALSE] ELSE p

\* The caller of a sell that came back neither ok nor uncertain. p and c are
\* the position and the closing mark at that moment. An exit ignores the result.
Refused(t, kind, p, c) ==
  /\ task' = [task EXCEPT ![t] = Idle]
  /\ pos' = Unharvested(t, kind, p)
  /\ closing' = (c /\ kind \notin Harvests)

\* The clamp to what KIS says is held (h): nothing held drops the position.
Clamped(t, job, p, c, h) ==
  IF h = 0
    THEN /\ pos' = NoPosition
         /\ closing' = FALSE
         /\ task' = Detached([task EXCEPT ![t] = Idle], Unharvested(t, job.kind, p))
    ELSE /\ pos' = p
         /\ closing' = c
         /\ task' = [task EXCEPT ![t] =
              [job EXCEPT !.pc = "submit", !.qty = IF h < @ THEN h ELSE @]]

\* From the call to the first await. job is the task's record with kind, qty
\* and left filled in; p and c are what the caller has already written.
StartSell(t, job, p, c) ==
  /\ UNCHANGED <<cooldown, clamp, sync, rows, broker, restarts>>
  /\ \/ /\ cooldown
        /\ Refused(t, job.kind, p, FALSE)
     \/ /\ ~cooldown
        /\ DuplicateSell \/ NetClosed
        /\ Refused(t, job.kind, p, c)
     \/ /\ ~cooldown
        /\ ~DuplicateSell
        /\ ~NetClosed
        /\ LET guarded == [job EXCEPT !.older = Existing]
           IN  IF ClampEnabled /\ clamp # Unknown
                 THEN Clamped(t, guarded, p, c, clamp)
                 ELSE /\ task' = [task EXCEPT ![t] = [guarded EXCEPT
                           !.pc = IF ClampEnabled THEN "clamp" ELSE "submit"]]
                      /\ pos' = p
                      /\ closing' = c

\* The balance query of the clamp answers, or fails and lets the sell through.
ClampReply(t) ==
  /\ task[t].pc = "clamp"
  /\ \/ /\ clamp' = held
        /\ Clamped(t, task[t], pos, closing, held)
     \/ /\ task' = [task EXCEPT ![t].pc = "submit"]
        /\ UNCHANGED <<pos, closing, clamp>>
  /\ UNCHANGED <<cooldown, sync, database, broker, restarts>>

\* order_cash returns: accepted with its number or without it (ODNO lost under
\* rate limiting), or refused by KIS with rt_cd # 0.
Accepted(t, k) ==
  /\ task[t].pc = "submit"
  /\ Accept(k, task[t].qty)
  /\ \/ task' = [task EXCEPT ![t].pc = "record", ![t].reply = "number", ![t].sent = k]
     \/ task' = [task EXCEPT ![t].pc = "record", ![t].reply = "blank"]
  /\ cooldown' = FALSE
  /\ UNCHANGED <<pos, closing, clamp, sync, database, held, restarts>>

Rejected(t) ==
  /\ task[t].pc = "submit"
  /\ task' = [task EXCEPT ![t].pc = "record", ![t].reply = "rejected"]
  /\ cooldown' = FALSE
  /\ UNCHANGED <<pos, closing, clamp, sync, database, broker, restarts>>

\* The sell has failed: cooldown, the mark goes, the position stays.
FailedDropsPosition(t) ==                                                            \* mutant
  /\ cooldown' = TRUE
  /\ pos' = NoPosition
  /\ closing' = FALSE
  /\ task' = Detached([task EXCEPT ![t] = Idle], pos)
Failed(t) == cooldown' = TRUE /\ Refused(t, task[t].kind, pos, FALSE)

\* order_cash raises, and KIS may or may not have accepted the order (nor is
\* order_cash itself sure: the client sends it again after EGW00301): a market
\* order again, or (after two of them; the count is abstracted) the sell has
\* failed.
Raised(t) ==
  /\ task[t].pc = "submit"
  /\ \/ UNCHANGED kis
     \/ \E k \in Orders : Accept(k, task[t].qty)
  /\ \/ UNCHANGED <<task, pos, closing, cooldown>>
     \/ Failed(t)
  /\ UNCHANGED <<clamp, sync, database, held, restarts>>

\* The order row is saved. Without a number in the reply the code takes the
\* number of any executed sell of the symbol it finds in today's list.
Record(t, r) ==
  LET job == task[t]
  IN
  /\ job.pc = "record"
  /\ rows[r] = NoRow
  /\ \E number \in IF job.reply = "number" THEN {job.sent} ELSE Listed \cup {NoOrder} :
       LET known    == number # NoOrder
           rejected == ~known /\ job.reply = "rejected"
           keeps    == rejected \/ (known /\ job.kind = "harvest")
       IN
       /\ rows' = [rows EXCEPT ![r] =
            [status |-> IF known THEN "submitted" ELSE "uncertain", qty |-> job.qty,
             kis |-> number, accepted |-> job.reply # "rejected",
             partial |-> job.kind = "harvest", older |-> job.older]]
       /\ cooldown' = (cooldown \/ rejected)
       /\ closing' = (closing /\ keeps /\ ~rejected)
       /\ pos' = IF ~keeps THEN NoPosition
                 ELSE IF known /\ job.attached
                        THEN [qty |-> job.left, harvested |-> TRUE]
                        ELSE pos
       /\ task' = LET done == [task EXCEPT ![t] = Idle]
                  IN  IF keeps THEN done ELSE Detached(done, pos)
  /\ harvestDb' = IF job.kind \notin Harvests THEN harvestDb
                  ELSE IF job.attached THEN [harvestDb EXCEPT !.own = TRUE]
                  ELSE [harvestDb EXCEPT !.other = TRUE]
  /\ UNCHANGED <<clamp, sync, broker, restarts>>

-------------------------------------------------------------------------------
(* PositionManager: the callers of execute_sell *)

\* _update_trailing: a price that moves the stop saves the position's row, with
\* the harvest mark it has in memory.
Tracked(ref, attached) ==
  \/ UNCHANGED harvestDb
  \/ harvestDb' = IF attached THEN [harvestDb EXCEPT !.own = ref.harvested]
                              ELSE [harvestDb EXCEPT !.other = @ \/ ref.harvested]

\* A price below the active stop, or past the forced exit time.
ExitSignal(t, ref, attached) ==
  StartSell(t, [Idle EXCEPT !.kind = "exit", !.qty = ref.qty, !.attached = attached], pos, TRUE)

\* A price above the scale-out target: the quantity is read, then the account
\* target is awaited.
TargetSignal(t, ref, attached) ==
  /\ ~ref.harvested
  /\ ~closing
  /\ ref.qty > 1
  /\ task' = [task EXCEPT ![t] =
       [Idle EXCEPT !.pc = "target", !.qty = ref.qty, !.attached = attached]]
  /\ UNCHANGED <<pos, closing, cooldown, clamp, sync, rows, broker, restarts>>

\* Any other price leaves the task as it was.
NoSignal(t) ==
  /\ task' = [task EXCEPT ![t] = Idle]
  /\ UNCHANGED <<pos, closing, cooldown, clamp, sync, rows, broker, restarts>>

Judged(t, ref, attached) ==
  /\ Tracked(ref, attached)
  /\ ExitSignal(t, ref, attached) \/ TargetSignal(t, ref, attached) \/ NoSignal(t)

OnTick(t) ==
  /\ task[t] = Idle
  /\ Managed
  /\ ~closing
  /\ Judged(t, pos, TRUE)

\* check_exits_via_rest picks the symbol and awaits its price ...
RestPick(t) ==
  /\ task[t] = Idle
  /\ Managed
  /\ ~closing
  /\ task' = [task EXCEPT ![t] = [Idle EXCEPT !.pc = "price", !.attached = TRUE]]
  /\ UNCHANGED <<pos, closing, cooldown, clamp, sync, database, broker, restarts>>

\* ... and judges the dict it picked, without looking at _closing again.
RestPrice(t) ==
  /\ task[t].pc = "price"
  /\ Judged(t, Ref(t), task[t].attached)

\* The account target is known: the scale-out marks the dict and sells a part.
Harvest(t) ==
  /\ task[t].pc = "target"
  /\ UNCHANGED harvestDb
  /\ \/ \E q \in 1 .. task[t].qty :
          LET all == q = task[t].qty
          IN  StartSell(t, [task[t] EXCEPT !.kind = IF all THEN "harvest_all" ELSE "harvest",
                                           !.qty = q, !.left = task[t].qty - q],
                        IF task[t].attached THEN [pos EXCEPT !.harvested = TRUE] ELSE pos,
                        closing \/ all)
     \/ NoSignal(t)                              \* int(qty * ratio) = 0

\* S9, the sell API and the replacement sell pass a quantity they read earlier.
DirectSell(t) ==
  /\ task[t] = Idle
  /\ UNCHANGED harvestDb
  /\ \E q \in 1 .. Lot :
       StartSell(t, [Idle EXCEPT !.kind = "direct", !.qty = q], pos, closing)

\* A restart or stop of the feed cancels the task that hands out its ticks, at any
\* await of the callback: no "except Exception" on the way out sees it. KIS may
\* still get the order under way.
CutShort(t) ==
  /\ task[t] # Idle
  /\ task' = [task EXCEPT ![t] = Idle]
  /\ \/ UNCHANGED kis
     \/ /\ task[t].pc = "submit"
        /\ \E k \in Orders : Accept(k, task[t].qty)
  /\ UNCHANGED <<pos, closing, cooldown, clamp, sync, database, held, restarts>>

-------------------------------------------------------------------------------
(* Repair: account sync, fill poller, intraday reconciliation *)

SyncReadWhenManaged ==                                                  \* mutant
  /\ sync = Unknown
  /\ Managed
  /\ sync' = held
  /\ UNCHANGED <<pos, closing, cooldown, clamp, task, database, broker, restarts>>
SyncRead ==
  /\ sync = Unknown
  /\ sync' = held
  /\ UNCHANGED <<pos, closing, cooldown, clamp, task, database, broker, restarts>>

\* An imported position inherits the harvest flag of the day.
ImportedAfresh == [qty |-> sync, harvested |-> FALSE]                   \* mutant
Imported       == [qty |-> sync, harvested |-> HarvestedToday]

\* add_position saves a row of its own for it.
NewRow == [own |-> HarvestedToday, other |-> HarvestedToday]

\* The balance is applied: removed, updated or imported.
SyncApply ==
  /\ sync # Unknown
  /\ sync' = Unknown
  /\ \/ /\ Managed /\ sync = 0
        /\ pos' = NoPosition
        /\ closing' = FALSE
        /\ task' = Detached(task, pos)
        /\ UNCHANGED harvestDb
     \/ /\ Managed /\ sync > 0
        /\ pos' = [pos EXCEPT !.qty = sync]
        /\ UNCHANGED <<closing, task, harvestDb>>
     \/ /\ ~Managed /\ sync > 0
        /\ pos' = Imported
        /\ closing' = FALSE
        /\ harvestDb' = NewRow
        /\ UNCHANGED task
     \/ /\ sync = 0
        /\ ~Managed \/ BuyQty > 0         \* kept behind a buy of the last minutes
        /\ UNCHANGED <<pos, closing, task, harvestDb>>
  /\ UNCHANGED <<cooldown, clamp, rows, broker, restarts>>

\* poll_once on one order whose number KIS lists.
Poll(r) ==
  /\ rows[r].status \in {"submitted", "partial"}
  /\ rows[r].kis \in Listed
  /\ LET order == kis[rows[r].kis]
     IN  rows' = [rows EXCEPT ![r].status =
                    IF order.done >= order.qty \/ ~order.live THEN "filled" ELSE "partial"]
  /\ UNCHANGED <<memory, harvestDb, broker, restarts>>

\* reconcile_uncertain_sells_intraday on one row. Its third outcome, a resting
\* order promoted to "submitted", needs a listed order without executions.
Reconcile(r) ==
  /\ rows[r].status = "uncertain"
  /\ LET unaccounted == Listed \ {rows[x].kis : x \in Rows}
     IN  \/ /\ unaccounted = {}
            /\ rows' = [rows EXCEPT ![r].status = "cancelled"]
         \/ \E k \in unaccounted :
              rows' = [rows EXCEPT ![r].status = "filled", ![r].kis = k]
  /\ UNCHANGED <<memory, harvestDb, broker, restarts>>

-------------------------------------------------------------------------------
(* Time and crashes *)

CooldownExpires ==
  /\ cooldown
  /\ cooldown' = FALSE
  /\ UNCHANGED <<pos, closing, clamp, task, sync, database, broker, restarts>>

ClampExpires ==
  /\ clamp # Unknown
  /\ clamp' = Unknown
  /\ UNCHANGED <<pos, closing, cooldown, task, sync, database, broker, restarts>>

RestorableWithoutNet == BuyQty > 0 /\ ActiveSells = {}                    \* mutant
\* build_restore_position_plan: nothing is restored behind an unverified sell.
Restorable == /\ BuyQty > 0
              /\ ActiveSells = {}
              /\ BuyQty - SoldQty({"filled"}) \in 1 .. Lot

\* The process dies and starts again: memory is lost, and activation restores
\* the position from the order rows.
Restart ==
  /\ restarts < MaxRestarts
  /\ restarts' = restarts + 1
  /\ pos' = IF Restorable
              THEN [qty |-> BuyQty - SoldQty({"filled"}), harvested |-> HarvestedToday]
              ELSE NoPosition
  /\ harvestDb' = IF Restorable THEN NewRow ELSE harvestDb
  /\ closing' = FALSE
  /\ cooldown' = FALSE
  /\ clamp' = Unknown
  /\ task' = [t \in Tasks |-> Idle]
  /\ sync' = Unknown
  /\ UNCHANGED <<rows, broker>>

-------------------------------------------------------------------------------
Init ==
  /\ pos = [qty |-> Lot, harvested |-> FALSE]
  /\ closing = FALSE
  /\ cooldown = FALSE
  /\ clamp = Unknown
  /\ task = [t \in Tasks |-> Idle]
  /\ sync = Unknown
  /\ rows = [r \in Rows |-> NoRow]
  /\ harvestDb = [own |-> FALSE, other |-> FALSE]
  /\ kis = [k \in Orders |-> Unsent]
  /\ held = Lot
  /\ restarts = 0

SellStep(t) ==
  \/ ClampReply(t)
  \/ \E k \in Orders : Accepted(t, k)
  \/ Rejected(t)
  \/ Raised(t)
  \/ \E r \in Rows : Record(t, r)

Next ==
  \/ \E t \in Ticks : OnTick(t) \/ CutShort(t)
  \/ \E t \in Rests : RestPick(t) \/ RestPrice(t)
  \/ \E t \in Ticks \cup Rests : Harvest(t)
  \/ \E t \in Directs : DirectSell(t)
  \/ \E t \in Tasks : SellStep(t)
  \/ SyncRead
  \/ SyncApply
  \/ \E r \in Rows : Poll(r) \/ Reconcile(r)
  \/ \E k \in Orders : Execute(k) \/ Expire(k)
  \/ CooldownExpires
  \/ ClampExpires
  \/ Restart

Spec == Init /\ [][Next]_vars

\* The sync loop runs for as long as S6 is active.
FairSpec == Spec /\ WF_vars(SyncRead) /\ WF_vars(SyncApply)

-------------------------------------------------------------------------------
TypeOK ==
  /\ pos \in Position \cup {NoPosition}
  /\ closing \in BOOLEAN
  /\ cooldown \in BOOLEAN
  /\ clamp \in 0 .. Lot \cup {Unknown}
  /\ task \in [Tasks -> Task]
  /\ sync \in 0 .. Lot \cup {Unknown}
  /\ rows \in [Rows -> Row]
  /\ harvestDb \in [own : BOOLEAN, other : BOOLEAN]
  /\ kis \in [Orders -> KisOrder]
  /\ held \in 0 .. Lot
  /\ restarts \in 0 .. MaxRestarts

PastGuards(t) == task[t].pc \in {"clamp", "submit", "record"}

\* No call of execute_sell gets past its duplicate guard behind a sell that is
\* still unverified, whatever polling, reconciliation and restarts did to that
\* row since: two unverified sells of the symbol exist only when the guards of
\* each ran before the row of the other was saved (execute_sell holds no lock).
ActiveSellsOverlap ==
  \A r \in ActiveSells : rows[r].older \cap ActiveSells = {}

\* The "ghost holding" the comments of execute_sell rule out: shares in the
\* account that nothing watches. They are unmanaged only behind a sell order row,
\* or after a restart when they were not bought today.
UnmanagedBehindSell ==
  held > 0 /\ ~Managed => Existing # {} \/ (restarts > 0 /\ BuyQty = 0)

Closers == {t \in Tasks : task[t].kind \in {"exit", "harvest_all"} /\ PastGuards(t)}

\* A closing mark stops the stop-loss watch of the symbol. What the docstring of
\* _discard_closing_mark wants of it: an exit on its way or an unverified sell
\* accounts for it. An exit cut short leaves it behind.
MarkHasOwner == closing /\ Managed /\ held > 0 => Closers # {} \/ ActiveSells # {}

\* One task at a time: the duplicate guard leaves at most one unverified sell.
AtMostOneActiveSell == Cardinality(ActiveSells) <= 1

\* "Once per position" of the scale-out: one row at most sells a part for profit,
\* through refusals, re-imports and restarts.
HarvestOnce == Cardinality({r \in Rows : rows[r].partial}) <= 1

\* Intraday reconciliation cancels the row of a sell only when KIS never
\* accepted that sell.
CancelledWasNeverAccepted ==
  \A r \in Rows : rows[r].status = "cancelled" => ~rows[r].accepted

\* A holding the engine does not manage is managed again, by the account sync,
\* or is sold.
Readopted == held > 0 /\ ~Managed ~> held = 0 \/ Managed

\* The sync loop is never without its next step.
SyncCanRun ==
  /\ sync = Unknown => ENABLED <<SyncRead>>_vars
  /\ sync # Unknown => ENABLED <<SyncApply>>_vars
===============================================================================

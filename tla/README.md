# Formal models of the Kairos trading engine

TLA+ models of Kairos, the KRX day-trading bot in this repository: its order and position
core, the buy path, the engine's day, the end-of-day liquidation, the regime monitor, the price feed and the
broker client, with TLC configurations that check them on small instances and TLAPS proofs, for all
constants, of every safety property those runs check and, under named hypotheses, of most of their liveness. Source paths below are relative to `src/backend/services/engine/`
unless they start with `src/`.

    tlc -workers 2 -config ExitSerial.cfg MCExitPath      # one run
    tlapm StopLineProofs.tla                              # one proof module

## 1. The system

Kairos is one FastAPI process with one asyncio event loop. A cron scheduler, a realtime
price feed, a REST backup, background loops and the HTTP API all run as tasks of that loop.
State is kept in module-level dictionaries (lost when the process stops) and in one SQLite
file (kept). The broker, KIS, is reached through HTTP requests, all of which are awaited.
Two consequences shape every module here:

- code between two `await`s is atomic; every action of a model is the code one task runs
  from one `await` to the next;
- SQLite calls are synchronous, so a write to a table belongs to the action that makes it,
  and a crash can only fall between two actions.

### Components

| Component | State | Operations | Interacts with | Correct when |
|---|---|---|---|---|
| **PositionManager** (`position_manager.py`) | `_positions`, `_closing`; table `position_stop_states` | `add_position`, `on_tick`, `check_exits_via_rest`, `_update_trailing`, `_scaleout_check`, `sync_account_position`, `remove_position` | price feed and REST backup call it, it calls `execute_sell` | the stop never goes down, is saved, one scale-out per position, no mark without an exit |
| **OrderExecutor, sell** (`order_executor.py`) | `_SELL_FAIL_COOLDOWN`, `_KIS_HELD_CACHE`; `trading_orders` | `execute_sell` | PositionManager, S9, API, replacement; KIS; position_integrity for its guards | no second unverified sell of a symbol, no ghost holding |
| **OrderExecutor, buy** (`order_executor.py`) | semaphore, balance cache, `_inflight_buys` | `execute_signal`, `_submit_buy` | DecisionEngine, preflight, KIS, `add_position` | deployment stays under the regime's rate, one order per signal |
| **Position integrity** (`position_integrity.py`) | none (reads `trading_orders`, `fills`) | duplicate-sell guard, net position, restore plan | execute_sell, activation, S9 | what it derives agrees with the ledger |
| **Account sync** (`decision_position_sync.py`, `decision_engine.py`) | none of its own | import, update, remove positions from the KIS balance | PositionManager | every holding is managed in the end |
| **FillPoller** (`fill_poller.py`) | `_PARTIAL_PROGRESS`, `_REMAINDER_REORDERED`; `fills`, `trading_orders` | `poll_once`, `_mark_order_filled/_partial`, `_reorder_sell_remainder` | KIS order list, three callers | fills = executions, never invented, never past the order |
| **Order reconciliation** (`order_reconciliation.py`) | none | EOD `reconcile_orders_with_kis`, intraday `reconcile_uncertain_sells_intraday` | KIS order list, fills | cancels only what KIS never had |
| **S9 EOD liquidation** (`eod_liquidation.py`) | none | `run_eod_liquidation`, `_verify_and_retry_eod_fills` | execute_sell, fill poller, KIS balance | nothing is held over night |
| **DecisionEngine** (`decision_engine.py`, `decision_rules.py`, `decision_entry_gate.py`) | watchlist, cooldowns, signals | `activate`, `_on_tick`, `_emit_signal`, account sync loop | feed, rule cache, execute_signal | one signal per symbol and cooldown |
| **Replacement** (`replacement_signal.py`, `replacement_executor.py`) | `_last_swap_at` | sell the weak, buy the strong | execute_sell, `_emit_signal` | no buy without its sell |
| **Regime and capital** (`intraday_regime_monitor.py`, `src/backend/services/regime_set_service.py`, `daily_capital.py`, `strategy_playbook.py`) | transitions, baselines, active set | regime judgement, flash-crash latch, budget rate | sizing, preflight | no flapping, latch released |
| **Guards** (`order_preflight.py`, `data_quality_guard.py`, `loss_streak_guard.py`, `human_approval.py`) | DQ events, blocks, approvals | block or allow new entries | buy path, feed | a block ends when its cause ends |
| **Daily plan** (`daily_plan.py`, `rule_cache.py`, `rule_resolver.py`, `intraday_refresh.py`) | plans, rule cache | build, approve, reload plans | DecisionEngine | cache = active plan |
| **Realtime feed** (`src/backend/services/kis/realtime_ws.py`) | runner task, failure count | start, stop, reconnect | tick callbacks, DQ guard | one runner, block released |
| **KIS client** (`src/backend/services/kis/`, `src/backend/utils.py`) | token, rate limiter | request with retries | everything | a retry does not repeat an order |
| **Scheduler** (`src/backend/services/scheduler.py`), **watchdog** (`ops_watchdog.py`), **alerts** (`alert_center.py`) | job table, heartbeat | cron jobs | all of the above | every stage runs once a day |
| **Accounting** (`trade_pairs.py`, `position_cost_basis.py`, `residual_reconciliation.py`, `account_pnl.py`) | cost-basis ledger | FIFO pairing, carried cost | fills | realised P&L counts each share once |
| **Screening, LLM stages, learning, review** | tables of the day | batch jobs | plan, settings | outside the core |
| **Web console, auth, API routes, old frontend, scripts** | sessions, settings | request handlers | services | outside the core |

### What is hard

- `execute_sell` checks for a duplicate, awaits the clamp's balance, awaits the order, and
  only then saves the row the check looks for. It holds no lock, and ticks, the REST backup,
  S9, the API and the replacement all call it.
- The REST backup picks a position, awaits its price and judges the dict it picked, whatever
  happened to the symbol meanwhile.
- Order submissions are retried after exceptions that may hide an accepted order, and KIS may
  answer without an order number; the row is then repaired from a list that shows executed
  orders only.
- Three pollers and two reconciliations write `fills` and `trading_orders`, each from lists
  read before an await.
- A restart loses the marks and counters, and restores from `trading_orders` and the newest
  row of `position_stop_states`.

`PROJECT.json` lists each hazard at its line, with the properties that cover it.

## 2. The modules

| Module | Part of the system | Meets the others at |
|---|---|---|
| `ExitPath` | exit decision, `execute_sell`, sync, poll, intraday reconciliation, restore | the sell rows `FillLedger` fills, the tasks `RealtimeFeed` cancels |
| `StopLine` | the stop of one symbol and its saved rows | exits are `ExitPath`'s |
| `FillLedger`, `OrderLedger` | fill poller and EOD reconciliation | the rows of `ExitPath` |
| `BuyPath` | signal, `execute_signal`, `_submit_buy`, deployment gate, re-arming | a bought symbol is managed: `StopLine!Register` |
| `EodLiquidation` | `run_eod_liquidation` and its verification | `execute_sell` of `ExitPath` as one await |
| `EngineDay` | `activate`, `deactivate` and everyone who calls them, over days | turns on what the other modules run |
| `Watchlist`, `Subscription` | subscription lists and the REST backup | feeds `ExitPath!OnTick`, `RestPick` |
| `RealtimeFeed` | websocket runner, start/stop, block of new entries | `Watchlist` installs its lists, `ExitPath!CutShort` is its cancellation |
| `KisClient` | rate limiter, token, retries | what every await on KIS in the other modules goes through |
| `EntryDefense`, `MarketDay` | regime monitor: crash defence and SET in force | its defence and SET refuse buys in `BuyPath` (an input there) |

Common abstractions: tables and sets of this code are keyed by symbol; a module has one symbol
where no guard relates two, and two where one does (`BuyPath`, `EodLiquidation`, `Watchlist`).
No wording, logging or notification. Definitions marked `mutant` are the faulty variants that
show each property can fail; nothing else uses them.

### `ExitPath` -- from an exit decision to a repaired position

The main module. A task (`Ticks`, `Rests`, `Directs`) holds what its coroutine knows between
two awaits: where it is (`pc`), what it sells, and which position dict it captured.

| Model | Code |
|---|---|
| `pos`, `closing` | `PositionManager._positions[symbol]`, `symbol in _closing` |
| `cooldown`, `clamp` | `_SELL_FAIL_COOLDOWN`, `_KIS_HELD_CACHE` |
| `rows` | `trading_orders` with side "sell" (failed rows are read by no guard and left out) |
| `harvestDb` | `position_stop_states.harvested`, split in the position's own row and any other row of today |
| `sync` | the balance `_sync_managed_positions_with_account` awaited and has not applied |
| `kis`, `held` | the orders at the broker and the shares in the account |
| `OnTick`, `RestPick`, `RestPrice`, `Harvest`, `DirectSell` | the callers of `execute_sell` up to its first await |
| `StartSell`, `ClampReply`, `Accepted`, `Rejected`, `Raised`, `Record` | `execute_sell` from await to await, with the caller's reaction to its result in the last segment |
| `SyncRead`, `SyncApply` | the account sync before and after its balance query |
| `Poll`, `Reconcile` | `poll_once` and `reconcile_uncertain_sells_intraday` on one row |
| `CutShort` | a restart or stop of the feed cancels the runner, and with it the tick callback it awaits: the closing mark stays, the order may have reached KIS |
| `CooldownExpires`, `ClampExpires`, `Restart` | time, and a process restart with `_restore_positions_from_db` |

Prices are abstracted to what they decide: exit, target, nothing. `accepted`, `partial` and
`older` in a row are history variables. The position that a task captured may be removed
and registered again while the task waits: `Detached` and `Ref` keep apart the dict the task
holds and the one that is managed.

### `StopLine` -- the stop of one symbol

Entry, high, initial stop, active stop, trailing and harvest marks of every position dict, their
saved rows (`db`), and the newest row (`latest`) a restart reads. Prices are ticks, rates per
mille and levels thousandths of a tick, so that every comparison is exact. `ProcessPriceAt` is
`_process_price` whole: update, save, exit, scale-out or nothing, in the code's order. The
sells it starts have only the outcomes their caller tells apart (`ExitDone`, `HarvestSold`,
`HarvestPersisted`, `HarvestRefused`). One rule holds for all positions; the trailing rate may be
the rule's or the tightened one at any price.

### `FillLedger` and `OrderLedger` -- how executions become fills

`FillLedger` has `poll_once` await by await (load, list, match, the per-symbol total of stage 2,
remainder reorder), any number of pollers, the EOD reconciliation, and orders executing and
expiring at KIS at any moment, for a real account and for a paper one (whose order list is
empty, so that only totals are known). The row id doubles as the number KIS gave that order.
`OrderLedger` is the abstract specification: an order row is ordered once; its fills
only grow, stay within the order, and are frozen once it is reported filled. `FillLedger!LedgerSpec`
is that specification under the refinement `ordered <- qty`, `recorded <- fills`,
`closed <- rows marked filled`.

The remainder reorder is modelled here and switched off in `ExitPath`. A number recovered from
another order's execution is modelled in `ExitPath` and left out here.

### `EngineDay` -- when the engine runs

The time of day, the plan of the day, the two saved facts (`should`: `engine.should_be_active`;
`halt`: the emergency halt), and what an engine that is on consists of: `active`, `calls` (tick
callbacks), `guard` (PositionManager), `poller`, `sync`, `feed`. Tasks are the S6 job, the watchdog
(cron and boot), the operator's requests, the S9 job and the feed restart of an opened slot; each
stands at one of the awaits of `activate()` or `deactivate()`. `Activates` to `Fed` are `activate()`,
`Deactivates` to `FeedStopped` are `deactivate()`. `S6ActivatedToday` is FALSE because
`_s6_activated_today` looks for a successful S6 run in a table no code writes one to.

### `BuyPath` -- from a signal to an order

A signal is a row of `trading_signals` together with the task that executes it: `queued` for the
semaphore, at the balance, or at `order_cash`. The deployment gate is in units, every order one unit.
`Deployed` is what the gate sees: the holdings the cached balance shows plus the amounts in flight.
`OnTick` is the path of rules, `Direct` the one of replacement and momentum entry, which do not ask
`_signal_sent`. `Exits` re-arms (`on_position_slot_opened`), `Syncs` replaces the managed symbols by what is
held, less the recently bought. The clocks are actions: the balance cache (30 s), the in-flight amount
(60 s), a recent order (5 min).

### `EodLiquidation` -- the end of the day

A run is at its first balance (`lookup`), its sells (`sell`), the check fifty seconds later (`check`), the one
retry (`retry`) or the second check (`recheck`). `execute_sell` is one await between its guards (`Sells`) and its outcome
(`SellReturns`: accepted, refused, failed; `SellLost`: KIS may have it, no row says so). Beside the run, stop-losses sell,
orders execute, in part or whole, buys fill, the poller and the reconciliation settle rows, the operator
acknowledges the alert.

### `RealtimeFeed` -- the websocket runner

`runner` is the state of each runner task (dialling, up, asleep, ended), `doomed` those with a cancellation they have
not seen. Callers stand at the two awaits of `stop()`: closing the socket and the end of the old runner. The runner
itself is a caller too, since tick callbacks are awaited and a trailing-stop exit restarts the feed. `fails`, `published`
and `block` are the failure counter and the data-quality event of each day.

### `Watchlist` -- who is watched

`HeldFirst` is `_subscription_symbols`. Each task computes a list (`Syncs`, `SlotOpens`, `Adds`, `Reselected`, S4's
`Screens`), awaits one or two stops of the feed and installs the list (`Starts`). `Ticks`, `Stales`, `Polls`,
`PollsPrice` and `PollFails` are the ticks and `check_exits_via_rest`: a symbol whose own ticks are older than 45 seconds is asked for.
A slot refresh whose list is empty stops the feed and gets no further, since `start([])` raises (`StopsOnly`, `Halted`).

### `KisClient` -- limiter, token, retries

A call is in the limiter (`pace`, `nap`), at the token (`token`, `issue`), at KIS (`sent`), behind a 401 (`forget`) or before a
retry (`backoff`). The two `asyncio.Lock`s are queues whose head holds the lock (`Passes` hands it on in order of arrival). KIS grants and revokes tokens as it likes; the renewal job forgets the
token and puts it back when no new one comes; the baseline job forgets it when KIS says that it has expired.

### `EntryDefense` -- what keeps new buys out for the day

The market (`kospi`, `vol`, `rebound`), the latest KOSPI row of `market_snapshots` (`sample`), the SET in force today
(`app`, `recent` when it was applied less than 25 minutes ago) and the day of the flash crash defence (`defence`). `Asks` is
`check_intraday_regime` up to the KOSPI it awaits and keeps what it has read (`check`); `Skips` and `Judges` are the rest of it. `Readings` is
what `_fetch_kospi_change` may return: KIS's answer, or the stored row, or nothing. `Activates` is the morning's SET of an activation,
which never replaces an intraday one. Which SET scores best is the constant `SetsFor`; settings are the defaults.

### Proof and model-checking modules

`StopLineProofs`, `FillLedgerProofs`, `ExitPathProofs`, `EngineDayProofs`, `EodLiquidationProofs`, `RealtimeFeedProofs` and `BuyPathProofs`
EXTEND their component and hold its theorems. `Subscription` and `MarketDay` hold the state that the promises of `Watchlist` and
`EntryDefense` speak of, and these promises; the two modules extend them with the rest of the state and the actions. `ServiceProofs` holds
the theorems of three components that share neither state nor actions: it EXTENDS `KisClient`, `Subscription` and `MarketDay`, and
instantiates `Watchlist` (`W`, with its assumption as a hypothesis of the theorems) and `EntryDefense` (`D`) over that state. `MCX` gives TLC the constants of module `X`. In the `Exit*` runs one task plays the ticks' and the REST backup's
role (in `ExitSerial` also the direct sells'), so `CutShort` also meets REST and direct sells there: more than the code does.

## 3. The runs

| Run | Question | Bounds |
|---|---|---|
| `ExitConcurrent` | an exit (tick or REST backup) and a direct sell (S9, API, replacement) at once: when can there be two unverified sells, and is an unmanaged holding managed again? | 2 tasks, 2 rows, 1 share (parts of an order are `ExitSerial`'s), 1 KIS order (the second row is a refused sell or a blank reply, which block like an accepted one), 2 restarts, clamp on; a position carried over, so that the net position hides no missing duplicate guard and only the sync brings it back after a restart; fair account sync |
| `ExitSerial` | one sell at a time: what a second sell row may be, and what a failed sell leaves | one task in all three roles, 2 rows, 2 orders, 2 shares, 1 restart, clamp off |
| `FillOverlap` | two pollers and the EOD reconciliation over the same rows | 2 rows, orders up to 2, 2 shares, real and paper, reorder on |
| `FillSolo` | one poller: does the ledger implement `OrderLedger`, and are executions recorded in the end? | 2 rows, orders up to 2, 3 shares, real and paper, 1 restart; fair poller |
| `StopLine` | does the stop hold under interleaved tick, REST and scale-out? | 2 position ids, tick and REST tasks, 4 prices around every threshold, 2 entries, 2 trailing rates, 1 restart |
| `EngineDay` | is the engine on when it should be, off when it should be, and one or the other as a whole? | 1 request task beside S6, watchdog, S9 and feed restart, 2 days, 1 restart; fair watchdog |
| `BuyPath` | how much and how often is bought? | 2 signals, 2 symbols, 3 orders, target of 2 units, 2 attempts of 2 submissions (2 of 3 in the code), 1 restart |
| `EodLiquidation` | is what a liquidation leaves held reported? | 1 run and the stop-losses, 2 symbols, one of them with a net position of zero, 1 restart; fair run |
| `RealtimeFeed` | how many runners, and does the block follow the outage? | 2 callers and the runners, 3 runners at a time, limit of 2 failures (3 in the code), 2 days, 1 restart |
| `Watchlist` | are holdings subscribed, and judged when their ticks stay out? | 2 symbols, a cap of 1, 1 holding, 2 restarts of the feed at a time; fair REST backup |
| `KisClient` | are calls paced, with the newest token, and do they end? | 2 callers (one the baseline job) and the renewal, 2 attempts and 2 issues per call (3 in the code), delays of 1 or 2 steps, 2 tokens; fair tasks |
| `StaleKospi` (a violation) | is the crash defence of a day about that day? | 4 KOSPI changes around the thresholds, 3 SETs, 2 slots, 2 days, 1 restart |

`EntryDefense.cfg` checks the two properties of `EntryDefense` that hold, `DefenceHasCause` and `JudgedInForce`, on the same instance
(`tlc -config EntryDefense.cfg MCEntryDefense`); both are proved for all constants.

What each run shows:

- **`ActiveSellsOverlap`** (ExitConcurrent). Two unverified sells of one symbol exist only if
  both calls ran their duplicate guard before either saved its row. The window is the await
  between guard and save; polling, reconciliation, number recovery and restarts open no other.
- **`AtMostOneActiveSell`** (ExitSerial): without that overlap there is at most one.
- **`HarvestOnce`** (ExitSerial): one scale-out per day and holding, through refusals,
  re-imports and restarts, if no two scale-out decisions overlap.
- **`UnmanagedBehindSell`** (ExitSerial): shares nobody watches exist only behind an order row of the day (or
  after a restart, when they were bought on an earlier day and the sync has not run): a failed
  or refused submission never drops the position.
- **`Readopted`** (ExitConcurrent): an unmanaged holding is managed again or sold.
- **`RecordedWithinOrder`**, **`NoInventedFills`** (FillOverlap): no interleaving of two pollers
  and the reconciliation records more than a row ordered, and on a paper account never more than
  was executed in all, although `_mark_order_partial` has no cap and stage 2 subtracts from a
  total read before an await. `RecordedWithinOrder` excludes rows that carry another order's
  number: the EOD reconciliation may give a row such a number, and a poller that still sees it as
  open then records that other order's quantity uncapped.
- **`OwnFills`**, **`LedgerSpec`**, **`ExecutionsRecorded`** (FillSolo): with one poller and no
  reconciliation the ledger records exactly its own executions, implements `OrderLedger`, and
  misses nothing in the end.
- **`StopNeverLowered`**, **`StopFollowsHigh`**, **`StopSaved`** (StopLine): between registration
  and removal no step lowers the stop; it stays within the trailing rate of the high and above
  break-even; and what is saved is what is in memory.

- **`ActiveIsWhole`** (EngineDay): unless the last start or stop overlapped another, engine, callbacks, guard and poller are on
  together or off together. The watchdog relies on it: it only asks `is_active()`.
- **`ActiveIsIntended`**: an active engine's intention is saved, so that a crash does not end the day.
- **`OffAfterClose`**: after S9 stopped it no watchdog round or restart turns the engine on again, unless the operator does or an
  activation was under way at that moment (its `_set_engine_should_be_active(True)` comes after S9's FALSE).
- **`Recovers`**: an engine that should run comes back if the conditions for it last.
- **`WithinTarget`** (BuyPath): a burst of signals on one cached balance stays within the target, but for orders the gate does not
  count: copies behind lost answers, and open orders whose in-flight amount has expired.
- **`BoughtOnce`**: a symbol is bought twice only if it was re-armed, or chosen by the replacement or momentum entry, during a buy.
- **`HaltLetsOneThrough`**: after an emergency halt at most one signal still has an order accepted (the one past preflight: the
  halt is not read between submissions).
- **`AccountedFor`** (EodLiquidation): what a run that could see leaves held was named in the alert, or met an alert nobody had
  acknowledged, or was bought since. **`SoldOrReported`**: every holding of its start comes to one of these ends.
- **`OneRunner`**, **`LastCallWins`** (RealtimeFeed): without overlapping calls there is one runner, also when the runner restarts the
  feed out of its own callback; a start that ends last leaves a runner however calls overlap, a stop only without overlap.
- **`OutageBlocks`**, **`BlockIsOutage`**: an outage that reached its limit today blocks new entries, and a feed that is up is not blocked.
- **`HoldingsWatched`** (Watchlist): with the engine's own list in force every holding ticks that the list could know of.
  **`EveryHoldingJudged`**: whatever the list, the REST backup judges a holding without ticks, or it is sold.
- **`Paced`** (KisClient): calls pass the limiter a delay apart. **`NewestToken`**, **`ResentWithNewer`**: the token in place is the newest
  received and a refused request is resent with a newer one, unless the renewal put an old one back. **`EveryCallEnds`**: in an
  answer or an error.
- **`DefenceOfToday`** (StaleKospi) is violated: on a calm day after a crash, a KIS query that fails makes the monitor fall back to the row it
  stored the day before, and the crash defence keeps new buys out for that day. `DefenceHasCause` shows that this is the only way.

**Bounds.** Two rows and two KIS orders let every operation meet an earlier and a later sell; two
shares let a scale-out leave a remainder (its guard asks for more than one share) and an order be
partly executed; three shares in FillSolo let one order complete while the other is partly
executed. `MaxRestarts = 1` suffices because a
restart erases all of the memory: what a second one meets is what the first one met with more rows.
The prices of `StopLine` lie below the first stop, at break-even, past target and trailing, and one
further up. Two days let what is saved on one day meet the next; two attempts are one that is repeated and
one that is the last, so that a third only repeats the first's continuation; three orders are a holding or a copy beside two buys;
three runners are one that runs, one being replaced and one created meanwhile; a cap of one with two symbols makes every list a choice.
`Ids`, `Rows` and `Orders` are finite and are not reused, and days, signals, tokens and runs end; in the `Fill*`, `StopLine`,
`EngineDay`, `BuyPath`, `EodLiquidation`, `Watchlist`, `KisClient` and `StaleKospi` runs the model may therefore stop when they are used up (and an idle
ledger with nothing to poll really stops), so these set `CHECK_DEADLOCK FALSE`. The `Exit*` and `RealtimeFeed` runs check for deadlock.

**Fairness.** `ExitPath!FairSpec`: weak fairness of the account sync, a loop that runs for as long as
the decision engine is active (`_account_sync_loop`, `decision_engine.py:520`). Nothing is assumed of
KIS executing an order, of tasks or of prices. `FillLedger!FairSpec`: weak fairness of a poller's
steps (`FillPoller._loop` swallows every exception and polls again after a pause) and strong fairness
of its list query succeeding: polls may fail infinitely often, not forever. Stage-2 queries, remainder
orders, executions and submissions are not assumed to succeed. `EngineDay!FairSpec`: the
watchdog's cron fires (every two minutes) and what an activation of its own awaits returns. `EodLiquidation!FairSpec`: the cron starts
the run and what it awaits returns or times out (`httpx` timeouts). `Watchlist!FairSpec`: `job_stop_loss_backup` comes round every 30 seconds,
time passes, each query returns, and a symbol that is asked for again and again has a price at some time (strong fairness).
`KisClient!FairSpec`: tasks run, sleeps end, KIS answers or the client's timeout does.

## 4. The proofs

TLAPS proves, for every value of the constants allowed by the modules' assumptions:

| Theorem | Statement | Assuming, beyond the module's own assumptions |
|---|---|---|
| `StopLineProofs!TypeCorrect` | `Spec => []TypeOK` | |
| `StopLineProofs!FollowsHigh` | `Spec => []StopFollowsHigh` | |
| `StopLineProofs!SavedStop` | `Spec => []StopSaved` | |
| `StopLineProofs!NeverLowered` | `Spec => StopNeverLowered` | |
| `FillLedgerProofs!WithinOrder` | `Spec => []RecordedWithinOrder` | |
| `FillLedgerProofs!FillsNotInvented` | `Spec => []NoInventedFills` | |
| `FillLedgerProofs!FillsOwnOrder` | `Spec => []OwnFills` | `~Reconciles` |
| `FillLedgerProofs!LedgerImplemented` | `Spec => LedgerSpec` | `Alone`: `~Reconciles` and any two pollers are the same |
| `ExitPathProofs!TypeCorrect` | `Spec => []TypeOK` | |
| `ExitPathProofs!OverlapOnly` | `Spec => []ActiveSellsOverlap` | |
| `ExitPathProofs!NoGhost` | `Spec => []UnmanagedBehindSell` | |
| `ExitPathProofs!SerialSells` | `Spec => []AtMostOneActiveSell` | `OneTask`: any two tasks are the same |
| `ExitPathProofs!ScalesOutOnce` | `Spec => []HarvestOnce` | `OneTask` |
| `BuyPathProofs!TypeCorrect` | `Spec => []TypeOK` | |
| `BuyPathProofs!TargetKept` | `Spec => []WithinTarget` | |
| `BuyPathProofs!OneBuy` | `Spec => []BoughtOnce` | |
| `BuyPathProofs!HaltHolds` | `Spec => []HaltLetsOneThrough` | |
| `EngineDayProofs!TypeCorrect` | `Spec => []TypeOK` | |
| `EngineDayProofs!WholeEngine` | `Spec => []ActiveIsWhole` | |
| `EngineDayProofs!IntendedEngine` | `Spec => []ActiveIsIntended` | |
| `EngineDayProofs!StaysOff` | `Spec => []OffAfterClose` | |
| `RealtimeFeedProofs!TypeCorrect` | `Spec => []TypeOK` | |
| `RealtimeFeedProofs!SingleRunner` | `Spec => []OneRunner` | |
| `RealtimeFeedProofs!LastDecides` | `Spec => []LastCallWins` | |
| `RealtimeFeedProofs!OutageIsRecorded` | `Spec => []OutageBlocks` | |
| `RealtimeFeedProofs!BlockEnds` | `Spec => []BlockIsOutage` | |
| `EodLiquidationProofs!TypeCorrect` | `Spec => []TypeOK` | |
| `EodLiquidationProofs!LeftIsAccountedFor` | `Spec => []AccountedFor` | |
| `ServiceProofs!ListsFit` | `W!Spec => []W!TypeOK` | |
| `ServiceProofs!HoldingsTick` | `W!Spec => []HoldingsWatched` | |
| `ServiceProofs!DefenceCause` | `D!Spec => []DefenceHasCause` | |
| `ServiceProofs!SwitchStands` | `D!Spec => []JudgedInForce` | |
| `ServiceProofs!ClientTypes` | `Spec => []TypeOK` | |
| `ServiceProofs!NewestInPlace` | `Spec => []NewestToken` | |
| `ServiceProofs!CallsPaced` | `Spec => Paced` | |
| `ServiceProofs!NewerResent` | `Spec => ResentWithNewer` | |
| `FillLedgerProofs!RecordedForGood` | `Spec => [][LedgerOnlyGrows]_vars` | `Alone` |
| `FillLedgerProofs!RecordedInTheEnd` | `FairSpec => ExecutionsRecorded` | `~Reconciles`, a poller, `[]PollsCanRun`, `PollsOver`, `<>[][~Restart]_vars` |
| `ExitPathProofs!SyncReadopts` | `FairSpec => Readopted` | `[]SyncCanRun`, `<>[][~Restart]_vars` |
| `EngineDayProofs!ComesBack` | `FairSpec => Recovers` | `[]WatchdogCanRun` |
| `EodLiquidationProofs!SettledInTheEnd` | `FairSpec => SoldOrReported` | `[]RunsCanGo`, `RoundsOver` |
| `EodLiquidationProofs!NoRunGoesRound` | `Spec => RunsWindDown` | |
| `ServiceProofs!JudgedInTheEnd` | `W!FairSpec => EveryHoldingJudged` | `[]W!PricesCanRun`, `W!RoundsEnd` |
| `ServiceProofs!NoCallGoesRound`, `StagesEnd` | `Spec => CallsWindDown`, and the stages are `0 .. LastStage` | |
| `ServiceProofs!LocksNeverJam` | `Spec => []SomebodyCanGo` | |

The hypotheses in the last column are part of what is promised. `AtMostOneActiveSell` and `HarvestOnce` fail when two callers are in
`execute_sell` together (sections 3 and 5); `OwnFills` and the refinement fail with the EOD reconciliation, which may give a row another
order's number. The refinement also fails with a second poller, whose older answer may be recorded, and open the row again, after the
other poller has reported the row filled.

Each module has an inductive invariant, proved by one step per action of `Next`
(`Invariance`):

- **StopLine.** `TypeOK`; that tasks and tables only refer to registered positions (`Known`); that
  the stop of *every* registered dict is at least its initial stop, its break-even level and, when
  trailing, its trailing level (`AllFollow`); that the saved row of *every* dict agrees with it
  (`AllSaved`); and that a scale-out holds a price its position has seen (`PricesSeen`). The
  properties speak of the managed position only and are not inductive: a task may still update a dict
  that was removed, and a scale-out finishes with a price it read several awaits before. The arithmetic
  sits in a few lemmas; they rest on `RateAssumption` (tightening never widens the trail) and
  `LockAssumption` (a break-even lock beyond its trigger would put the stop above the price that moves it).
- **FillLedger.** That a row's fills are within its order while its number is its own is not inductive,
  because a poller works with a list and with rows it read before an await. The invariant adds that the list
  still describes the orders in it (`Snapshot`), that no order executes beyond its quantity and that the
  order of a row has the row's quantity (`OrderInv`, `RowInv`), and that a number which was foreign when a poller
  loaded the row is foreign now (`Loaded`). A row only gets a foreign number together with a fill, after
  which the reconciliation never takes it up again; that is why no row's number is written twice.
  `NoInventedFills` compares two sums over rows. It needs that what a poll or the reconciliation keeps of KIS's answer is never more
  than KIS has executed (`ReadInv`; executions only grow, so an old answer stays true) and that a step which records a fill takes it
  from the total less all that is recorded at that moment. The laws of `MapThenSumSet` that this rests on (adding one element,
  monotonicity, one changed value) are proved in the module by a least counterexample in the strict-subset order, since the
  library's induction theorems cannot be instantiated; this is why `RowsAssumption` asks that `Rows` be finite, as a day's orders are.
  For the refinement, `Unreconciled` says that every number is the row's own and `Solo` that the rows the poller has loaded
  are still open; each step then is `OrderLedger`'s placing, recording or closing of one row, or a stutter.
- **ExitPath.** `TypeOK` needs that a task attached to the managed position has one to be attached to,
  and that a sell of a part leaves a part (`TaskInv`). The overlap property needs that every row a sell
  found at its guards was settled then and stays settled (`TaskGuards`, `RowGuards`): no poll,
  reconciliation or restart makes an unverified sell of a verified or cancelled one. For `SerialSells` the
  invariant `SerialInv` adds that a task past its guards leaves no unverified sell and that any two
  unverified sells are the same. `NoGhost` holds for any tasks at once. A position is dropped on KIS's word that nothing is held, which
  a task or the sync may have asked for some awaits ago: `ReadEmpty` says that such a zero is still true when it is used. A restart
  restores what was bought today less what the rows of the day sold: with no row it restores all of it (`NothingSold`), by `BuyAssumption`
  the whole lot or, when that is from an earlier day, nothing, which is the property's second case. `ScalesOutOnce` rests on one
  row at most that sold a part (`TakenOnce`), on the mark it leaves in memory and in the rows a restart reads (`MarkInv`), and on what
  the task knows of it between the check and the sell (`ScaleInv`), a refusal that takes the mark back and a sync that drops the
  position under the task included.
- **BuyPath.** The gate bounds what it can see, so `WithinTarget` needs that it sees everything but the orders the property excludes:
  each order the engine knows of is in the balance in use (or the next one) or in flight (`Counted`), there is one signal past the
  semaphore (`Serial`), and one past the gate has found room for its unit (`Room`). `BoughtOnce` needs that a symbol somebody buys
  is marked or managed until the buy ends (`Marked`, `Named`), `HaltLetsOneThrough` that during a halt no second signal is past preflight (`Halted`).
- **RealtimeFeed.** `start()` and `stop()` take no lock. Without overlap one call is under way, the runner in place is the only one not
  cancelled, and while a call waits for the old runner there is none (`Orderly`). The hard case is a runner that restarts the
  feed from its own callback: it is up, and a cancelled one within its call is waited for by the call that cancelled it
  (`Callbacks`). A published block is in the database, or lost, or of an earlier day (`Published`).
- **EodLiquidation.** From its check on, a run has found whatever is held and was not bought since (`FoundHeld`).
- **Watchlist.** A list that a task is about to install covers the holdings unless the task's list is older than one of them, and
  with no such task the engine's list in force covers them and ticks (`WillCover`, `Covers`). Cutting a list at the cap keeps the holdings because `HeldFirst`
  has them in front and `MaxHeld <= Cap`.
- **KisClient.** Both queues hold each waiting task once, with the holder at the head (`QueueOf`). No token in use is newer than the
  newest received, and a request that was refused finds no token in place, a newer one, or one the renewal put back (`Known`); the renewal itself sends no request (`RenewalAsks`).
  `Paced` and `ResentWithNewer` are action properties: one step of the proof shows that no other action makes the change they speak of.
- **EngineDay.** That an engine is on or off as a whole is not inductive, since `activate` and `deactivate` build and take down its
  parts across awaits. As long as nothing crossed (`Uncrossed`), one task at a time turns the engine (`OneAtATime`), it finds what its own
  earlier steps did (`StartingKnows`, `StoppingKnows`), and when none is under way engine, callbacks, guard and poller agree (`Whole`) and
  the intention is saved (`Intended`). `OffAfterClose` needs that S9 works after the close only (`S9Late`) and that no start is left when
  it ends cleanly (`AfterClose`). It assumes that the tasks are different and the bounds numbers
  (`TaskAssumption`, `BoundAssumption`).
- **EntryDefense.** Samples and defence carry days that have been (`Dated`); a crash in the market, in what a check has read or in a
  sample of today was one of today or goes back to an earlier day's sample (`Caused`); while a check runs, nobody replaces an
  intraday SET it compares with (`Compared`). No assumption on the constants.

### Liveness

The prover has no rule for ENABLED and none for an induction over the elements of a set, so each liveness theorem names what it leaves to
them, and TLC evaluates these hypotheses on the instances of section 3 (add the definition to the cfg as an `INVARIANT` or `PROPERTY`):

- **Steps exist**: `WatchdogCanRun`, `SyncCanRun`, `PricesCanRun`, `RunsCanGo` and `PollsCanRun` say of the states in which a fair action is needed
  that it is enabled; TLC finds them in every reachable state.
- **Rounds end**: `RoundsEnd` (a round of the REST backup), `RoundsOver` (a round of sells) and `PollsOver` (a poll): each of their
  steps does away with one symbol or row, and the fairness makes them.
- **Restarts cease** (`<>[][~Restart]_vars`), where a restart undoes what the proof waits for. The instances bound the number of restarts;
  the theorem needs less.

What is proved is how the fair steps lead to the end whatever the others do in between:

- `ComesBack`: an activation that has begun goes on to the end or falls back to the watchdog, whose next round begins one.
- `SyncReadopts`: a balance read while shares are held unmanaged shows shares (`ReadEmpty` again), nobody but the sync does away with it, and applying it makes
  them a position.
- `RecordedInTheEnd`: for any number of pollers. A row that is short of its executions is open, since what a poll closes is complete (`FullInv`: an
  order that had ended when a list was read is as the list says). So each poll loads it; polls end and begin again, the list is asked for
  infinitely often, and strong fairness has it answered; a poll that has heard of the shares keeps the row until it records them. Only a row
  loaded as submitted that somebody else has recorded a share of is skipped, and then the next poll finds it partial: the proof goes
  in two stages (`Marks`).
- `SettledInTheEnd`: a run that looks, checks and rechecks what it found; `NoRunGoesRound` shows that no step takes a run back.
- `JudgedInTheEnd`: a position without a judged price is without ticks at some time and stays so or is judged; a round of the backup asks for it; each round
  ends and the next begins, and strong fairness has one of them answered.

`EveryCallEnds` stays with TLC: a call ends after at most as many steps as it has stages and attempts, an induction over numbers. Its two parts are
proved: every step takes a call on (`NoCallGoesRound`, over the finitely many stages of `StagesEnd`), and whenever a call waits for a
lock, the head of some queue can go on (`LocksNeverJam`).

Model-checked only: `EveryCallEnds`, the hypotheses above, and the type invariant of `EntryDefense`. `DefenceOfToday` and the other
definitions of section 5 are broken by the code.

## 5. Where the code and its comments disagree

These definitions stand in the modules beside the checked ones. Each states what a comment or docstring promises, and TLC finds a
counterexample with the constants given here (put the definition in the cfg as the only INVARIANT or PROPERTY). Only the first has a run
of its own (`StaleKospi`); no other run includes one of them, since the code breaks them.

| Definition | The promise | What the code does | To reproduce |
|---|---|---|---|
| `EntryDefense!DefenceOfToday` | `market_snapshots` is never filled (`intraday_regime_monitor.py:163`); the defence is of today's crash and lifts itself on the next trading day (:531) | the monitor inserts a KOSPI row per check (:367); when KIS fails it reads the latest row of any day (:113) and raises today's defence from it | run `StaleKospi` |
| `ExitPath!MarkHasOwner` | a mark left without a sell would stop the stop-loss watch for good (`order_executor.py:937`) | `skipped_duplicate` (:683) and `net_position_closed` (:702) keep the mark; when the other sell settles without emptying the account, ticks and REST backup skip the symbol | `ExitSerial.cfg`, `Orders = {k1}`, `MaxRestarts = 0` |
| `ExitPath!CancelledWasNeverAccepted` | "the submission really failed" (`order_reconciliation.py:309`) | the list has executed orders only (`src/backend/services/kis/domestic/service.py:89`), so a live sell is cancelled in the database and the duplicate guard released | `ExitSerial.cfg`, one row, one order |
| `ExitPath!HarvestOnce` | "optimistic guard before the await" (`position_manager.py:627`) | with tick and REST tasks apart, both pass the check at :590 and await the account target at :617 before either marks | `ExitConcurrent.cfg` with `SPECIFICATION Spec`, tick and rest different, `Directs = {}`, `Orders <- TwoOrders`, `Lot = 2`, `BuyQty = 2`, `ClampEnabled = FALSE`, `MaxRestarts = 0` |
| `FillLedger!RemainderReorderedOnce` | "one reorder for one order" (`fill_poller.py:23`) | two pollers read the mark (:765) before either sets it (:791) | `FillOverlap.cfg` with three rows, real account, `Reconciles = FALSE` |
| `FillLedger!CancelledHasNoFills` | "no execution at KIS" (`order_reconciliation.py:6`) | the reconciliation cancels from a list read before its awaits; a poller may have filled the row since | `FillOverlap.cfg`, real account |
| `StopLine!StopSurvivesRestart` | "the stop line is never lowered", it persists over a restart (`position_manager.py:4`, :957) | the restore registers the position with its initial stop (`decision_engine.py:237`) | `StopLine.cfg` |
| `EngineDay!ManualStopRespected` | "a manual stop is respected" (`src/backend/services/scheduler.py:1129`) | between 9 and 15 the late-plan path starts an engine the operator stopped: `_s6_activated_today` never finds its row | `EngineDay.cfg`, `SPECIFICATION Spec` |
| `EodLiquidation!ResidualsAreResold` | what is left is sold once more (`eod_liquidation.py:184`) | the retry meets the cooldown or the uncertain row of the refused first sell, or a net position of zero (`order_executor.py:693`) and is turned away | `EodLiquidation.cfg` with `Symbols <- OneSymbol`, `Carried <- NoSymbol`, `MaxRestarts = 0` |

Other facts the models show: an activation overtaken by S9's stop leaves `should_be_active` TRUE after the close; an activation that
finds nothing leaves an earlier feed running; two callers that await the same runner each create one; an outage that lasts into the
next day publishes no block there; a late 401 forgets a newer, good token; every
activation restarts the 25 minutes in which the monitor leaves the SET alone; without candidates, the sale of the last holding stops the
feed, and when the same symbol is held again a sync finds its list equal to the stored one and does not restart it, so that only the
REST backup judges it (`HoldingsWatched` says nothing of a stopped feed, `EveryHoldingJudged` covers it).

## 6. Not modelled

- **Inside the modelled parts**: prices and sizes of buys, checks of preflight other than halt and deployment, buy orphans of the
  reconciliation, poller of buys, settings that cannot be read, days without trading, exceptions out of `activate()`, the parsing of
  websocket messages.
- **Daily plan, intraday refresh, replacement** appear only through what they do to other parts (`PlanActivated`, `Reselected`, `Direct`).
  Two hazards are known there and open: an exception between the plan's INSERT OR REPLACE and its activation leaves no active plan,
  and `check_and_refresh` reads `_already_ran` before its awaits and writes it at the end.
- **Regime monitor**: the down-transition latch (its gate is off by default), the playbook and the scoring of SETs.
- **Loss streak guard, approvals**: one latch each over numeric judgements.
- **Screening, LLM stages, learning, review, console, auth, old frontend, scripts**: batch reports,
  I/O or independent of trading safety. `trade_pairs` and `position_cost_basis` are pure
  computations that can be checked against a reference definition later.

## 7. Plan

1. **Done**: the modules of section 2, their runs, and the proofs of section 4.
2. **Done**: every safety property that a run checks, the refinement of `OrderLedger`, and under the hypotheses of section 4 every liveness
   property but `EveryCallEnds`, proved for all constants.
3. `Replacement` over `ExitPath` and `BuyPath`: no buy without its sell.
4. The down-transition latch; `TradePairs` and `CostBasis` as recursive functions against a reference.

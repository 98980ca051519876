------------------------------ MODULE FillLedger ------------------------------
(***************************************************************************)
(* How executed sells of one symbol get into the fills table: the fill     *)
(* poller (poll_once, run by its own loop, by the post-process job and by  *)
(* the monitor API), the reorder of a stalled remainder, and the EOD       *)
(* reconciliation of orphan orders.                                        *)
(*                                                                         *)
(* Every action is the code a task runs from one await to the next, except *)
(* that the poller and the reconciliation handle one order per action: the *)
(* awaited reorder of one order (in the poller) or the awaited buy orphans *)
(* (in the reconciliation) may come between any two. Prices are left out,  *)
(* and so are the notifications, the alert on a missing quantity field and *)
(* a number recovered from another order (ExitPath models it).             *)
(***************************************************************************)
EXTENDS Integers, FiniteSets, FiniteSetsExt

CONSTANTS
  Rows,           \* ids of trading_orders rows; an accepted row's id is also the
                  \* number KIS gave its order
  Pollers,        \* tasks running poll_once
  MaxQty,         \* largest order
  Holding,        \* shares in the account at the start
  Accounts,       \* kinds of account the run starts with
  ReorderEnabled, \* setting risk.partial_fill_reorder_enabled
  Reconciles,     \* the EOD reconciliation runs
  MaxRestarts,    \* bound on process restarts
  NoOrder         \* "no KIS order number"

ASSUME QtyAssumption == MaxQty \in Nat \ {0} /\ Holding \in Nat
ASSUME ModeAssumption == Accounts \subseteq {"real", "paper"} /\ ReorderEnabled \in BOOLEAN
                         /\ Reconciles \in BOOLEAN /\ MaxRestarts \in Nat
ASSUME RowsAssumption == IsFiniteSet(Rows) /\ NoOrder \notin Rows

VARIABLES
  row,        \* trading_orders
  fills,      \* shares recorded in fills, by order_id
  kis,        \* the orders at KIS
  held,       \* shares in the account
  progress,   \* _PARTIAL_PROGRESS
  reordered,  \* _REMAINDER_REORDERED
  poller,     \* what each poll_once is doing
  eod,        \* what reconcile_orders_with_kis is doing
  account,    \* "real": KIS lists executed orders in output1; "paper": it answers
              \* with output2 totals only
  origin,     \* history: signal_id of a remainder reorder
  restarts

ledger == <<row, fills>>
broker == <<kis, held>>
stalls == <<progress, reordered>>
vars   == <<row, fills, kis, held, progress, reordered, poller, eod, account, origin, restarts>>

-------------------------------------------------------------------------------
(* Data *)

Statuses == {"none", "submitted", "uncertain", "partial", "filled", "cancelled"}
Row      == [status : Statuses, qty : 0 .. MaxQty, kis : Rows \cup {NoOrder}]
NoRow    == [status |-> "none", qty |-> 0, kis |-> NoOrder]

KisOrder == [qty : 0 .. MaxQty, done : 0 .. MaxQty, live : BOOLEAN]
Unsent   == [qty |-> 0, done |-> 0, live |-> FALSE]

\* A partial order not seen yet has ccld = 0: only executed orders are tracked.
StallThreshold == 2
Progress == [ccld : 0 .. MaxQty, stall : 0 .. StallThreshold]
Untracked == [ccld |-> 0, stall |-> 0]

Poll == [pc    : {"idle", "list", "match", "total", "reorder"},
         seen  : [Rows -> Row],             \* the rows as they were loaded
         todo  : SUBSET Rows,               \* loaded and not handled yet
         list  : [Rows -> KisOrder],        \* the answer of the order list
         cur   : Rows \cup {NoOrder},       \* order whose answer is awaited
         total : -1 .. Holding,             \* output2 answer, -1 while it is awaited
         rmn   : 0 .. MaxQty]               \* shares to reorder
NoList == [r \in Rows |-> Unsent]
IdlePoll == [pc |-> "idle", seen |-> [r \in Rows |-> NoRow], todo |-> {}, list |-> NoList,
             cur |-> NoOrder, total |-> -1, rmn |-> 0]

Eod == [pc : {"idle", "list", "match"}, todo : SUBSET Rows, list : [Rows -> KisOrder]]
IdleEod == [pc |-> "idle", todo |-> {}, list |-> NoList]

AtMost(m, n) == IF n < m THEN n ELSE m

-------------------------------------------------------------------------------
(* KIS, as the engine uses it *)

Sum(S, f(_)) == MapThenSumSet(f, S)
Sellable == held - Sum({k \in Rows : kis[k].live}, LAMBDA k : kis[k].qty - kis[k].done)
Executed     == Sum(Rows, LAMBDA k : kis[k].done)

\* inquire-daily-ccld with CCLD_DVSN = "01": executed orders only, and none at
\* all for a paper account.
Listed == [k \in Rows |-> IF account = "real" /\ kis[k].done > 0 THEN kis[k] ELSE Unsent]

Accept(k, q) ==
  /\ kis[k] = Unsent
  /\ q <= Sellable
  /\ kis' = [kis EXCEPT ![k] = [qty |-> q, done |-> 0, live |-> TRUE]]

Execute(k) ==
  /\ kis[k].live
  /\ kis' = [kis EXCEPT ![k].done = @ + 1, ![k].live = kis[k].done + 1 < kis[k].qty]
  /\ held' = held - 1
  /\ UNCHANGED <<ledger, stalls, poller, eod, account, origin, restarts>>

Expire(k) ==
  /\ kis[k].live
  /\ kis' = [kis EXCEPT ![k].live = FALSE]
  /\ UNCHANGED <<ledger, held, stalls, poller, eod, account, origin, restarts>>

-------------------------------------------------------------------------------
(* A sell that reached order_cash leaves a row *)

\* Accepted with its number, accepted without it, or refused (no number either).
Submitted(r, q) ==
  /\ row[r] = NoRow
  /\ kis[r] = Unsent
  /\ \/ /\ Accept(r, q)
        /\ row' = [row EXCEPT ![r] = [status |-> "submitted", qty |-> q, kis |-> r]]
     \/ /\ Accept(r, q) \/ UNCHANGED kis
        /\ row' = [row EXCEPT ![r] = [status |-> "uncertain", qty |-> q, kis |-> NoOrder]]

\* execute_sell refuses while an unverified sell of the symbol exists.
Submit(r) ==
  /\ \A x \in Rows : row[x].status \notin {"submitted", "uncertain"}
  /\ \E q \in 1 .. MaxQty : Submitted(r, q)
  /\ UNCHANGED <<fills, held, stalls, poller, eod, account, origin, restarts>>

-------------------------------------------------------------------------------
(* Recording *)

MarkedFilledWhole(r, ccld, number) ==                                   \* mutant
  /\ fills' = [fills EXCEPT ![r] = row[r].qty]
  /\ row' = [row EXCEPT ![r].status = "filled", ![r].kis = number]

\* _mark_order_filled: what KIS reports, capped at the ordered quantity, is
\* recorded as the difference to what is recorded already.
MarkedFilled(r, ccld, number) ==
  LET qty == AtMost(row[r].qty, ccld)
  IN  /\ fills' = [fills EXCEPT ![r] = IF qty > @ THEN qty ELSE @]
      /\ row' = [row EXCEPT ![r].status = "filled", ![r].kis = number]

MarkedPartialAgain(r, ccld) ==                                          \* mutant
  /\ fills' = [fills EXCEPT ![r] = @ + ccld]
  /\ row' = [row EXCEPT ![r].status = "partial"]

\* _mark_order_partial records the difference uncapped.
MarkedPartial(r, ccld) ==
  /\ fills' = [fills EXCEPT ![r] = IF ccld > @ THEN ccld ELSE @]
  /\ row' = [row EXCEPT ![r].status = "partial"]

-------------------------------------------------------------------------------
(* poll_once *)

PolledSubmitted == {"submitted"}                                        \* mutant
Polled == {"submitted", "partial"}

\* The open orders are loaded ...
PollStart(p) ==
  /\ poller[p].pc = "idle"
  /\ \E r \in Rows : row[r].status \in Polled
  /\ poller' = [poller EXCEPT ![p] =
       [IdlePoll EXCEPT !.pc = "list",
                        !.seen = row,
                        !.todo = {r \in Rows : row[r].status \in Polled}]]
  /\ UNCHANGED <<ledger, broker, stalls, eod, account, origin, restarts>>

\* ... and the order list is asked; an error ends this poll.
PollListed(p) ==
  /\ poller[p].pc = "list"
  /\ poller' = [poller EXCEPT ![p].pc = "match", ![p].list = Listed]
  /\ UNCHANGED <<ledger, broker, stalls, eod, account, origin, restarts>>

PollFails(p) ==
  /\ poller[p].pc = "list"
  /\ poller' = [poller EXCEPT ![p] = IdlePoll]
  /\ UNCHANGED <<ledger, broker, stalls, eod, account, origin, restarts>>

\* An order loaded as submitted that has fills by now is somebody else's work.
Skip(p, r) == poller[p].seen[r].status # "partial" /\ fills[r] > 0

Done(p, r) == [poller[p] EXCEPT !.todo = @ \ {r}, !.pc = "match", !.cur = NoOrder, !.total = -1]

\* Row r's order as the list answered. A polled row has a number.
ListedOrder(p, r) == poller[p].list[poller[p].seen[r].kis]
Unmatched(p) == {r \in poller[p].todo : ListedOrder(p, r) = Unsent}

\* The order is complete: its stall marks go.
Completes(p, r, ccld, number) ==
  /\ MarkedFilled(r, ccld, number)
  /\ progress' = [progress EXCEPT ![r] = Untracked]
  /\ reordered' = reordered \ {r}
  /\ poller' = [poller EXCEPT ![p] = Done(p, r)]

\* The order is partly executed. The second poll in a row without progress
\* sends the rest (rmn shares) again, at most once an order.
Stalls(p, r, ccld, rmn) ==
  LET stall == AtMost(StallThreshold, progress[r].stall + 1)
  IN
  /\ MarkedPartial(r, ccld)
  /\ UNCHANGED reordered
  /\ IF rmn = 0 \/ r \in reordered
       THEN /\ UNCHANGED progress
            /\ poller' = [poller EXCEPT ![p] = Done(p, r)]
     ELSE IF ccld > progress[r].ccld
       THEN /\ progress' = [progress EXCEPT ![r] = [ccld |-> ccld, stall |-> 0]]
            /\ poller' = [poller EXCEPT ![p] = Done(p, r)]
     ELSE /\ progress' = [progress EXCEPT ![r].stall = stall]
          /\ poller' = [poller EXCEPT ![p] =
               IF stall = StallThreshold /\ ReorderEnabled
                 THEN [Done(p, r) EXCEPT !.pc = "reorder", !.cur = r, !.rmn = rmn]
                 ELSE Done(p, r)]

\* First stage: an order in the list.
PollMatch(p, r) ==
  LET order == ListedOrder(p, r)
  IN
  /\ poller[p].pc = "match"
  /\ r \in poller[p].todo \ Unmatched(p)
  /\ \/ /\ Skip(p, r)
        /\ poller' = [poller EXCEPT ![p] = Done(p, r)]
        /\ UNCHANGED <<ledger, stalls>>
     \/ /\ ~Skip(p, r)
        /\ order.done = order.qty \/ ~order.live
        /\ Completes(p, r, order.done, row[r].kis)
     \/ /\ ~Skip(p, r)
        /\ order.done < order.qty /\ order.live
        /\ Stalls(p, r, order.done, order.qty - order.done)
  /\ UNCHANGED <<broker, eod, account, origin, restarts>>

\* Second stage, when no listed order is left: the total of the day is asked.
PollTotal(p, r) ==
  /\ poller[p].pc = "match"
  /\ poller[p].todo = Unmatched(p)
  /\ r \in poller[p].todo
  /\ poller' = [poller EXCEPT ![p] =
       IF Skip(p, r)
         THEN Done(p, r)
         ELSE [@ EXCEPT !.pc = "total", !.cur = r]]
  /\ UNCHANGED <<ledger, broker, stalls, eod, account, origin, restarts>>

\* KIS answers: a real account filters by order number, a paper account adds up
\* the executions of every sell of the symbol.
TotalAnswer(p) ==
  /\ poller[p].pc = "total"
  /\ poller[p].total = -1
  /\ \E n \in 0 .. Holding :
       /\ n = IF account = "real" THEN kis[poller[p].seen[poller[p].cur].kis].done ELSE Executed
       /\ poller' = [poller EXCEPT ![p].total = n]
  /\ UNCHANGED <<ledger, broker, stalls, eod, account, origin, restarts>>

\* What the other orders have recorded by now is taken off the total.
IsolatedWhole(r, total) == AtMost(row[r].qty, total)                    \* mutant
Isolated(r, total) == AtMost(row[r].qty, total - Sum(Rows \ {r}, LAMBDA x : fills[x]))

TotalApply(p) ==
  LET r    == poller[p].cur
      ccld == Isolated(r, poller[p].total)
  IN
  /\ poller[p].pc = "total"
  /\ poller[p].total >= 0
  /\ \/ /\ ccld <= 0
        /\ poller' = [poller EXCEPT ![p] = Done(p, r)]
        /\ UNCHANGED <<ledger, stalls>>
     \/ /\ ccld = row[r].qty
        /\ Completes(p, r, ccld, row[r].kis)
     \/ /\ ccld \in 1 .. (row[r].qty - 1)
        /\ Stalls(p, r, ccld, row[r].qty - ccld)
  /\ UNCHANGED <<broker, eod, account, origin, restarts>>

TotalFails(p) ==
  /\ poller[p].pc = "total"
  /\ poller' = [poller EXCEPT ![p] = Done(p, poller[p].cur)]
  /\ UNCHANGED <<ledger, broker, stalls, eod, account, origin, restarts>>

\* The market order for the remainder; its original stays as it is at KIS. An
\* exception, with the order accepted or not, leaves no row and no mark.
Reorder(p) ==
  LET r == poller[p].cur
  IN
  /\ poller[p].pc = "reorder"
  /\ \/ \E n \in Rows :
          /\ Submitted(n, poller[p].rmn)
          /\ origin' = [origin EXCEPT ![n] = r]
          /\ reordered' = reordered \cup {r}
     \/ /\ UNCHANGED kis \/ \E n \in Rows : row[n] = NoRow /\ Accept(n, poller[p].rmn)
        /\ UNCHANGED <<row, origin, reordered>>
  /\ poller' = [poller EXCEPT ![p].pc = "match", ![p].cur = NoOrder, ![p].rmn = 0]
  /\ UNCHANGED <<fills, held, progress, eod, account, restarts>>

PollEnd(p) ==
  /\ poller[p].pc = "match"
  /\ poller[p].todo = {}
  /\ poller' = [poller EXCEPT ![p] = IdlePoll]
  /\ UNCHANGED <<ledger, broker, stalls, eod, account, origin, restarts>>

-------------------------------------------------------------------------------
(* reconcile_orders_with_kis, the sells *)

Orphans == {r \in Rows : row[r].status \in {"submitted", "uncertain"} /\ fills[r] = 0}

EodStart ==
  /\ Reconciles
  /\ eod.pc = "idle"
  /\ Orphans # {}
  /\ eod' = [pc |-> "list", todo |-> Orphans, list |-> NoList]
  /\ UNCHANGED <<ledger, broker, stalls, poller, account, origin, restarts>>

\* An error postpones every orphan.
EodList ==
  /\ eod.pc = "list"
  /\ \/ eod' = [eod EXCEPT !.pc = "match", !.list = Listed]
     \/ eod' = IdleEod
  /\ UNCHANGED <<ledger, broker, stalls, poller, account, origin, restarts>>

\* An executed order of the symbol, one of the same quantity first.
Matches(r) ==
  LET executed == {k \in Rows : eod.list[k] # Unsent}
      exact    == {k \in executed : eod.list[k].done = row[r].qty}
  IN  IF exact # {} THEN exact ELSE executed

EodMatch ==
  /\ eod.pc = "match"
  /\ \E r \in eod.todo :
       /\ \/ \E k \in Matches(r) : MarkedFilled(r, eod.list[k].done, k)
          \/ /\ Matches(r) = {}
             /\ row' = [row EXCEPT ![r].status = "cancelled"]
             /\ UNCHANGED fills
       /\ eod' = IF eod.todo = {r} THEN IdleEod ELSE [eod EXCEPT !.todo = @ \ {r}]
  /\ UNCHANGED <<broker, stalls, poller, account, origin, restarts>>

-------------------------------------------------------------------------------
\* Tasks and the stall marks are lost.
Restart ==
  /\ restarts < MaxRestarts
  /\ restarts' = restarts + 1
  /\ progress' = [r \in Rows |-> Untracked]
  /\ reordered' = {}
  /\ poller' = [p \in Pollers |-> IdlePoll]
  /\ eod' = IdleEod
  /\ UNCHANGED <<ledger, broker, account, origin>>

Init ==
  /\ row = [r \in Rows |-> NoRow]
  /\ fills = [r \in Rows |-> 0]
  /\ kis = [r \in Rows |-> Unsent]
  /\ held = Holding
  /\ progress = [r \in Rows |-> Untracked]
  /\ reordered = {}
  /\ poller = [p \in Pollers |-> IdlePoll]
  /\ eod = IdleEod
  /\ account \in Accounts
  /\ origin = [r \in Rows |-> NoOrder]
  /\ restarts = 0

PollStep(p) ==
  \/ PollStart(p)
  \/ PollListed(p)
  \/ PollFails(p)
  \/ \E r \in Rows : PollMatch(p, r) \/ PollTotal(p, r)
  \/ TotalAnswer(p)
  \/ TotalApply(p)
  \/ TotalFails(p)
  \/ Reorder(p)
  \/ PollEnd(p)

Next ==
  \/ \E r \in Rows : Submit(r) \/ Execute(r) \/ Expire(r)
  \/ \E p \in Pollers : PollStep(p)
  \/ EodStart
  \/ EodList
  \/ EodMatch
  \/ Restart

Spec == Init /\ [][Next]_vars

\* A poller runs every minute while the engine is active, and KIS does not fail
\* to list the orders forever.
PollerRuns(p) == WF_vars(PollStep(p)) /\ SF_vars(PollListed(p))
PollersRun    == \A p \in Pollers : PollerRuns(p)
FairSpec      == Spec /\ PollersRun

-------------------------------------------------------------------------------
TypeOK ==
  /\ row \in [Rows -> Row]
  /\ fills \in [Rows -> 0 .. Holding]
  /\ kis \in [Rows -> KisOrder]
  /\ held \in 0 .. Holding
  /\ progress \in [Rows -> Progress]
  /\ reordered \subseteq Rows
  /\ poller \in [Pollers -> Poll]
  /\ eod \in Eod
  /\ account \in Accounts
  /\ origin \in [Rows -> Rows \cup {NoOrder}]
  /\ restarts \in 0 .. MaxRestarts

\* However many polls and reconciliations overlap, no order row records more
\* shares than it ordered (position math and P&L add up the fills), although only
\* full executions are capped at the order. The number of another order, which the
\* EOD reconciliation may write to a row, is what breaks it: it is excluded.
RecordedWithinOrder ==
  \A r \in Rows : row[r].kis \in {r, NoOrder} => fills[r] <= row[r].qty

\* The fills of the day never add up to more than KIS executed, although the
\* paper account only reports totals and two polls may work on the same total.
NoInventedFills == account = "paper" => Sum(Rows, LAMBDA r : fills[r]) <= Executed

\* While only the pollers write, a row of a real account records executions of its
\* own KIS order and no other, although the second stage works on totals.
OwnFills == account = "real" => \A r \in Rows : fills[r] <= kis[r].done

\* The docstring of the reconciliation: a row is cancelled when KIS shows no
\* execution of it, so a cancelled row has recorded none.
CancelledHasNoFills == \A r \in Rows : row[r].status = "cancelled" => fills[r] = 0

\* The promise of OrderLedger, with one poller and no reconciliation beside it.
Ledger == INSTANCE OrderLedger WITH
            ordered  <- [r \in Rows |-> row[r].qty],
            recorded <- fills,
            closed   <- {r \in Rows : row[r].status = "filled"}
LedgerSpec == Ledger!Spec

\* What a real account executed of an order with a known number is recorded in
\* the end, whatever polls fail, stall, reorder or are cut by a restart.
ExecutionsRecorded ==
  \A r \in Rows, n \in 1 .. MaxQty :
    account = "real" /\ row[r].kis = r /\ kis[r].done >= n ~> fills[r] >= n

\* Every poll comes to an end.
PollEnds(p) == poller[p].pc # "idle" ~> poller[p].pc = "idle"
PollsOver   == \A p \in Pollers : PollEnds(p)

\* A poller with a row to ask about can ask.
PollsCanRun == \A p \in Pollers :
  /\ poller[p].pc = "idle" /\ (\E r \in Rows : row[r].status \in Polled) =>
       ENABLED <<PollStep(p)>>_vars
  /\ poller[p].pc = "list" => ENABLED <<PollListed(p)>>_vars

\* The comment on _REMAINDER_REORDERED: one reorder for an order, ever.
RemainderReorderedOnce ==
  \A r \in Rows : Cardinality({n \in Rows : origin[n] = r}) <= 1
===============================================================================

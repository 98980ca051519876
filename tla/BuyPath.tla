-------------------------------- MODULE BuyPath --------------------------------
(***************************************************************************)
(* From a buy signal to an order: the signal DecisionEngine emits, the      *)
(* queue at OrderExecutor.execute_signal, its retries, the deployment gate  *)
(* of preflight on a cached balance and the buys in flight, the submission  *)
(* and its retries, and what lets a symbol be signalled again.              *)
(*                                                                         *)
(* Every action is the code a task runs from one await to the next, except  *)
(* that the sleeps around one order_cash call belong to it. Every order is  *)
(* of one unit; the deployment target is a number of units. Prices, sizes   *)
(* and the numbers of orders are left out, and so are the exceptions that   *)
(* come after an order was accepted and before its row is saved.            *)
(***************************************************************************)
EXTENDS Integers, FiniteSets

CONSTANTS
  Signals,      \* ids of trading_signals rows
  Symbols,
  Orders,       \* buy orders at KIS
  Target,       \* units that may be deployed (get_active_budget_rate)
  BuyMaxRetry,  \* _BUY_MAX_RETRY
  SubmitTries,  \* order_cash calls of one _submit_buy
  MaxRestarts,  \* bound on process restarts
  None

ASSUME TargetAssumption == Target \in Nat
ASSUME RetryAssumption  == BuyMaxRetry \in Nat \ {0} /\ SubmitTries \in Nat \ {0}
ASSUME NoneAssumption   == None \notin Signals \cup Symbols \cup Orders
ASSUME OrdersAssumption == IsFiniteSet(Orders) /\ IsFiniteSet(Signals) /\ MaxRestarts \in Nat

VARIABLES
  sig,        \* trading_signals, and the task that executes each
  holder,     \* signal whose task holds the semaphore
  sent,       \* DecisionEngine._signal_sent
  managed,    \* symbols of PositionManager
  order,      \* buy orders at KIS
  balance,    \* the balance cache: used before it expires, and the holdings it shows
  inflight,   \* signals with an entry in _inflight_buys
  recent,     \* signals whose order row is not five minutes old
  halt,       \* risk.emergency_halt_enabled
  unseen,     \* history: accepted orders the gate does not count any more, or never did
  forced,     \* history: symbols that could be signalled again, or were, while an
              \* earlier buy of theirs was under way or open
  through,    \* history: signals with an order accepted since the halt
  restarts

task    == <<sig, holder>>
market  == <<order, managed>>
gate    == <<balance, inflight>>
history == <<unseen, forced, through>>
vars    == <<sig, holder, sent, managed, order, balance, inflight, recent, halt,
             unseen, forced, through, restarts>>

-------------------------------------------------------------------------------
(* Data *)

Statuses == {"none", "pending", "preflight_blocked", "failed", "skipped_no_room", "executed"}
Working  == {"begin", "balance", "submit"}
Signal   == [status  : Statuses,
             pc      : {"none", "queued", "done"} \cup Working,
             symbol  : Symbols \cup {None},
             order   : Orders \cup {None},      \* the order its row stands for
             attempt : 0 .. BuyMaxRetry - 1,
             try     : 0 .. SubmitTries - 1]
NoSignal == [status |-> "none", pc |-> "none", symbol |-> None, order |-> None,
             attempt |-> 0, try |-> 0]

Order   == [state : {"none", "open", "held", "gone"}, symbol : Symbols \cup {None}]
NoOrder == [state |-> "none", symbol |-> None]
Gone    == [state |-> "gone", symbol |-> None]

Stale == [fresh |-> FALSE, shows |-> {}]

Held      == {k \in Orders : order[k].state = "held"}
Open      == {k \in Orders : order[k].state = "open"}
Committed == Held \cup Open

Active(s) == sig[s].pc \in {"queued"} \cup Working
Underway(x) ==
  \/ \E s \in Signals : Active(s) /\ sig[s].symbol = x
  \/ \E k \in Committed : order[k].symbol = x

-------------------------------------------------------------------------------
(* The signal *)

\* _emit_signal: the row, the mark and the task, without an await between them.
Emitted(s, x) ==
  /\ sig[s] = NoSignal
  /\ sig' = [sig EXCEPT ![s] = [NoSignal EXCEPT !.status = "pending", !.pc = "queued", !.symbol = x]]
  /\ sent' = sent \cup {x}

OnTickUnmarked(s, x) ==                                                 \* mutant
  /\ x \notin managed
  /\ Emitted(s, x)
  /\ UNCHANGED <<holder, market, gate, recent, halt, history, restarts>>

\* _on_tick: not for a symbol that is managed or signalled.
OnTick(s, x) ==
  /\ x \notin managed
  /\ x \notin sent
  /\ Emitted(s, x)
  /\ UNCHANGED <<holder, market, gate, recent, halt, history, restarts>>

\* The replacement and the momentum entry emit for symbols they chose earlier: a
\* replacement may be held already, and nobody asks _signal_sent.
Direct(s, x) ==
  /\ Emitted(s, x)
  /\ forced' = IF Underway(x) THEN forced \cup {x} ELSE forced
  /\ UNCHANGED <<holder, market, gate, recent, halt, unseen, through, restarts>>

-------------------------------------------------------------------------------
(* execute_signal *)

AcquireAtOnce(s) ==                                                     \* mutant
  /\ sig[s].pc = "queued"
  /\ holder' = s
  /\ sig' = [sig EXCEPT ![s].pc = "begin"]
  /\ UNCHANGED <<sent, market, gate, recent, halt, history, restarts>>

Acquire(s) ==
  /\ sig[s].pc = "queued"
  /\ holder = None
  /\ holder' = s
  /\ sig' = [sig EXCEPT ![s].pc = "begin"]
  /\ UNCHANGED <<sent, market, gate, recent, halt, history, restarts>>

\* Without success the symbol may be signalled again.
Refused(s, status) ==
  /\ sig' = [sig EXCEPT ![s].status = status, ![s].pc = "done",
                             ![s].attempt = 0, ![s].try = 0]
  /\ holder' = None
  /\ sent' = sent \ {sig[s].symbol}

FailedOnceMore(s, status) ==                                            \* mutant
  IF sig[s].attempt < BuyMaxRetry
    THEN /\ sig' = [sig EXCEPT ![s].status = status, ![s].pc = "begin",
                               ![s].attempt = @ + 1, ![s].try = 0]
         /\ UNCHANGED <<holder, sent>>
    ELSE Refused(s, status)

\* A failed attempt is repeated, with the semaphore held.
Failed(s, status) ==
  IF sig[s].attempt + 1 < BuyMaxRetry
    THEN /\ sig' = [sig EXCEPT ![s].status = status, ![s].pc = "begin",
                               ![s].attempt = @ + 1, ![s].try = 0]
         /\ UNCHANGED <<holder, sent>>
    ELSE Refused(s, status)

\* Deployed units as the gate sees them: _current_deployed.
DeployedShown(shows) == Cardinality(shows)                              \* mutant
Deployed(shows) == Cardinality(shows) + Cardinality(inflight)

\* Sizing and run_preflight on a balance. The other checks of preflight (hours,
\* losses, data quality, regime) may refuse any time.
Sized(s, shows) ==
  \/ Failed(s, "skipped_no_room")
  \/ Refused(s, "preflight_blocked")
  \/ /\ ~halt
     /\ Deployed(shows) < Target
     /\ sig' = [sig EXCEPT ![s].pc = "submit", ![s].try = 0]
     /\ UNCHANGED <<holder, sent>>

\* _execute_signal_inner up to its first await: the halt, then the cached balance.
Begin(s) ==
  /\ sig[s].pc = "begin"
  /\ \/ /\ halt
        /\ Refused(s, "preflight_blocked")
     \/ /\ ~halt
        /\ ~balance.fresh
        /\ sig' = [sig EXCEPT ![s].pc = "balance"]
        /\ UNCHANGED <<holder, sent>>
     \/ /\ ~halt
        /\ balance.fresh
        /\ Sized(s, balance.shows)
  /\ UNCHANGED <<market, gate, recent, halt, history, restarts>>

\* KIS answers what is held, or fails.
Balance(s) ==
  /\ sig[s].pc = "balance"
  /\ \/ /\ balance' = [fresh |-> TRUE, shows |-> Held]
        /\ Sized(s, Held)
     \/ /\ Failed(s, "failed")
        /\ UNCHANGED balance
  /\ UNCHANGED <<market, inflight, recent, halt, history, restarts>>

-------------------------------------------------------------------------------
(* _submit_buy and what follows it *)

Accepted(s, k) ==
  /\ order[k] = NoOrder
  /\ order' = [order EXCEPT ![k] = [state |-> "open", symbol |-> sig[s].symbol]]
  /\ through' = IF halt THEN through \cup {s} ELSE through

NotAccepted == UNCHANGED <<order, through>>

\* A failed submission is sent again, accepted or not, without a look at the halt
\* or at the gate.
SubmitFails(s) ==
  /\ sig[s].pc = "submit"
  /\ \/ NotAccepted /\ UNCHANGED unseen
     \/ \E k \in Orders : Accepted(s, k) /\ unseen' = unseen \cup {k}
  /\ IF sig[s].try + 1 < SubmitTries
       THEN sig' = [sig EXCEPT ![s].try = @ + 1] /\ UNCHANGED <<holder, sent>>
       ELSE Failed(s, "failed")
  /\ UNCHANGED <<managed, gate, recent, halt, forced, restarts>>

\* An answer, even one without a number (a rejection too), is a submitted order: a
\* row, an amount in flight, a position, and the balance is not trusted any more.
Recorded(s, k) ==
  /\ sig' = [sig EXCEPT ![s].status = "executed", ![s].pc = "done", ![s].order = k,
                             ![s].attempt = 0, ![s].try = 0]
  /\ holder' = None
  /\ inflight' = inflight \cup {s}
  /\ balance' = Stale
  /\ managed' = managed \cup {sig[s].symbol}
  /\ recent' = recent \cup {s}

Submits(s) ==
  /\ sig[s].pc = "submit"
  /\ \/ \E k \in Orders : Accepted(s, k) /\ Recorded(s, k)
     \/ NotAccepted /\ Recorded(s, None)
  /\ UNCHANGED <<sent, halt, unseen, forced, restarts>>

-------------------------------------------------------------------------------
(* KIS, the account sync and the clocks *)

Executes(k) ==
  /\ order[k].state = "open"
  /\ order' = [order EXCEPT ![k].state = "held"]
  /\ UNCHANGED <<task, sent, managed, gate, recent, halt, history, restarts>>

Expires(k) ==
  /\ order[k].state = "open"
  /\ order' = [order EXCEPT ![k] = Gone]
  /\ UNCHANGED <<task, sent, managed, gate, recent, halt, history, restarts>>

RecentBuy(x) == \E s \in recent : sig[s].symbol = x

\* Candidates without a position or a recent order may be signalled again:
\* on_position_slot_opened, when symbol x is sold by a trailing stop.
Rearms(x, kept) == {y \in sent : y = x \/ y \in kept \/ RecentBuy(y)}

\* All of a symbol is sold.
Exits(x) ==
  LET kept == managed \ {x}
  IN
  /\ x \in managed
  /\ \E k \in Held : order[k].symbol = x
  /\ managed' = kept
  /\ order' = [k \in Orders |-> IF k \in Held /\ order[k].symbol = x
                                  THEN Gone
                                  ELSE order[k]]
  /\ \/ /\ sent' = Rearms(x, kept)
        /\ forced' = forced \cup {y \in sent \ Rearms(x, kept) : Underway(y)}
     \/ UNCHANGED <<sent, forced>>
  /\ UNCHANGED <<task, gate, recent, halt, unseen, through, restarts>>

HeldSymbols == {order[k].symbol : k \in Held}

\* The account sync: holdings are managed, the rest is not unless bought lately.
Syncs ==
  /\ managed' = HeldSymbols \cup {x \in managed : RecentBuy(x)}
  /\ UNCHANGED <<task, sent, order, gate, recent, halt, history, restarts>>

BalanceExpires ==
  /\ balance.fresh
  /\ balance' = Stale
  /\ UNCHANGED <<task, sent, market, inflight, recent, halt, history, restarts>>

\* An order the balance in use does not show, or the next one may not.
Uncounted(s) == {k \in Committed : k = sig[s].order /\ (balance.fresh => k \notin balance.shows)
                                                   /\ (k \in Held => balance.fresh)}

\* _INFLIGHT_TTL: a minute later the amount is dropped, executed or not.
InflightExpires(s) ==
  /\ s \in inflight
  /\ inflight' = inflight \ {s}
  /\ unseen' = unseen \cup Uncounted(s)
  /\ UNCHANGED <<task, sent, market, balance, recent, halt, forced, through, restarts>>

Ages(s) ==
  /\ s \in recent \ inflight
  /\ recent' = recent \ {s}
  /\ UNCHANGED <<task, sent, market, gate, halt, history, restarts>>

HaltOrResume ==
  /\ halt' = ~halt
  /\ through' = {}
  /\ UNCHANGED <<task, sent, market, gate, recent, unseen, forced, restarts>>

\* Memory is lost; a row that was pending stays pending. The activation marks the
\* symbols of every signal that did not end blocked or failed (_load_sent_symbols).
\* A request on its way may still be accepted.
Restart ==
  /\ restarts < MaxRestarts
  /\ restarts' = restarts + 1
  /\ sig' = [s \in Signals |-> IF Active(s) THEN [sig[s] EXCEPT !.pc = "done", !.attempt = 0, !.try = 0]
                                ELSE sig[s]]
  /\ holder' = None
  /\ sent' = {sig[s].symbol : s \in {t \in Signals :
                sig[t].status \in {"pending", "skipped_no_room", "executed"}}}
  /\ balance' = Stale
  /\ inflight' = {}
  /\ managed' = HeldSymbols \cup {x \in Symbols : RecentBuy(x)}
  /\ \/ /\ unseen' = unseen \cup Open
        /\ UNCHANGED <<order, through>>
     \/ \E s \in Signals, k \in Orders :
          /\ sig[s].pc = "submit"
          /\ Accepted(s, k)
          /\ unseen' = unseen \cup Open \cup {k}
  /\ UNCHANGED <<recent, halt, forced>>

\* The day may begin with one holding of before.
Init ==
  /\ sig = [s \in Signals |-> NoSignal]
  /\ holder = None
  /\ sent = {}
  /\ order \in {[k \in Orders |-> NoOrder]}
       \cup {[[k \in Orders |-> NoOrder] EXCEPT ![h] = [state |-> "held", symbol |-> x]] :
               h \in Orders, x \in Symbols}
  /\ Cardinality(Held) <= Target
  /\ managed = HeldSymbols
  /\ balance = Stale
  /\ inflight = {}
  /\ recent = {}
  /\ halt = FALSE
  /\ unseen = {}
  /\ forced = {}
  /\ through = {}
  /\ restarts = 0

Execution(s) ==
  \/ Acquire(s)
  \/ Begin(s)
  \/ Balance(s)
  \/ SubmitFails(s)
  \/ Submits(s)

Next ==
  \/ \E s \in Signals, x \in Symbols : OnTick(s, x) \/ Direct(s, x)
  \/ \E s \in Signals : Execution(s) \/ InflightExpires(s) \/ Ages(s)
  \/ \E k \in Orders : Executes(k) \/ Expires(k)
  \/ \E x \in Symbols : Exits(x)
  \/ Syncs
  \/ BalanceExpires
  \/ HaltOrResume
  \/ Restart

Spec == Init /\ [][Next]_vars

-------------------------------------------------------------------------------
TypeOK ==
  /\ sig \in [Signals -> Signal]
  /\ holder \in Signals \cup {None}
  /\ sent \subseteq Symbols
  /\ managed \subseteq Symbols
  /\ order \in [Orders -> Order]
  /\ balance \in [fresh : BOOLEAN, shows : SUBSET Orders]
  /\ inflight \subseteq Signals
  /\ recent \subseteq Signals
  /\ halt \in BOOLEAN
  /\ unseen \subseteq Orders
  /\ forced \subseteq Symbols
  /\ through \subseteq Signals
  /\ restarts \in 0 .. MaxRestarts

\* A burst of signals on one cached balance never deploys more than the target, held
\* or open, but for orders the engine never learnt of or stopped counting: answers
\* that were lost, and amounts dropped a minute after the submission.
WithinTarget == Cardinality(Committed \ unseen) <= Target

\* A symbol is not bought twice over, unless it was re-armed, or chosen by the
\* replacement or the momentum entry, while a buy of it was under way.
BoughtOnce ==
  \A k, m \in Committed \ unseen :
    order[k].symbol = order[m].symbol /\ order[k].symbol \notin forced => k = m

\* An emergency halt lets at most the one signal through that was past preflight.
HaltLetsOneThrough == halt => Cardinality(through) <= 1
===============================================================================

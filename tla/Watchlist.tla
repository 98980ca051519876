------------------------------- MODULE Watchlist -------------------------------
(***************************************************************************)
(* Which symbols the realtime feed subscribes, and the REST backup of the   *)
(* stops of those whose ticks do not come. The account sync, the slot that  *)
(* an exit opens, the momentum scan and the re-selection each compute a     *)
(* list, have the feed stopped, and install the list when it has ended;     *)
(* the screening (S4) does so with its candidates alone.                    *)
(*                                                                         *)
(* Every action is the code a task runs from one await to the next. The     *)
(* decision engine is on (EngineDay turns it on and off) and its list at    *)
(* first is what activate() left. What the feed does when it is stopped and *)
(* started is RealtimeFeed's: here a stop silences it and a start that was  *)
(* waited for makes it tick, also when there was nothing to stop. What a    *)
(* price leads to is StopLine's and ExitPath's, which the symbols marked    *)
(* as closing are left to. The order within a list is any order.            *)
(***************************************************************************)
EXTENDS Naturals, FiniteSets, Subscription

CONSTANTS
  Cap,      \* realtime.ws_max, the subscriptions KIS allows
  MaxHeld,  \* bound on the positions held at a time
  MaxBusy   \* bound on the restarts of the feed under way at a time

ASSUME WatchAssumption ==
  /\ IsFiniteSet(Symbols)
  /\ Cap \in Nat \ {0}
  /\ MaxHeld \in Nat
  /\ MaxHeld <= Cap      \* above it start() cuts holdings off, whatever their order
  /\ MaxBusy \in Nat

\* Beside those of Subscription.
VARIABLES
  candidates, \* DecisionEngine._candidates
  screened,   \* the latest S4 row of today
  fresh,      \* _last_tick_by_symbol: ticked in the last 45 seconds
  polled      \* symbols the REST backup has still to ask a price of

lists  == <<list, feed, kept>>
prices == <<fresh, due, polled>>
vars   == <<managed, candidates, screened, list, feed, kept, task, fresh, due, polled>>

-------------------------------------------------------------------------------
(* Data *)

Tasks == {"sync", "slot", "scan", "reselect", "hand"}   \* "hand": S4 by hand

\* "stop": awaits its stop(); "start": awaits the stop() in start(); "screen": awaits
\* S4's start(); "halt": awaits a stop() that no start() follows.
Places == {"idle", "stop", "start", "screen", "halt"}

Some    == {L \in SUBSET Symbols : Cardinality(L) <= Cap}
Held    == {h \in SUBSET Symbols : Cardinality(h) <= MaxHeld}
Waiting == [pc : Places, list : Some, late : BOOLEAN]   \* late: as not kept
Idle    == [pc |-> "idle", list |-> {}, late |-> FALSE]

Least(m, n)    == IF m < n THEN m ELSE n

CandidatesFirst(h, c) ==                                                \* mutant
  {L \in SUBSET (h \cup c) : /\ Cardinality(L) = Least(Cardinality(h \cup c), Cap)
                             /\ c \subseteq L \/ L \subseteq c}
Uncut(h, c) == {h \cup c}                                               \* mutant

\* _subscription_symbols: the holdings, and candidates up to the cap.
HeldFirst(h, c) ==
  {L \in SUBSET (h \cup c) : /\ h \subseteq L
                             /\ Cardinality(L) = Least(Cardinality(h \cup c), Cap)}

-------------------------------------------------------------------------------
(* Stopping and starting the feed *)

Free(t) == task[t].pc = "idle"
Room(t) == Free(t) /\ Cardinality({u \in Tasks : ~Free(u)}) < MaxBusy

\* Task u has computed a list for the engine that it will install.
Installs(u) == task[u].pc \in {"stop", "start"}

\* The symbols A come to be managed: the lists computed before have not heard of them.
Late(u, A) ==
  IF Installs(u)
    THEN [task[u] EXCEPT !.late = @ \/ ~(A \subseteq task[u].list)]
    ELSE task[u]

\* Task t goes to pc with the list L.
Turns(t, pc, L) == task' = [task EXCEPT ![t] = [pc |-> pc, list |-> L, late |-> FALSE]]

Rests(t) == task' = [task EXCEPT ![t] = Idle]

Silenced == /\ feed' = FALSE
            /\ UNCHANGED <<list, kept>>

\* start() has waited: the list is in force.
Installed(t) ==
  /\ list' = task[t].list
  /\ feed' = TRUE

-------------------------------------------------------------------------------
(* What changes the holdings *)

\* The holdings become h: a position that is new has still to be judged.
Holds(h) ==
  /\ managed' = h
  /\ due' = (due \cap h) \cup (h \ managed)

\* _run_account_sync_once: the account's holdings are taken over; a change of them, or
\* of a quantity, has the list refreshed unless it is the list in force.
Syncs(h) ==
  /\ Free("sync")
  /\ Holds(h)
  /\ \/ /\ h = managed
        /\ UNCHANGED <<lists, task>>
     \/ \E L \in HeldFirst(h, candidates) :
          \/ /\ L \in {{}, list}
             /\ task' = [u \in Tasks |-> Late(u, h \ managed)]
             /\ UNCHANGED lists
          \/ /\ L # {}
             /\ Room("sync")
             /\ task' = [u \in Tasks |-> IF u = "sync"
                                          THEN [pc |-> "start", list |-> L, late |-> FALSE]
                                          ELSE Late(u, h \ managed)]
             /\ Silenced
  /\ UNCHANGED <<candidates, screened, fresh, polled>>

\* add_position when KIS has accepted the buy: nobody refreshes the list.
Buys(x) ==
  /\ x \notin managed
  /\ Cardinality(managed) < MaxHeld
  /\ Holds(managed \cup {x})
  /\ kept' = (kept /\ x \in list)
  /\ task' = [u \in Tasks |-> Late(u, {x})]
  /\ UNCHANGED <<candidates, screened, list, feed, fresh, polled>>

\* remove_position when the sell has executed: nor here.
Exits(x) ==
  /\ x \in managed
  /\ Holds(managed \ {x})
  /\ UNCHANGED <<candidates, screened, lists, task, fresh, polled>>

-------------------------------------------------------------------------------
(* What changes the list *)

\* The feed is stopped by t, and by t alone: no list is in force.
StopsOnly(t) ==
  /\ Turns(t, "halt", {})
  /\ feed' = FALSE
  /\ kept' = FALSE
  /\ UNCHANGED list

\* on_position_slot_opened. Without candidates and holdings start() raises, after the stop().
SlotOpens ==
  /\ Room("slot")
  /\ \E L \in HeldFirst(managed, candidates) :
       \/ L # {} /\ Turns("slot", "stop", L) /\ Silenced
       \/ L = {} /\ StopsOnly("slot")
  /\ UNCHANGED <<managed, candidates, screened, prices>>

\* add_momentum_candidates: candidates it has not yet.
Adds(C) ==
  /\ Room("scan")
  /\ C # {}
  /\ C \cap candidates = {}
  /\ candidates' = candidates \cup C
  /\ \E L \in HeldFirst(managed, candidates \cup C) : Turns("scan", "start", L)
  /\ Silenced
  /\ UNCHANGED <<managed, screened, prices>>

\* run_hybrid_screening has its candidates C saved: they are subscribed, and they alone.
\* Without any the feed is stopped (S3 left no universe) or nothing is done.
Screens(t, C) ==
  /\ t \in {"reselect", "hand"}
  /\ Room(t)
  /\ screened' = C
  /\ \/ /\ C # {}
        /\ Turns(t, "screen", C)
        /\ Silenced
     \/ C = {} /\ StopsOnly(t)
     \/ /\ C = {}
        /\ UNCHANGED <<lists, task>>
  /\ UNCHANGED <<managed, candidates, prices>>

\* S4's start() returns to a caller that does nothing more.
ScreenedByHand ==
  /\ task["hand"].pc = "screen"
  /\ Installed("hand")
  /\ kept' = FALSE
  /\ Rests("hand")
  /\ UNCHANGED <<managed, candidates, screened, prices>>

\* S4's start() returns to the re-selection, which reaches the stop() of
\* refresh_candidates without an await; another S4 may have replaced the row by then.
Reselected ==
  /\ task["reselect"].pc = "screen"
  /\ list' = task["reselect"].list
  /\ kept' = FALSE
  /\ \/ /\ screened = {}
        /\ feed' = TRUE
        /\ Rests("reselect")
        /\ UNCHANGED candidates
     \/ /\ screened # {}
        /\ candidates' = screened
        /\ feed' = FALSE
        /\ \E L \in HeldFirst(managed, screened) : Turns("reselect", "stop", L)
  /\ UNCHANGED <<managed, screened, prices>>

\* The stop() of S4, or of the slot, returns. refresh_candidates finds no candidates and
\* leaves the feed stopped, unless another S4 has found some since.
Halted(t) ==
  /\ task[t].pc = "halt"
  /\ \/ /\ t # "reselect" \/ screened = {}
        /\ Rests(t)
        /\ UNCHANGED <<candidates, lists>>
     \/ /\ t = "reselect"
        /\ screened # {}
        /\ candidates' = screened
        /\ \E L \in HeldFirst(managed, screened) : Turns(t, "stop", L)
        /\ Silenced
  /\ UNCHANGED <<managed, screened, prices>>

\* stop() returns and start() stops whatever runs by now.
StopsAgain(t) ==
  /\ task[t].pc = "stop"
  /\ task' = [task EXCEPT ![t].pc = "start"]
  /\ Silenced
  /\ UNCHANGED <<managed, candidates, screened, prices>>

Starts(t) ==
  /\ task[t].pc = "start"
  /\ Installed(t)
  /\ kept' = ~task[t].late
  /\ Rests(t)
  /\ UNCHANGED <<managed, candidates, screened, prices>>

-------------------------------------------------------------------------------
(* Prices *)

\* on_tick
Ticks(x) ==
  /\ feed
  /\ x \in list
  /\ fresh' = fresh \cup {x}
  /\ due' = due \ {x}
  /\ UNCHANGED <<managed, candidates, screened, lists, task, polled>>

\* 45 seconds without a tick of x.
Stales(x) ==
  /\ x \in fresh
  /\ fresh' = fresh \ {x}
  /\ UNCHANGED <<managed, candidates, screened, lists, task, due, polled>>

\* A while without a price of x.
FallsDue(x) ==
  /\ x \in managed \ due
  /\ due' = due \cup {x}
  /\ UNCHANGED <<managed, candidates, screened, lists, task, fresh, polled>>

PollsIfSilent ==                                                        \* mutant
  /\ polled = {}
  /\ fresh = {}
  /\ polled' = managed
  /\ UNCHANGED <<managed, candidates, screened, lists, task, fresh, due>>

\* job_stop_loss_backup: the positions without a recent tick of their own.
Polls ==
  /\ polled = {}
  /\ polled' = managed \ fresh
  /\ UNCHANGED <<managed, candidates, screened, lists, task, fresh, due>>

\* A price, KIS's own or the one in the balance, goes the way of a tick.
PollsPrice(x) ==
  /\ x \in polled
  /\ polled' = polled \ {x}
  /\ due' = due \ {x}
  /\ UNCHANGED <<managed, candidates, screened, lists, task, fresh>>

\* No price; or the position is gone.
PollFails(x) ==
  /\ x \in polled
  /\ polled' = polled \ {x}
  /\ UNCHANGED <<managed, candidates, screened, lists, task, fresh, due>>

-------------------------------------------------------------------------------
(* Specification *)

\* activate() has subscribed the candidates, if the day has any, and then the holdings as
\* far as they fit.
Init ==
  /\ managed \in Held
  /\ candidates \in SUBSET Symbols
  /\ screened = candidates
  /\ list \in {L \in Some : L \subseteq managed \cup candidates /\ L # {}}
  /\ candidates \subseteq list \/ list \subseteq candidates
  /\ feed = TRUE
  /\ task = [t \in Tasks |-> Idle]
  /\ kept = FALSE
  /\ fresh = {}
  /\ due = managed
  /\ polled = {}

Lists ==
  \/ \E h \in Held : Syncs(h)
  \/ \E C \in Some : Adds(C) \/ \E t \in Tasks : Screens(t, C)
  \/ SlotOpens \/ ScreenedByHand \/ Reselected
  \/ \E t \in Tasks : Halted(t) \/ StopsAgain(t) \/ Starts(t)

Prices == \/ Polls
          \/ \E x \in Symbols : Ticks(x) \/ Stales(x) \/ FallsDue(x) \/ PollsPrice(x) \/ PollFails(x)

Next == \/ Lists \/ Prices
        \/ \E x \in Symbols : Buys(x) \/ Exits(x)

Spec == Init /\ [][Next]_vars

\* The job comes round every 30 seconds and time passes. Queries return or time out,
\* and a price that is asked for again and again is had at some time: the queries of a
\* symbol do not fail for ever.
PriceComes(x) == WF_vars(Stales(x)) /\ SF_vars(PollsPrice(x))
PricesCome    == \A x \in Symbols : PriceComes(x)

FairSpec == Spec /\ WF_vars(Polls) /\ PricesCome

-------------------------------------------------------------------------------
(* Properties *)

\* The variables have their types: no list is longer than KIS allows, and what waits to
\* be judged is managed.
TypeOK ==
  /\ managed \in Held
  /\ candidates \subseteq Symbols
  /\ screened \subseteq Symbols
  /\ list \in Some
  /\ feed \in BOOLEAN
  /\ task \in [Tasks -> Waiting]
  /\ kept \in BOOLEAN
  /\ fresh \subseteq Symbols
  /\ due \subseteq managed
  /\ polled \subseteq Symbols

\* Every round of the job comes to its end.
RoundsEnd == []<>(polled = {})

\* Sleeps, rounds and queries can go on.
PricesCanRun ==
  /\ polled = {} /\ managed \ fresh # {} => ENABLED <<Polls>>_vars
  /\ \A x \in fresh : ENABLED <<Stales(x)>>_vars
  /\ \A x \in polled : ENABLED <<PollsPrice(x)>>_vars
===============================================================================

----------------------------- MODULE BuyPathProofs ------------------------------
(***************************************************************************)
(* Proofs about BuyPath, for any signals, symbols, orders, target and       *)
(* numbers of tries: the deployment target holds through bursts of signals  *)
(* on one cached balance, a symbol is not bought twice over, and a halt     *)
(* lets one signal through.                                                 *)
(***************************************************************************)
EXTENDS BuyPath, FiniteSetTheorems, TLAPS

-------------------------------------------------------------------------------
(* The inductive invariant *)

\* The accepted orders the engine counts.
Seen == Committed \ unseen

\* One signal at a time is past the semaphore.
Serial == \A s \in Signals : sig[s].pc \in Working => holder = s

\* During a halt, a signal with an accepted order is the only one, and no other one is
\* past preflight.
Halted ==
  halt => \A s \in through, t \in Signals :
            t \in through \/ sig[t].pc = "submit" => t = s

\* What the gate will count: the balance shows no order that may still execute, a
\* signal with an amount in flight is done, and each order the engine knows of is in
\* flight or in the balance, the one in use or the next one.
InBalance(k) == IF balance.fresh THEN k \in balance.shows ELSE k \in Held
Counted ==
  /\ \A k \in balance.shows : order[k].state \in {"held", "gone"}
  /\ \A s \in inflight : sig[s].pc = "done"
  /\ \A k \in Seen : InBalance(k) \/ \E s \in inflight : sig[s].order = k

\* A signal past preflight has found room for its unit.
Room == (\E s \in Signals : sig[s].pc = "submit") => Cardinality(Seen) < Target

\* The buys of a symbol nobody re-armed too early: the symbol is marked or managed, and
\* there is one buy at a time.
BuysOf(x) == {k \in Seen : order[k].symbol = x}
Buying(s, x) == Active(s) /\ sig[s].symbol = x
Marked ==
  \A x \in Symbols \ forced :
    /\ \A s \in Signals : Buying(s, x) => x \in sent /\ BuysOf(x) = {}
    /\ \A s, t \in Signals : Buying(s, x) /\ Buying(t, x) => s = t
    /\ \A k \in BuysOf(x) : x \in sent \/ (k \in Held /\ x \in managed)
    /\ \A k, m \in BuysOf(x) : k = m

\* Orders that exist and signals that were emitted have a symbol.
Blank(row) == row.status = "none" /\ row.pc = "none"
Named ==
  /\ \A k \in Committed : order[k].symbol \in Symbols
  /\ \A s \in Signals : sig[s].symbol \in Symbols \/ Blank(sig[s])

IInv ==
  /\ TypeOK /\ Named /\ Serial /\ Halted
  /\ Counted /\ Room /\ WithinTarget /\ Marked

-------------------------------------------------------------------------------
(* Counting *)

\* With no more orders counted than before, the target stays kept.
LEMMA NoMore ==
  ASSUME TypeOK, Seen' \subseteq Seen
  PROVE  /\ WithinTarget => WithinTarget'
         /\ Cardinality(Seen) < Target => Cardinality(Seen') < Target
<1>1. IsFiniteSet(Seen)
  BY OrdersAssumption, FS_Subset DEF Seen, Committed, Held, Open
<1>2. IsFiniteSet(Seen') /\ Cardinality(Seen') <= Cardinality(Seen)
  BY <1>1, FS_Subset
<1>3. Cardinality(Seen) \in Nat /\ Cardinality(Seen') \in Nat
  BY <1>1, <1>2, FS_CardinalityType
<1> QED BY <1>2, <1>3, TargetAssumption DEF WithinTarget, Seen

\* One order more fits where room was found.
LEMMA OneMore ==
  ASSUME TypeOK, NEW k, Seen' \subseteq Seen \cup {k}, Cardinality(Seen) < Target
  PROVE  WithinTarget'
<1>1. IsFiniteSet(Seen)
  BY OrdersAssumption, FS_Subset DEF Seen, Committed, Held, Open
<1>2. /\ IsFiniteSet(Seen \cup {k})
      /\ Cardinality(Seen \cup {k}) = Cardinality(Seen) \/ Cardinality(Seen \cup {k}) = Cardinality(Seen) + 1
  BY <1>1, FS_AddElement
<1>3. IsFiniteSet(Seen') /\ Cardinality(Seen') <= Cardinality(Seen \cup {k})
  BY <1>2, FS_Subset
<1>4. Cardinality(Seen) \in Nat /\ Cardinality(Seen') \in Nat
  BY <1>1, <1>3, FS_CardinalityType
<1> QED BY <1>2, <1>3, <1>4, TargetAssumption DEF WithinTarget, Seen

\* The gate counts every order the engine knows of, on a balance that is in use or new.
LEMMA GateCounts ==
  ASSUME IInv, NEW shows \in SUBSET Orders, Deployed(shows) < Target,
         \/ balance.fresh /\ shows = balance.shows
         \/ shows = Held
  PROVE  Cardinality(Seen) < Target
<1> DEFINE flying == {sig[s].order : s \in inflight}
<1>1. IsFiniteSet(inflight) /\ IsFiniteSet(shows)
  BY OrdersAssumption, FS_Subset DEF IInv, TypeOK
<1>2. IsFiniteSet(flying) /\ Cardinality(flying) <= Cardinality(inflight)
  <2> DEFINE of == [s \in inflight |-> sig[s].order]
  <2>1. of \in Surjection(inflight, flying)
    BY DEF Surjection
  <2> HIDE DEF of, flying
  <2> QED BY <1>1, <2>1, FS_Surjection
<1>3. Seen \subseteq shows \cup flying
  BY DEF IInv, Counted, InBalance, Seen, Committed, Held, Open
<1>4. /\ IsFiniteSet(shows \cup flying)
      /\ Cardinality(shows \cup flying)
           = Cardinality(shows) + Cardinality(flying) - Cardinality(shows \cap flying)
      /\ IsFiniteSet(shows \cap flying)
  BY <1>1, <1>2, FS_Union, FS_Intersection
<1>5. IsFiniteSet(Seen) /\ Cardinality(Seen) <= Cardinality(shows \cup flying)
  BY <1>3, <1>4, FS_Subset
<1>6. /\ Cardinality(Seen) \in Nat /\ Cardinality(shows) \in Nat
      /\ Cardinality(flying) \in Nat /\ Cardinality(inflight) \in Nat
      /\ Cardinality(shows \cap flying) \in Nat
  BY <1>1, <1>2, <1>4, <1>5, FS_CardinalityType
<1> HIDE DEF flying
<1> QED BY <1>2, <1>4, <1>5, <1>6, TargetAssumption DEF Deployed

-------------------------------------------------------------------------------
(* What a step of an execution does to its signal *)

\* The other rows are left alone, and of its own the symbol and the order.
Works(s) ==
  /\ \A t \in Signals \ {s} : sig'[t] = sig[t]
  /\ sig'[s].symbol = sig[s].symbol /\ sig'[s].order = sig[s].order
  /\ sig' \in [Signals -> Signal]

Quits(s) ==
  /\ Works(s) /\ sig'[s].pc = "done"
  /\ holder' = None
  /\ sent' = sent \ {sig[s].symbol}

GoesOn(s) ==
  /\ Works(s) /\ sig'[s].pc \in Working
  /\ UNCHANGED <<holder, sent>>

\* What a row may become.
LEMMA RowType ==
  ASSUME NEW row \in Signal, NEW status \in Statuses, NEW next \in Working \cup {"done"},
         NEW k \in Orders \cup {None},
         NEW a \in 0 .. BuyMaxRetry - 1, NEW b \in 0 .. SubmitTries - 1
  PROVE  [row EXCEPT !.status = status, !.pc = next, !.order = k, !.attempt = a, !.try = b] \in Signal
  BY DEF Signal

LEMMA RefusedQuits ==
  ASSUME TypeOK, NEW s \in Signals, NEW status \in Statuses, Refused(s, status)
  PROVE  Quits(s)
<1>1. 0 \in 0 .. BuyMaxRetry - 1 /\ 0 \in 0 .. SubmitTries - 1
  BY RetryAssumption
<1>2. sig'[s] = [sig[s] EXCEPT !.status = status, !.pc = "done", !.order = sig[s].order,
                               !.attempt = 0, !.try = 0]
  BY DEF Refused, TypeOK, Signal
<1>3. sig'[s] \in Signal
  <2>1. sig[s] \in Signal /\ sig[s].order \in Orders \cup {None}
    BY DEF TypeOK, Signal
  <2>2. [sig[s] EXCEPT !.status = status, !.pc = "done", !.order = sig[s].order,
                       !.attempt = 0, !.try = 0] \in Signal
    BY <1>1, <2>1, RowType, Zenon
  <2> QED BY <1>2, <2>2, Zenon
<1>4. sig' \in [Signals -> Signal]
  BY <1>3 DEF Refused, TypeOK
<1>5. /\ sig'[s].pc = "done" /\ sig'[s].symbol = sig[s].symbol /\ sig'[s].order = sig[s].order
      /\ \A t \in Signals \ {s} : sig'[t] = sig[t]
  BY DEF Refused, TypeOK, Signal
<1>6. holder' = None /\ sent' = sent \ {sig[s].symbol}
  BY DEF Refused
<1> QED BY <1>4, <1>5, <1>6 DEF Quits, Works

LEMMA FailedGoesOn ==
  ASSUME TypeOK, NEW s \in Signals, NEW status \in Statuses, Failed(s, status)
  PROVE  Quits(s) \/ (GoesOn(s) /\ sig'[s].pc = "begin")
<1>1. CASE sig[s].attempt + 1 < BuyMaxRetry
  <2>1. sig[s].attempt + 1 \in 0 .. BuyMaxRetry - 1 /\ 0 \in 0 .. SubmitTries - 1
    BY <1>1, RetryAssumption DEF TypeOK, Signal
  <2>2. sig'[s] = [sig[s] EXCEPT !.status = status, !.pc = "begin", !.order = sig[s].order,
                                 !.attempt = sig[s].attempt + 1, !.try = 0]
    BY <1>1 DEF Failed, TypeOK, Signal
  <2>3. sig'[s] \in Signal
    <3>1. sig[s] \in Signal /\ sig[s].order \in Orders \cup {None}
      BY DEF TypeOK, Signal
    <3>2. "begin" \in Working \cup {"done"}
      BY DEF Working
    <3>3. [sig[s] EXCEPT !.status = status, !.pc = "begin", !.order = sig[s].order,
                         !.attempt = sig[s].attempt + 1, !.try = 0] \in Signal
      BY <2>1, <3>1, <3>2, RowType, Zenon
    <3> QED BY <2>2, <3>3, Zenon
  <2>4. sig' \in [Signals -> Signal]
    BY <1>1, <2>3 DEF Failed, TypeOK
  <2>5. /\ sig'[s].pc = "begin" /\ sig'[s].symbol = sig[s].symbol /\ sig'[s].order = sig[s].order
        /\ \A t \in Signals \ {s} : sig'[t] = sig[t]
    BY <1>1 DEF Failed, TypeOK, Signal
  <2>6. UNCHANGED <<holder, sent>>
    BY <1>1 DEF Failed
  <2> QED BY <2>4, <2>5, <2>6 DEF GoesOn, Works, Working
<1>2. CASE ~(sig[s].attempt + 1 < BuyMaxRetry)
  BY <1>2, RefusedQuits DEF Failed
<1> QED BY <1>1, <1>2

LEMMA SizedGoesOn ==
  ASSUME TypeOK, NEW s \in Signals, NEW shows, Sized(s, shows)
  PROVE  \/ Quits(s)
         \/ GoesOn(s) /\ sig'[s].pc = "begin"
         \/ GoesOn(s) /\ sig'[s].pc = "submit" /\ ~halt /\ Deployed(shows) < Target
<1>1. CASE Failed(s, "skipped_no_room") \/ Refused(s, "preflight_blocked")
  BY <1>1, RefusedQuits, FailedGoesOn DEF Statuses
<1>2. CASE /\ ~halt /\ Deployed(shows) < Target
           /\ sig' = [sig EXCEPT ![s].pc = "submit", ![s].try = 0]
           /\ UNCHANGED <<holder, sent>>
  <2>1. 0 \in 0 .. SubmitTries - 1
    BY RetryAssumption
  <2>2. [sig[s] EXCEPT !.pc = "submit", !.try = 0] \in Signal
    BY <2>1 DEF TypeOK, Signal, Working
  <2>3. sig' \in [Signals -> Signal]
    BY <1>2, <2>2 DEF TypeOK
  <2>4. /\ sig'[s].pc = "submit" /\ sig'[s].symbol = sig[s].symbol /\ sig'[s].order = sig[s].order
        /\ \A t \in Signals \ {s} : sig'[t] = sig[t]
    BY <1>2 DEF TypeOK, Signal
  <2> QED BY <1>2, <2>3, <2>4 DEF GoesOn, Works, Working
<1> QED BY <1>1, <1>2 DEF Sized

-------------------------------------------------------------------------------
(* The marks *)

\* While no symbol gains a buy, it is enough that the marks of those with one stay.
LEMMA MarksKept ==
  ASSUME Marked, forced \subseteq forced',
         \A s \in Signals : Active(s)' => Active(s) /\ sig'[s].symbol = sig[s].symbol,
         \A k \in Seen' : k \in Seen /\ order'[k].symbol = order[k].symbol,
         \A x \in Symbols \ forced', s \in Signals :
           Buying(s, x)' /\ x \in sent => x \in sent',
         \A x \in Symbols \ forced' : \A k \in BuysOf(x)' :
           /\ x \in sent => x \in sent' \/ (k \in Held' /\ x \in managed')
           /\ k \in Held /\ x \in managed => x \in sent' \/ (k \in Held' /\ x \in managed')
  PROVE  Marked'
<1> SUFFICES ASSUME NEW x \in Symbols \ forced'
             PROVE  /\ \A s \in Signals : Buying(s, x)' => x \in sent' /\ BuysOf(x)' = {}
                    /\ \A s, t \in Signals : Buying(s, x)' /\ Buying(t, x)' => s = t
                    /\ \A k \in BuysOf(x)' : x \in sent' \/ (k \in Held' /\ x \in managed')
                    /\ \A k, m \in BuysOf(x)' : k = m
  BY DEF Marked
<1>1. x \in Symbols \ forced
  OBVIOUS
<1>2. \A s \in Signals : Buying(s, x)' => Buying(s, x)
  BY DEF Buying
<1>3. BuysOf(x)' \subseteq BuysOf(x)
  BY DEF BuysOf
<1> QED BY <1>1, <1>2, <1>3 DEF Marked

-------------------------------------------------------------------------------
(* The steps of an execution *)

\* What every step of the task that holds the semaphore keeps, as long as the orders the
\* engine counts stay the same.
LEMMA WorkKeeps ==
  ASSUME IInv, NEW s \in Signals, sig[s].pc \in Working,
         \/ Quits(s)
         \/ GoesOn(s) /\ (sig'[s].pc = "submit" =>
                            sig[s].pc = "submit" \/ (~halt /\ Cardinality(Seen) < Target)),
         Seen' = Seen, \A k \in Seen : order'[k].symbol = order[k].symbol,
         Held \subseteq Held',
         UNCHANGED <<managed, halt, forced>>,
         through' = through \/ (halt /\ through' = through \cup {s} /\ sig[s].pc = "submit")
  PROVE  /\ Serial' /\ Halted' /\ Room' /\ WithinTarget' /\ Marked'
         /\ \A t \in Signals : sig'[t].symbol \in Symbols \/ Blank(sig'[t])
         /\ holder' \in Signals \cup {None} /\ sent' \subseteq Symbols
         /\ sig' \in [Signals -> Signal]
<1> USE DEF IInv
<1>1. /\ \A t \in Signals \ {s} : sig'[t] = sig[t] /\ sig[t].pc \notin Working
      /\ sig'[s].symbol = sig[s].symbol
      /\ sig' \in [Signals -> Signal]
      /\ holder = s
  BY DEF Serial, Quits, GoesOn, Works
<1>2. Serial'
  BY <1>1 DEF Serial, Quits, GoesOn, Works, Working
<1>3. \A t \in Signals : Active(t)' => Active(t) /\ sig'[t].symbol = sig[t].symbol
  BY <1>1 DEF Active
<1>4. Active(s) /\ sig[s].symbol \in Symbols
  BY DEF Named, Active, Blank, Working
<1>5. \A t \in Signals : sig'[t].pc = "submit" => t = s
  BY <1>1 DEF Working
<1>6. Halted'
  <2>1. CASE through' = through
    BY <1>1, <1>5, <2>1 DEF Halted, Quits, GoesOn, Working
  <2>2. CASE halt /\ through' = through \cup {s} /\ sig[s].pc = "submit"
    BY <1>5, <2>2 DEF Halted
  <2> QED BY <2>1, <2>2
<1>7. Room' /\ WithinTarget'
  BY <1>1, <1>5, NoMore DEF Room, Quits, GoesOn, Working
<1>8. Marked'
  <2>1. CASE Quits(s)
    <3>1. \A t \in Signals : Active(t)' => t # s
      BY <2>1 DEF Quits, Active, Working
    <3>2. \A x \in Symbols \ forced :
            x = sig[s].symbol => BuysOf(x) = {} /\ \A t \in Signals : Buying(t, x) => t = s
      BY <1>4 DEF Marked, Buying
    <3>3. sent' = sent \ {sig[s].symbol}
      BY <2>1 DEF Quits
    <3>4. \A x \in Symbols \ forced, t \in Signals : Buying(t, x)' => x # sig[s].symbol
      BY <1>3, <3>1, <3>2 DEF Buying
    <3>5. \A x \in Symbols \ forced : BuysOf(x)' = BuysOf(x)
      BY DEF BuysOf
    <3> QED BY <1>3, <3>2, <3>3, <3>4, <3>5, MarksKept
  <2>2. CASE GoesOn(s)
    BY <1>3, <2>2, MarksKept DEF GoesOn
  <2> QED BY <2>1, <2>2
<1>9. holder' \in Signals \cup {None} /\ sent' \subseteq Symbols
  BY <1>1 DEF Quits, GoesOn, TypeOK
<1>10. \A t \in Signals : sig'[t].symbol \in Symbols \/ Blank(sig'[t])
  BY <1>1, <1>4 DEF Named
<1> QED BY <1>1, <1>2, <1>6, <1>7, <1>8, <1>9, <1>10

\* A step that leaves the orders and the gate alone.
LEMMA BeginKeeps ==
  ASSUME IInv, NEW s \in Signals, Begin(s)
  PROVE  IInv'
<1>1. /\ sig[s].pc = "begin" /\ sig[s].pc \in Working
      /\ UNCHANGED <<order, managed, balance, inflight, recent, halt, unseen, forced, through,
                      restarts>>
  BY DEF Begin, market, gate, history, Working
<1>2. \/ Quits(s)
      \/ GoesOn(s) /\ (sig'[s].pc = "submit" => ~halt /\ Cardinality(Seen) < Target)
  <2>1. CASE halt /\ Refused(s, "preflight_blocked")
    BY <2>1, RefusedQuits DEF IInv, Statuses
  <2>2. CASE sig' = [sig EXCEPT ![s].pc = "balance"] /\ UNCHANGED <<holder, sent>>
    BY <2>2 DEF GoesOn, Works, Working, IInv, TypeOK, Signal
  <2>3. CASE ~halt /\ balance.fresh /\ Sized(s, balance.shows)
    <3>1. balance.shows \in SUBSET Orders
      BY DEF IInv, TypeOK
    <3> QED BY <2>3, <3>1, SizedGoesOn, GateCounts DEF IInv
  <2> QED BY <2>1, <2>2, <2>3 DEF Begin
<1>3. Seen' = Seen /\ Held' = Held /\ Committed' = Committed
  BY <1>1 DEF Seen, Committed, Held, Open
<1>4. /\ Serial' /\ Halted' /\ Room' /\ WithinTarget' /\ Marked'
      /\ \A t \in Signals : sig'[t].symbol \in Symbols \/ Blank(sig'[t])
      /\ holder' \in Signals \cup {None} /\ sent' \subseteq Symbols
      /\ sig' \in [Signals -> Signal]
  BY <1>1, <1>2, <1>3, WorkKeeps
<1>5. TypeOK' /\ Named'
  BY <1>1, <1>3, <1>4 DEF IInv, TypeOK, Named
<1>6. Counted'
  BY <1>1, <1>2, <1>3 DEF IInv, Counted, InBalance, Quits, GoesOn, Works, TypeOK, Working
<1> QED BY <1>4, <1>5, <1>6 DEF IInv

\* The balance asked for shows every order the next gate must count and none that may
\* still execute.
LEMMA BalanceKeeps ==
  ASSUME IInv, NEW s \in Signals, Balance(s)
  PROVE  IInv'
<1>1. /\ sig[s].pc = "balance" /\ sig[s].pc \in Working
      /\ UNCHANGED <<order, managed, inflight, recent, halt, unseen, forced, through, restarts>>
  BY DEF Balance, market, history, Working
<1>2. \/ Quits(s)
      \/ GoesOn(s) /\ (sig'[s].pc = "submit" => ~halt /\ Cardinality(Seen) < Target)
  <2>1. CASE Sized(s, Held)
    <3>1. Held \in SUBSET Orders
      BY DEF Held
    <3> QED BY <2>1, <3>1, SizedGoesOn, GateCounts DEF IInv
  <2>2. CASE Failed(s, "failed")
    BY <2>2, FailedGoesOn DEF IInv, Statuses
  <2> QED BY <2>1, <2>2 DEF Balance
<1>3. Seen' = Seen /\ Held' = Held /\ Committed' = Committed
  BY <1>1 DEF Seen, Committed, Held, Open
<1>4. /\ Serial' /\ Halted' /\ Room' /\ WithinTarget' /\ Marked'
      /\ \A t \in Signals : sig'[t].symbol \in Symbols \/ Blank(sig'[t])
      /\ holder' \in Signals \cup {None} /\ sent' \subseteq Symbols
      /\ sig' \in [Signals -> Signal]
  BY <1>1, <1>2, <1>3, WorkKeeps
<1>5. balance' = balance \/ balance' = [fresh |-> TRUE, shows |-> Held]
  BY DEF Balance
<1>6. balance' \in [fresh : BOOLEAN, shows : SUBSET Orders]
  <2>1. Held \in SUBSET Orders
    BY DEF Held
  <2>2. [fresh |-> TRUE, shows |-> Held] \in [fresh : BOOLEAN, shows : SUBSET Orders]
    BY <2>1
  <2> QED BY <1>5, <2>2 DEF IInv, TypeOK
<1>7. TypeOK' /\ Named'
  BY <1>1, <1>3, <1>4, <1>6 DEF IInv, TypeOK, Named
<1>8. Counted'
  <2>1. \A k \in balance'.shows : order'[k].state \in {"held", "gone"}
    BY <1>1, <1>5 DEF IInv, Counted, Held
  <2>2. \A t \in inflight' : sig'[t].pc = "done"
    BY <1>1, <1>2 DEF IInv, Counted, Quits, GoesOn, Works, TypeOK, Working
  <2>3. ASSUME NEW k \in Seen' PROVE InBalance(k)' \/ \E t \in inflight' : sig'[t].order = k
    <3>1. CASE \E t \in inflight : sig[t].order = k
      BY <1>1, <1>2, <3>1 DEF IInv, Quits, GoesOn, Works, TypeOK
    <3>2. CASE InBalance(k)
      <4>1. k \in Held
        BY <1>3, <2>3, <3>2 DEF InBalance, IInv, Counted, Seen, Committed, Held, Open
      <4> QED BY <1>3, <1>5, <3>2, <4>1 DEF InBalance
    <3> QED BY <1>3, <3>1, <3>2 DEF IInv, Counted
  <2> QED BY <2>1, <2>2, <2>3 DEF Counted
<1> QED BY <1>4, <1>7, <1>8 DEF IInv

\* An order that is accepted.
LEMMA AcceptedOrder ==
  ASSUME TypeOK, NEW s \in Signals, NEW k \in Orders, Accepted(s, k)
  PROVE  /\ order' \in [Orders -> Order]
         /\ k \notin Committed /\ Held' = Held /\ Committed' = Committed \cup {k}
         /\ order'[k].symbol = sig[s].symbol /\ order[k].state = "none"
         /\ \A m \in Orders \ {k} : order'[m] = order[m]
<1>1. order' = [order EXCEPT ![k] = [state |-> "open", symbol |-> sig[s].symbol]] /\ order[k] = NoOrder
  BY DEF Accepted
<1>2. sig[s].symbol \in Symbols \cup {None}
  BY DEF TypeOK, Signal
<1>3. order' \in [Orders -> Order]
  BY <1>1, <1>2 DEF TypeOK, Order
<1> QED BY <1>1, <1>3 DEF TypeOK, Committed, Held, Open, NoOrder

\* An order whose answer is lost is never counted.
LEMMA SubmitFailsKeeps ==
  ASSUME IInv, NEW s \in Signals, SubmitFails(s)
  PROVE  IInv'
<1> USE DEF IInv
<1>1. /\ sig[s].pc = "submit" /\ sig[s].pc \in Working
      /\ UNCHANGED <<managed, balance, inflight, recent, halt, forced, restarts>>
  BY DEF SubmitFails, gate, Working
<1>2. Quits(s) \/ GoesOn(s)
  <2>1. CASE /\ sig[s].try + 1 < SubmitTries
             /\ sig' = [sig EXCEPT ![s].try = @ + 1] /\ UNCHANGED <<holder, sent>>
    <3>1. sig[s].try + 1 \in 0 .. SubmitTries - 1
      BY <2>1, RetryAssumption DEF TypeOK, Signal
    <3> QED BY <1>1, <2>1, <3>1 DEF GoesOn, Works, TypeOK, Signal
  <2>2. CASE Failed(s, "failed")
    BY <2>2, FailedGoesOn DEF Statuses
  <2> QED BY <2>1, <2>2 DEF SubmitFails
<1>3. /\ Seen' = Seen /\ Held' = Held
      /\ \A k \in Committed : k \in Committed' /\ order'[k] = order[k]
      /\ \A k \in Committed' : order'[k].symbol \in Symbols
      /\ \A k \in Orders : order[k].state # "none" => order'[k] = order[k]
      /\ order' \in [Orders -> Order] /\ unseen' \subseteq Orders
  <2>1. CASE NotAccepted /\ UNCHANGED unseen
    BY <2>1 DEF NotAccepted, Seen, Committed, Held, Open, TypeOK, Named
  <2>2. CASE \E k \in Orders : Accepted(s, k) /\ unseen' = unseen \cup {k}
    <3>1. PICK k \in Orders : Accepted(s, k) /\ unseen' = unseen \cup {k}
      BY <2>2
    <3>2. Seen' = Seen
      BY <3>1, AcceptedOrder DEF Seen
    <3>3. sig[s].symbol \in Symbols /\ Committed \subseteq Orders
      BY <1>1 DEF Named, Blank, Committed, Held, Open
    <3> QED BY <3>1, <3>2, <3>3, AcceptedOrder DEF TypeOK, Named
  <2> QED BY <2>1, <2>2 DEF SubmitFails
<1>4. /\ through' = through \/ (halt /\ through' = through \cup {s} /\ sig[s].pc = "submit")
      /\ through' \subseteq Signals
  BY <1>1 DEF SubmitFails, NotAccepted, Accepted, TypeOK
<1>5. /\ Serial' /\ Halted' /\ Room' /\ WithinTarget' /\ Marked'
      /\ \A t \in Signals : sig'[t].symbol \in Symbols \/ Blank(sig'[t])
      /\ holder' \in Signals \cup {None} /\ sent' \subseteq Symbols
      /\ sig' \in [Signals -> Signal]
  <2>1. \A k \in Seen : order'[k].symbol = order[k].symbol
    BY <1>3 DEF Seen
  <2> QED BY <1>1, <1>2, <1>3, <1>4, <2>1, WorkKeeps
<1>6. TypeOK' /\ Named'
  BY <1>1, <1>3, <1>4, <1>5 DEF TypeOK, Named
<1>7. Counted'
  <2>1. \A k \in balance'.shows : order'[k].state \in {"held", "gone"}
    BY <1>1, <1>3 DEF Counted, TypeOK
  <2>2. \A t \in inflight' : sig'[t].pc = "done" /\ sig'[t].order = sig[t].order
    BY <1>1, <1>2 DEF Counted, Quits, GoesOn, Works, TypeOK, Working
  <2> QED BY <1>1, <1>3, <2>1, <2>2 DEF Counted, InBalance
<1> QED BY <1>5, <1>6, <1>7

\* An answer is recorded: the order it may stand for takes the room the gate found, is
\* in flight, and is the first of its symbol.
LEMMA SubmitsKeeps ==
  ASSUME IInv, NEW s \in Signals, Submits(s)
  PROVE  IInv'
<1> USE DEF IInv
<1>1. PICK k \in Orders \cup {None} :
        /\ Recorded(s, k)
        /\ (k = None /\ NotAccepted) \/ (k \in Orders /\ Accepted(s, k))
  BY DEF Submits
<1>2. /\ sig[s].pc = "submit" /\ Active(s) /\ sig[s].symbol \in Symbols
      /\ UNCHANGED <<sent, halt, unseen, forced, restarts>>
  BY DEF Submits, Active, Named, Blank, Working
<1>3. /\ sig' \in [Signals -> Signal]
      /\ \A t \in Signals \ {s} : sig'[t] = sig[t] /\ sig[t].pc \notin Working
      /\ sig'[s].pc = "done" /\ sig'[s].order = k
  <2>1. 0 \in 0 .. BuyMaxRetry - 1 /\ 0 \in 0 .. SubmitTries - 1
    BY RetryAssumption
  <2>2. sig[s] \in Signal /\ "executed" \in Statuses /\ "done" \in Working \cup {"done"}
    BY DEF TypeOK, Statuses
  <2>3. sig'[s] = [sig[s] EXCEPT !.status = "executed", !.pc = "done", !.order = k,
                                 !.attempt = 0, !.try = 0]
    BY <1>1 DEF Recorded, TypeOK, Signal
  <2>4. [sig[s] EXCEPT !.status = "executed", !.pc = "done", !.order = k,
                       !.attempt = 0, !.try = 0] \in Signal
    BY <2>1, <2>2, RowType, Zenon
  <2>5. sig'[s] \in Signal
    BY <2>3, <2>4, Zenon
  <2>6. sig' \in [Signals -> Signal] /\ \A t \in Signals \ {s} : sig'[t] = sig[t]
    BY <1>1, <2>5 DEF Recorded, TypeOK
  <2>7. sig'[s].pc = "done" /\ sig'[s].order = k
    BY <1>1 DEF Recorded, TypeOK, Signal
  <2> QED BY <1>2, <2>6, <2>7 DEF Serial, Working
<1>4. /\ holder' = None /\ inflight' = inflight \cup {s} /\ balance' = Stale
      /\ managed' = managed \cup {sig[s].symbol} /\ recent' = recent \cup {s}
  BY <1>1 DEF Recorded
<1>5. /\ order' \in [Orders -> Order] /\ Held' = Held
      /\ Committed \subseteq Committed' /\ Committed' \subseteq Committed \cup {k}
      /\ \A m \in Committed : order'[m] = order[m]
      /\ k \in Committed' => k \notin Committed /\ order'[k].symbol = sig[s].symbol
  <2>1. CASE k = None /\ NotAccepted
    BY <2>1, NoneAssumption DEF NotAccepted, TypeOK, Committed, Held, Open
  <2>2. CASE k \in Orders /\ Accepted(s, k)
    <3>1. Committed \subseteq Orders
      BY DEF Committed, Held, Open
    <3> QED BY <2>2, <3>1, AcceptedOrder
  <2> QED BY <1>1, <2>1, <2>2
<1>6. Seen' \subseteq Seen \cup {k} /\ \A m \in Seen : order'[m] = order[m]
  BY <1>2, <1>5 DEF Seen
<1>7. TypeOK'
  <2>1. through' \subseteq Signals
    BY <1>1 DEF Accepted, NotAccepted, TypeOK
  <2> QED BY <1>2, <1>3, <1>4, <1>5, <2>1 DEF TypeOK, Stale
<1>8. Named'
  <2>1. sig'[s].symbol = sig[s].symbol
    BY <1>1 DEF Recorded, TypeOK, Signal
  <2> QED BY <1>2, <1>3, <1>5, <2>1 DEF Named
<1>9. Serial'
  BY <1>3 DEF Serial, Working
<1>10. Halted'
  BY <1>1, <1>2, <1>3 DEF Halted, Accepted, NotAccepted, Working
<1>11. Counted'
  <2>1. \A m \in Seen : m \in Held \/ \E t \in inflight : sig[t].order = m
    BY DEF Counted, InBalance, Seen, Committed, Held, Open
  <2>2. \A t \in inflight : t # s /\ sig'[t] = sig[t]
    BY <1>2, <1>3 DEF Counted, TypeOK
  <2>3. \A m \in Seen' : m \in Held' \/ \E t \in inflight' : sig'[t].order = m
    BY <1>3, <1>4, <1>5, <1>6, <2>1, <2>2
  <2> QED BY <1>3, <1>4, <2>2, <2>3 DEF Counted, InBalance, Stale
<1>12. Room' /\ WithinTarget'
  <2>1. \A t \in Signals : sig'[t].pc # "submit"
    BY <1>3 DEF Working
  <2> QED BY <1>2, <1>6, <2>1, OneMore DEF Room
<1>13. Marked'
  <2>1. \A t \in Signals : Active(t)' => Active(t) /\ t # s /\ sig'[t] = sig[t]
    BY <1>3 DEF Active, Working
  <2>2. SUFFICES ASSUME NEW x \in Symbols \ forced
                 PROVE  /\ \A t \in Signals : Buying(t, x)' => x \in sent' /\ BuysOf(x)' = {}
                        /\ \A t, u \in Signals : Buying(t, x)' /\ Buying(u, x)' => t = u
                        /\ \A m \in BuysOf(x)' : x \in sent' \/ (m \in Held' /\ x \in managed')
                        /\ \A m, n \in BuysOf(x)' : m = n
    BY <1>2 DEF Marked
  <2>3. \A t \in Signals : Buying(t, x)' => Buying(t, x) /\ t # s
    BY <2>1 DEF Buying
  <2>4. CASE x = sig[s].symbol
    <3>1. x \in sent /\ BuysOf(x) = {} /\ \A t \in Signals : Buying(t, x) => t = s
      BY <1>2, <2>4 DEF Marked, Buying
    <3>2. BuysOf(x)' \subseteq {k}
      BY <1>6, <3>1 DEF BuysOf
    <3> QED BY <1>2, <2>3, <3>1, <3>2
  <2>5. CASE x # sig[s].symbol
    <3>1. BuysOf(x)' \subseteq BuysOf(x)
      BY <1>5, <1>6, <2>5 DEF BuysOf, Seen
    <3> QED BY <1>2, <1>4, <1>5, <2>3, <3>1 DEF Marked
  <2> QED BY <2>4, <2>5
<1> QED BY <1>7, <1>8, <1>9, <1>10, <1>11, <1>12, <1>13

-------------------------------------------------------------------------------
(* Signals and the semaphore *)

\* A signal that did not exist is one of its symbol, marked.
LEMMA EmittedKeeps ==
  ASSUME IInv, NEW s \in Signals, NEW x \in Symbols, Emitted(s, x),
         forced \subseteq forced', forced' \subseteq Symbols,
         x \in forced' \/ (BuysOf(x) = {} /\ \A t \in Signals : ~Buying(t, x)),
         UNCHANGED <<holder, market, gate, recent, halt, unseen, through, restarts>>
  PROVE  IInv'
<1> USE DEF IInv
<1>1. /\ sig[s].pc = "none" /\ sig'[s].pc = "queued" /\ sig'[s].symbol = x
      /\ \A t \in Signals \ {s} : sig'[t] = sig[t]
      /\ sent' = sent \cup {x}
  BY DEF Emitted, NoSignal, TypeOK
<1>2. sig' \in [Signals -> Signal]
  <2>1. 0 \in 0 .. BuyMaxRetry - 1 /\ 0 \in 0 .. SubmitTries - 1
    BY RetryAssumption
  <2>2. [NoSignal EXCEPT !.status = "pending", !.pc = "queued", !.symbol = x] \in Signal
    BY <2>1 DEF NoSignal, Signal, Statuses
  <2> QED BY <2>2 DEF Emitted, TypeOK
<1>3. /\ Held' = Held /\ Seen' = Seen /\ Committed' = Committed
      /\ UNCHANGED <<order, managed, balance, inflight>>
  BY DEF Held, Seen, Committed, Open, market, gate
<1>4. TypeOK'
  BY <1>1, <1>2, <1>3 DEF TypeOK
<1>5. Named' /\ Serial' /\ Halted'
  BY <1>1, <1>3 DEF Named, Serial, Halted, Working
<1>6. Counted'
  BY <1>1, <1>3 DEF Counted, InBalance, TypeOK
<1>7. Room' /\ WithinTarget'
  BY <1>1, <1>3 DEF Room, WithinTarget
<1>8. Marked'
  <2>1. SUFFICES ASSUME NEW y \in Symbols \ forced'
                 PROVE  /\ \A t \in Signals : Buying(t, y)' => y \in sent' /\ BuysOf(y)' = {}
                        /\ \A t, u \in Signals : Buying(t, y)' /\ Buying(u, y)' => t = u
                        /\ \A m \in BuysOf(y)' : y \in sent' \/ (m \in Held' /\ y \in managed')
                        /\ \A m, n \in BuysOf(y)' : m = n
    BY DEF Marked
  <2>2. BuysOf(y)' = BuysOf(y) /\ y \notin forced
    BY <1>3 DEF BuysOf
  <2>3. \A t \in Signals : Buying(t, y)' => Buying(t, y) \/ (t = s /\ y = x)
    BY <1>1 DEF Buying, Active
  <2>4. CASE y = x
    BY <1>1, <2>2, <2>3, <2>4
  <2>5. CASE y # x
    BY <1>1, <1>3, <2>2, <2>3, <2>5 DEF Marked
  <2> QED BY <2>4, <2>5
<1> QED BY <1>4, <1>5, <1>6, <1>7, <1>8

\* A symbol that is neither managed nor marked has no buy.
LEMMA OnTickKeeps ==
  ASSUME IInv, NEW s \in Signals, NEW x \in Symbols, OnTick(s, x)
  PROVE  IInv'
<1>1. x \in forced \/ (BuysOf(x) = {} /\ \A t \in Signals : ~Buying(t, x))
  BY DEF OnTick, IInv, Marked
<1>2. forced' = forced /\ forced \subseteq Symbols
  BY DEF OnTick, history, IInv, TypeOK
<1> QED BY <1>1, <1>2, EmittedKeeps DEF OnTick, history

\* A symbol chosen earlier has no buy either, or is one chosen too early.
LEMMA DirectKeeps ==
  ASSUME IInv, NEW s \in Signals, NEW x \in Symbols, Direct(s, x)
  PROVE  IInv'
<1>1. ~Underway(x) => BuysOf(x) = {} /\ \A t \in Signals : ~Buying(t, x)
  BY DEF Underway, BuysOf, Buying, Seen
<1>2. forced \subseteq forced' /\ forced' \subseteq Symbols /\ (Underway(x) => x \in forced')
  BY DEF Direct, IInv, TypeOK
<1> QED BY <1>1, <1>2, EmittedKeeps DEF Direct

LEMMA AcquireKeeps ==
  ASSUME IInv, NEW s \in Signals, Acquire(s)
  PROVE  IInv'
<1> USE DEF IInv
<1>1. /\ sig[s].pc = "queued" /\ sig'[s].pc = "begin" /\ holder = None /\ holder' = s
      /\ sig'[s].symbol = sig[s].symbol /\ sig'[s].order = sig[s].order
      /\ \A t \in Signals \ {s} : sig'[t] = sig[t]
  BY DEF Acquire, TypeOK, Signal
<1>2. sig' \in [Signals -> Signal]
  <2>1. [sig[s] EXCEPT !.pc = "begin"] \in Signal
    BY DEF TypeOK, Signal, Working
  <2> QED BY <2>1 DEF Acquire, TypeOK
<1>3. UNCHANGED <<order, managed, balance, inflight, sent, recent, halt, unseen, forced,
                  through, restarts>>
  BY DEF Acquire, market, gate, history
<1>4. Held' = Held /\ Seen' = Seen /\ Committed' = Committed
  BY <1>3 DEF Held, Seen, Committed, Open
<1>5. \A t \in Signals : Active(t)' => Active(t) /\ sig'[t].symbol = sig[t].symbol
  BY <1>1 DEF Active
<1>6. TypeOK'
  BY <1>1, <1>2, <1>3 DEF TypeOK
<1>7. Named' /\ Halted'
  BY <1>1, <1>3, <1>4 DEF Named, Blank, Halted
<1>8. Serial'
  BY <1>1, NoneAssumption DEF Serial
<1>9. Counted'
  BY <1>1, <1>3, <1>4 DEF Counted, InBalance, TypeOK
<1>10. Room' /\ WithinTarget'
  BY <1>1, <1>3, <1>4 DEF Room, WithinTarget
<1>11. Marked'
  BY <1>3, <1>4, <1>5, MarksKept DEF Buying, BuysOf
<1> QED BY <1>6, <1>7, <1>8, <1>9, <1>10, <1>11

-------------------------------------------------------------------------------
(* KIS, the account sync and the clocks *)

\* Steps that leave the signals and their executions alone.
LEMMA Outside ==
  ASSUME IInv, TypeOK', UNCHANGED task,
         \A k \in Committed' : k \in Committed /\ order'[k].symbol = order[k].symbol,
         unseen \subseteq unseen', Counted', Marked', Halted'
  PROVE  IInv'
<1> USE DEF IInv
<1>1. Seen' \subseteq Seen
  BY DEF Seen
<1>2. WithinTarget' /\ Room'
  BY <1>1, NoMore DEF Room, task
<1>3. Named' /\ Serial'
  BY DEF Named, Serial, task
<1> QED BY <1>2, <1>3

LEMMA ExecutesKeeps ==
  ASSUME IInv, NEW k \in Orders, Executes(k)
  PROVE  IInv'
<1> USE DEF IInv
<1>1. /\ order[k].state = "open" /\ order' \in [Orders -> Order]
      /\ order'[k].state = "held" /\ order'[k].symbol = order[k].symbol
      /\ \A m \in Orders \ {k} : order'[m] = order[m]
      /\ UNCHANGED <<sig, holder, sent, managed, balance, inflight, recent, halt, unseen,
                     forced, through, restarts>>
  BY DEF Executes, TypeOK, Order, task, gate, history
<1>2. Held' = Held \cup {k} /\ Committed' = Committed /\ Seen' = Seen
  BY <1>1 DEF Held, Open, Committed, Seen
<1>3. Counted'
  BY <1>1, <1>2 DEF Counted, InBalance, TypeOK
<1>4. Marked'
  <2>1. \A s \in Signals, x \in Symbols : Buying(s, x)' <=> Buying(s, x)
    BY <1>1 DEF Buying, Active
  <2>2. \A x \in Symbols : BuysOf(x)' = BuysOf(x)
    BY <1>1, <1>2 DEF BuysOf, Seen, Committed, Held, Open
  <2> QED BY <1>1, <1>2, <2>1, <2>2 DEF Marked
<1>5. TypeOK' /\ Halted'
  BY <1>1 DEF TypeOK, Halted
<1>6. \A m \in Committed' : m \in Committed /\ order'[m].symbol = order[m].symbol
  BY <1>1, <1>2 DEF Committed, Held, Open
<1> QED BY <1>1, <1>3, <1>4, <1>5, <1>6, Outside DEF task

LEMMA ExpiresKeeps ==
  ASSUME IInv, NEW k \in Orders, Expires(k)
  PROVE  IInv'
<1> USE DEF IInv
<1>1. /\ order[k].state = "open" /\ order' \in [Orders -> Order] /\ order'[k].state = "gone"
      /\ \A m \in Orders \ {k} : order'[m] = order[m]
      /\ UNCHANGED <<sig, holder, sent, managed, balance, inflight, recent, halt, unseen,
                     forced, through, restarts>>
  BY DEF Expires, TypeOK, Order, Gone, task, gate, history
<1>2. Held' = Held /\ Committed' = Committed \ {k} /\ Seen' = Seen \ {k}
  BY <1>1 DEF Held, Open, Committed, Seen
<1>3. Counted'
  BY <1>1, <1>2 DEF Counted, InBalance, TypeOK
<1>4. Marked'
  <2>1. \A s \in Signals, x \in Symbols : Buying(s, x)' <=> Buying(s, x)
    BY <1>1 DEF Buying, Active
  <2>2. \A x \in Symbols : BuysOf(x)' \subseteq BuysOf(x)
    BY <1>1, <1>2 DEF BuysOf, Seen, Committed, Held, Open
  <2> QED BY <1>1, <1>2, <2>1, <2>2 DEF Marked
<1>5. TypeOK' /\ Halted'
  BY <1>1 DEF TypeOK, Halted
<1>6. \A m \in Committed' : m \in Committed /\ order'[m].symbol = order[m].symbol
  BY <1>1, <1>2 DEF Committed, Held, Open
<1> QED BY <1>1, <1>3, <1>4, <1>5, <1>6, Outside DEF task

\* All of a symbol is sold; a mark that is dropped while its symbol is being bought makes
\* it one that was re-armed too early.
LEMMA ExitsKeeps ==
  ASSUME IInv, NEW x \in Symbols, Exits(x)
  PROVE  IInv'
<1> USE DEF IInv
<1> DEFINE sold == {k \in Held : order[k].symbol = x}
<1>1. /\ order' \in [Orders -> Order]
      /\ \A k \in sold : order'[k].state = "gone"
      /\ \A k \in Orders \ sold : order'[k] = order[k]
      /\ managed' = managed \ {x}
      /\ UNCHANGED <<sig, holder, balance, inflight, recent, halt, unseen, through, restarts>>
  BY DEF Exits, TypeOK, Order, Gone, Held, task, gate
<1>2. /\ Held' = Held \ sold /\ Committed' = Committed \ sold /\ Seen' = Seen \ sold
      /\ sold \subseteq Orders
  BY <1>1 DEF Held, Open, Committed, Seen
<1>3. /\ sent' \subseteq sent /\ forced \subseteq forced' /\ forced' \subseteq Symbols
      /\ \A y \in Symbols \ forced' : Underway(y) /\ y \in sent => y \in sent'
  BY DEF Exits, Rearms, TypeOK
<1>4. Counted'
  BY <1>1, <1>2 DEF Counted, InBalance, TypeOK
<1>5. \A m \in Committed' : m \in Committed /\ order'[m].symbol = order[m].symbol
  BY <1>1, <1>2 DEF Committed, Held, Open
<1>6. Marked'
  <2>1. \A s \in Signals : Active(s)' => Active(s) /\ sig'[s].symbol = sig[s].symbol
    BY <1>1 DEF Active
  <2>2. \A k \in Seen' : k \in Seen /\ order'[k].symbol = order[k].symbol
    BY <1>2, <1>5 DEF Seen
  <2>3. \A y \in Symbols \ forced', s \in Signals :
          Buying(s, y)' /\ y \in sent => y \in sent'
    BY <1>3, <2>1 DEF Buying, Underway
  <2>4. ASSUME NEW y \in Symbols \ forced', NEW k \in BuysOf(y)'
        PROVE  /\ y \in sent => y \in sent' \/ (k \in Held' /\ y \in managed')
               /\ k \in Held /\ y \in managed => y \in sent' \/ (k \in Held' /\ y \in managed')
    <3>1. k \in Committed /\ k \notin sold /\ order[k].symbol = y
      BY <1>2, <2>2, <2>4 DEF BuysOf, Seen
    <3>2. Underway(y)
      BY <3>1 DEF Underway
    <3>3. k \in Held => y # x
      BY <3>1
    <3> QED BY <1>1, <1>2, <1>3, <3>1, <3>2, <3>3
  <2> HIDE DEF sold
  <2> QED BY <1>3, <2>1, <2>2, <2>3, <2>4, MarksKept
<1>7. TypeOK' /\ Halted'
  BY <1>1, <1>3 DEF TypeOK, Halted
<1> HIDE DEF sold
<1> QED BY <1>1, <1>4, <1>5, <1>6, <1>7, Outside DEF task

LEMMA SyncsKeeps ==
  ASSUME IInv, Syncs
  PROVE  IInv'
<1> USE DEF IInv
<1>1. /\ UNCHANGED <<sig, holder, sent, order, balance, inflight, recent, halt, unseen,
                     forced, through, restarts>>
      /\ HeldSymbols \subseteq managed' /\ managed' \subseteq HeldSymbols \cup managed
  BY DEF Syncs, task, gate, history
<1>2. Held' = Held /\ Committed' = Committed /\ Seen' = Seen
  BY <1>1 DEF Held, Open, Committed, Seen
<1>3. Counted'
  BY <1>1, <1>2 DEF Counted, InBalance
<1>4. Marked'
  <2>1. \A s \in Signals, x \in Symbols : Buying(s, x)' <=> Buying(s, x)
    BY <1>1 DEF Buying, Active
  <2>2. \A x \in Symbols : BuysOf(x)' = BuysOf(x)
    BY <1>1, <1>2 DEF BuysOf
  <2>3. \A x \in Symbols : \A k \in BuysOf(x) : k \in Held => x \in managed'
    BY <1>1 DEF BuysOf, HeldSymbols
  <2> QED BY <1>1, <1>2, <2>1, <2>2, <2>3 DEF Marked
<1>5. TypeOK' /\ Halted'
  <2>1. HeldSymbols \subseteq Symbols
    BY DEF HeldSymbols, Named, Committed
  <2> QED BY <1>1, <2>1 DEF TypeOK, Halted
<1> QED BY <1>1, <1>2, <1>3, <1>4, <1>5, Outside DEF task

\* The balance in use shows what is held of the orders it counts for.
LEMMA BalanceExpiresKeeps ==
  ASSUME IInv, BalanceExpires
  PROVE  IInv'
<1> USE DEF IInv
<1>1. /\ UNCHANGED <<sig, holder, sent, order, managed, inflight, recent, halt, unseen,
                     forced, through, restarts>>
      /\ balance' = Stale
  BY DEF BalanceExpires, task, market, history
<1>2. Held' = Held /\ Committed' = Committed /\ Seen' = Seen
  BY <1>1 DEF Held, Open, Committed, Seen
<1>3. Counted'
  <2>1. \A k \in Seen : k \in Held \/ \E s \in inflight : sig[s].order = k
    BY DEF Counted, InBalance, Seen, Committed, Held, Open
  <2> QED BY <1>1, <1>2, <2>1 DEF Counted, InBalance, Stale
<1>4. TypeOK' /\ Halted' /\ Marked'
  BY <1>1, <1>2 DEF TypeOK, Stale, Halted, Marked, Buying, Active, BuysOf
<1> QED BY <1>1, <1>2, <1>3, <1>4, Outside DEF task

\* An amount is dropped: its order is in the balance, or is not counted any more.
LEMMA InflightExpiresKeeps ==
  ASSUME IInv, NEW s \in Signals, InflightExpires(s)
  PROVE  IInv'
<1> USE DEF IInv
<1>1. /\ UNCHANGED <<sig, holder, sent, order, managed, balance, recent, halt, forced,
                     through, restarts>>
      /\ inflight' = inflight \ {s} /\ unseen' = unseen \cup Uncounted(s)
  BY DEF InflightExpires, task, market
<1>2. Held' = Held /\ Committed' = Committed /\ Seen' = Seen \ Uncounted(s)
  BY <1>1 DEF Held, Open, Committed, Seen
<1>3. Counted'
  <2>1. ASSUME NEW k \in Seen'
        PROVE  InBalance(k) \/ \E t \in inflight' : sig[t].order = k
    <3>1. k \in Seen /\ k \in Committed /\ k \notin Uncounted(s)
      BY <1>2, <2>1 DEF Seen
    <3>2. CASE k = sig[s].order
      BY <3>1, <3>2 DEF Uncounted, InBalance
    <3>3. CASE k # sig[s].order
      BY <1>1, <3>1, <3>3 DEF Counted
    <3> QED BY <3>2, <3>3
  <2> QED BY <1>1, <1>2, <2>1 DEF Counted, InBalance
<1>4. Marked'
  BY <1>1, <1>2 DEF Marked, Buying, Active, BuysOf
<1>5. TypeOK' /\ Halted'
  BY <1>1 DEF TypeOK, Halted, Uncounted, Committed, Held, Open
<1> QED BY <1>1, <1>2, <1>3, <1>4, <1>5, Outside DEF task

LEMMA AgesKeeps ==
  ASSUME IInv, NEW s \in Signals, Ages(s)
  PROVE  IInv'
<1> USE DEF IInv
<1>1. /\ UNCHANGED <<sig, holder, sent, order, managed, balance, inflight, halt, unseen,
                     forced, through, restarts>>
      /\ recent' = recent \ {s}
  BY DEF Ages, task, market, gate, history
<1>2. Held' = Held /\ Committed' = Committed /\ Seen' = Seen
  BY <1>1 DEF Held, Open, Committed, Seen
<1>3. Counted' /\ Marked'
  BY <1>1, <1>2 DEF Counted, InBalance, Marked, Buying, Active, BuysOf
<1>4. TypeOK' /\ Halted'
  BY <1>1 DEF TypeOK, Halted
<1> QED BY <1>1, <1>2, <1>3, <1>4, Outside DEF task

LEMMA HaltOrResumeKeeps ==
  ASSUME IInv, HaltOrResume
  PROVE  IInv'
<1> USE DEF IInv
<1>1. /\ UNCHANGED <<sig, holder, sent, order, managed, balance, inflight, recent, unseen,
                     forced, restarts>>
      /\ halt' \in BOOLEAN /\ through' = {}
  BY DEF HaltOrResume, task, market, gate, TypeOK
<1>2. Held' = Held /\ Committed' = Committed /\ Seen' = Seen
  BY <1>1 DEF Held, Open, Committed, Seen
<1>3. Counted' /\ Marked'
  BY <1>1, <1>2 DEF Counted, InBalance, Marked, Buying, Active, BuysOf
<1>4. TypeOK' /\ Halted'
  BY <1>1 DEF TypeOK, Halted
<1> QED BY <1>1, <1>2, <1>3, <1>4, Outside DEF task

\* A new process counts what is held; no order on its way is counted again.
LEMMA RestartKeeps ==
  ASSUME IInv, Restart
  PROVE  IInv'
<1> USE DEF IInv
<1>1. /\ holder' = None /\ balance' = Stale /\ inflight' = {}
      /\ restarts' = restarts + 1 /\ restarts < MaxRestarts
      /\ UNCHANGED <<recent, halt, forced>>
  BY DEF Restart
<1>2. /\ sig' \in [Signals -> Signal]
      /\ \A s \in Signals : ~Active(s)' /\ sig'[s].pc \notin Working
  <2>1. 0 \in 0 .. BuyMaxRetry - 1 /\ 0 \in 0 .. SubmitTries - 1
    BY RetryAssumption
  <2>2. \A s \in Signals : [sig[s] EXCEPT !.pc = "done", !.attempt = 0, !.try = 0] \in Signal
    BY <2>1 DEF TypeOK, Signal
  <2>3. sig' \in [Signals -> Signal]
    BY <2>2 DEF Restart, TypeOK
  <2>4. ASSUME NEW s \in Signals PROVE ~Active(s)' /\ sig'[s].pc \notin Working
    <3>1. CASE Active(s)
      <4>1. sig'[s].pc = "done"
        BY <3>1 DEF Restart, TypeOK, Signal
      <4> QED BY <4>1 DEF Active, Working
    <3>2. CASE ~Active(s)
      <4>1. sig'[s] = sig[s]
        BY <3>2 DEF Restart
      <4> QED BY <3>2, <4>1 DEF Active, Working
    <3> QED BY <3>1, <3>2
  <2> QED BY <2>3, <2>4
<1>3. /\ order' \in [Orders -> Order] /\ Held' = Held /\ unseen' \subseteq Orders
      /\ Seen' \subseteq Held \cap Seen
      /\ \A k \in Committed' : order'[k].symbol \in Symbols
      /\ \A k \in Held : order'[k] = order[k]
      /\ through' \subseteq Signals
      /\ halt => \A s, t \in through' : s = t
  <2>1. Open \subseteq Orders /\ Held \subseteq Orders
    BY DEF Open, Held
  <2>2. CASE unseen' = unseen \cup Open /\ UNCHANGED <<order, through>>
    BY <2>1, <2>2 DEF Held, Open, Committed, Seen, TypeOK, Named, Halted
  <2>3. CASE \E s \in Signals, k \in Orders :
               sig[s].pc = "submit" /\ Accepted(s, k) /\ unseen' = unseen \cup Open \cup {k}
    <3>1. PICK s \in Signals, k \in Orders :
            sig[s].pc = "submit" /\ Accepted(s, k) /\ unseen' = unseen \cup Open \cup {k}
      BY <2>3
    <3>2. sig[s].symbol \in Symbols
      BY <3>1 DEF Named, Blank
    <3>3. Seen' \subseteq Held \cap Seen
      BY <3>1, AcceptedOrder DEF Seen, Committed
    <3>4. through' \subseteq Signals /\ (halt => \A t, u \in through' : t = u)
      BY <3>1 DEF Accepted, Halted, TypeOK
    <3>5. \A m \in Committed' : order'[m].symbol \in Symbols
      BY <2>1, <3>1, <3>2, AcceptedOrder DEF Named, Committed
    <3>6. \A m \in Held : order'[m] = order[m]
      BY <2>1, <3>1, AcceptedOrder DEF Committed
    <3> QED BY <2>1, <3>1, <3>3, <3>4, <3>5, <3>6, AcceptedOrder DEF TypeOK
  <2> QED BY <2>2, <2>3 DEF Restart
<1>4. /\ managed' \subseteq Symbols /\ sent' \subseteq Symbols
      /\ \A k \in Held : order[k].symbol \in managed'
  <2>1. HeldSymbols \subseteq Symbols
    BY DEF HeldSymbols, Named, Committed
  <2>2. managed' \subseteq Symbols /\ \A k \in Held : order[k].symbol \in managed'
    BY <2>1 DEF Restart, HeldSymbols
  <2>3. sent' \subseteq Symbols
    BY DEF Restart, Named, Blank
  <2> QED BY <2>2, <2>3
<1>5. TypeOK'
  <2>1. restarts' \in 0 .. MaxRestarts
    BY <1>1, OrdersAssumption DEF TypeOK
  <2> QED BY <1>1, <1>2, <1>3, <1>4, <2>1 DEF TypeOK, Stale
<1>6. Named' /\ Serial' /\ Halted'
  <2>1. \A s \in Signals : sig'[s].symbol \in Symbols \/ Blank(sig'[s])
    <3>1. \A s \in Signals : Active(s) => sig[s].symbol \in Symbols
      BY DEF Named, Blank, Active, Working
    <3>2. \A s \in Signals : Active(s) => sig'[s].symbol = sig[s].symbol
      BY DEF Restart, TypeOK, Signal
    <3>3. \A s \in Signals : ~Active(s) => sig'[s] = sig[s]
      BY DEF Restart
    <3> QED BY <3>1, <3>2, <3>3 DEF Named
  <2> QED BY <1>1, <1>2, <1>3, <2>1 DEF Named, Serial, Halted, Working
<1>7. Counted'
  BY <1>1, <1>3 DEF Counted, InBalance, Stale
<1>8. Room' /\ WithinTarget'
  BY <1>2, <1>3, NoMore DEF Room, Working
<1>9. Marked'
  <2>1. \A x \in Symbols : BuysOf(x)' \subseteq BuysOf(x) \cap Held
    BY <1>3 DEF BuysOf
  <2> QED BY <1>1, <1>2, <1>3, <1>4, <2>1 DEF Marked, Buying, BuysOf
<1> QED BY <1>5, <1>6, <1>7, <1>8, <1>9

-------------------------------------------------------------------------------
(* Theorems *)

\* The invariant holds at first, with a holding of before as well ...
LEMMA InitHolds == Init => IInv
<1> SUFFICES ASSUME Init PROVE IInv
  OBVIOUS
<1>1. /\ order \in [Orders -> Order]
      /\ \A k \in Orders : order[k].state \in {"none", "held"}
      /\ \A k \in Held : order[k].symbol \in Symbols
      /\ \A k, m \in Held : k = m
  <2>1. CASE order = [k \in Orders |-> NoOrder]
    BY <2>1 DEF Order, NoOrder, Held
  <2>2. CASE \E h \in Orders, x \in Symbols :
               order = [[k \in Orders |-> NoOrder] EXCEPT ![h] = [state |-> "held", symbol |-> x]]
    BY <2>2 DEF Order, NoOrder, Held
  <2> QED BY <2>1, <2>2 DEF Init
<1>2. /\ \A s \in Signals : /\ sig[s].symbol = None /\ Blank(sig[s])
                            /\ ~Active(s) /\ sig[s].pc \notin Working
      /\ sig \in [Signals -> Signal]
  <2>1. 0 \in 0 .. BuyMaxRetry - 1 /\ 0 \in 0 .. SubmitTries - 1
    BY RetryAssumption
  <2>2. NoSignal \in Signal
    BY <2>1 DEF NoSignal, Signal, Statuses
  <2> QED BY <2>2 DEF Init, NoSignal, Blank, Active, Working
<1>3. /\ holder = None /\ sent = {} /\ managed = HeldSymbols /\ balance = Stale /\ inflight = {}
      /\ recent = {} /\ halt = FALSE /\ unseen = {} /\ forced = {} /\ through = {} /\ restarts = 0
      /\ Cardinality(Held) <= Target
  BY DEF Init
<1>4. Committed = Held /\ Seen = Held
  BY <1>1, <1>3 DEF Committed, Seen, Held, Open
<1>5. TypeOK
  <2>1. HeldSymbols \subseteq Symbols /\ 0 \in 0 .. MaxRestarts
    BY <1>1, OrdersAssumption DEF HeldSymbols
  <2> QED BY <1>1, <1>2, <1>3, <2>1 DEF TypeOK, Stale
<1>6. Named /\ Serial /\ Halted
  BY <1>1, <1>2, <1>3, <1>4 DEF Named, Serial, Halted
<1>7. Counted /\ Room /\ WithinTarget
  BY <1>2, <1>3, <1>4 DEF Counted, InBalance, Stale, Room, WithinTarget, Seen, Working
<1>8. Marked
  BY <1>1, <1>2, <1>3, <1>4 DEF Marked, Buying, BuysOf, HeldSymbols
<1> QED BY <1>5, <1>6, <1>7, <1>8 DEF IInv

\* ... and every step keeps it.
LEMMA StepKeeps == IInv /\ [Next]_vars => IInv'
<1> SUFFICES ASSUME IInv, [Next]_vars PROVE IInv'
  OBVIOUS
<1>1. CASE \E s \in Signals, x \in Symbols : OnTick(s, x) \/ Direct(s, x)
  BY <1>1, OnTickKeeps, DirectKeeps
<1>2. CASE \E s \in Signals : Execution(s) \/ InflightExpires(s) \/ Ages(s)
  BY <1>2, AcquireKeeps, BeginKeeps, BalanceKeeps, SubmitFailsKeeps, SubmitsKeeps,
     InflightExpiresKeeps, AgesKeeps DEF Execution
<1>3. CASE \E k \in Orders : Executes(k) \/ Expires(k)
  BY <1>3, ExecutesKeeps, ExpiresKeeps
<1>4. CASE \E x \in Symbols : Exits(x)
  BY <1>4, ExitsKeeps
<1>5. CASE Syncs \/ BalanceExpires \/ HaltOrResume \/ Restart
  BY <1>5, SyncsKeeps, BalanceExpiresKeeps, HaltOrResumeKeeps, RestartKeeps
<1>6. CASE UNCHANGED vars
  <2>1. UNCHANGED <<Held, Open, Committed, Seen>>
    BY <1>6 DEF vars, Held, Open, Committed, Seen
  <2>2. TypeOK' /\ Named' /\ Serial' /\ Halted'
    BY <1>6, <2>1 DEF vars, IInv, TypeOK, Named, Serial, Halted
  <2>3. Counted' /\ Room' /\ WithinTarget' /\ Marked'
    BY <1>6, <2>1 DEF vars, IInv, Counted, InBalance, Room, WithinTarget, Marked, Buying,
                      Active, BuysOf
  <2> QED BY <2>2, <2>3 DEF IInv
<1> QED BY <1>1, <1>2, <1>3, <1>4, <1>5, <1>6 DEF Next

\* The inductive invariant: one execution at a time has found room for its order, every
\* order the engine knows of is counted at the gate, and a symbol being bought is marked.
THEOREM Invariance == Spec => []IInv
  BY InitHolds, StepKeeps, PTL DEF Spec

\* Every variable keeps its type.
THEOREM TypeCorrect == Spec => []TypeOK
<1>1. IInv => TypeOK
  BY DEF IInv
<1> QED BY <1>1, Invariance, PTL

\* The held and open orders of the engine stay within the deployment target, however
\* many signals share one cached balance, are retried or are cut off by a restart.
THEOREM TargetKept == Spec => []WithinTarget
<1>1. IInv => WithinTarget
  BY DEF IInv
<1> QED BY <1>1, Invariance, PTL

\* A symbol nobody re-armed or chose too early has one order, held or open.
THEOREM OneBuy == Spec => []BoughtOnce
<1>1. IInv => BoughtOnce
  BY DEF IInv, Named, Marked, BoughtOnce, BuysOf, Seen
<1> QED BY <1>1, Invariance, PTL

\* After an emergency halt at most one signal has an order accepted: the one that was
\* past preflight, with all its retries.
THEOREM HaltHolds == Spec => []HaltLetsOneThrough
<1>1. IInv => HaltLetsOneThrough
  <2> SUFFICES ASSUME IInv, halt PROVE Cardinality(through) <= 1
    BY DEF HaltLetsOneThrough
  <2>1. CASE through = {}
    BY <2>1, FS_EmptySet
  <2>2. CASE through # {}
    <3>1. PICK s \in through : through = {s}
      BY <2>2 DEF IInv, Halted, TypeOK
    <3> QED BY <3>1, FS_Singleton
  <2> QED BY <2>1, <2>2
<1> QED BY <1>1, Invariance, PTL

===============================================================================

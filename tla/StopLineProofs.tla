---------------------------- MODULE StopLineProofs ----------------------------
(***************************************************************************)
(* Proofs about StopLine, for every set of positions, tasks, prices and    *)
(* rates: its types, that the stop of a registered position never falls    *)
(* and follows the high, and that the saved stop state is the current one. *)
(***************************************************************************)
EXTENDS StopLine, TLAPS

-------------------------------------------------------------------------------
(* Arithmetic of the levels *)

\* Products grow with their first factor.
LEMMA MulMono ==
  ASSUME NEW a \in Nat, NEW b \in Nat, NEW c \in Nat, a <= b
  PROVE  a * c <= b * c
  <1>1. PICK d \in Nat : b = a + d
    BY SMT
  <1>2. b * c = a * c + d * c
    BY <1>1, SMT
  <1>3. d * c \in Nat /\ a * c \in Nat
    BY <1>1, SMT
  <1> QED BY <1>2, <1>3, SMT

\* A trailing stop is one of the levels there are.
LEMMA TrailStopLevel ==
  ASSUME NEW h \in 1 .. Top, NEW rate \in 0 .. 1000
  PROVE  TrailStop(h, rate) \in Level
  <1> DEFINE left == 1000 - rate
  <1>1. left \in Nat /\ left <= 1000 /\ h \in Nat /\ Top \in Nat
    BY PriceAssumption
  <1>2. left * h <= 1000 * h
    BY <1>1, MulMono
  <1>3. 1000 * h <= 1000 * Top
    BY <1>1
  <1>4. h * left = left * h /\ h * left \in Nat
    BY <1>1, SMT
  <1> HIDE DEF left
  <1>5. h * left \in 0 .. 1000 * Top
    BY <1>1, <1>2, <1>3, <1>4
  <1> QED BY <1>5 DEF TrailStop, Level, left

\* A break-even stop is one of the levels there are.
LEMMA BreakevenLevel ==
  ASSUME NEW e \in 1 .. Top, NEW h \in 1 .. Top
  PROVE  BreakevenStop(e, h) \in Level
  <1> DEFINE locked == 1000 + Lock
             triggered == 1000 + Trigger
  <1>1. /\ locked \in Nat /\ triggered \in Nat /\ locked <= triggered
        /\ e \in Nat /\ h \in Nat /\ Top \in Nat
    BY PriceAssumption, LockAssumption, RateAssumption
  <1>2. locked * e <= triggered * e
    BY <1>1, MulMono
  <1>3. /\ locked * e = e * locked /\ triggered * e = e * triggered
        /\ e * locked \in Nat /\ e * triggered \in Nat
    BY <1>1, SMT
  <1>4. 1000 * h <= 1000 * Top
    BY <1>1
  <1> HIDE DEF locked, triggered
  <1>5. 1000 * h >= e * triggered => e * locked \in 0 .. 1000 * Top
    BY <1>1, <1>2, <1>3, <1>4
  <1>6. 0 \in 0 .. 1000 * Top
    BY <1>1
  <1> QED BY <1>5, <1>6 DEF BreakevenStop, Level, locked, triggered

\* A rate in force is at most the configured one, so its stop is at least as high.
LEMMA TrailStopTight ==
  ASSUME NEW h \in 1 .. Top, NEW rate \in TrailRates
  PROVE  TrailStop(h, rate) >= TrailStop(h, Trail)
  <1> DEFINE near == 1000 - rate
             far == 1000 - Trail
  <1>1. near \in Nat /\ far \in Nat /\ far <= near /\ h \in Nat
    BY PriceAssumption, RateAssumption
  <1>2. far * h <= near * h
    BY <1>1, MulMono
  <1>3. far * h = h * far /\ near * h = h * near
    BY <1>1, SMT
  <1>4. h * far <= h * near
    BY <1>2, <1>3
  <1> QED BY <1>4 DEF TrailStop

-------------------------------------------------------------------------------
(* The inductive invariant *)

\* What tasks and tables refer to is a position that was registered.
Known ==
  /\ current # None => dict[current] \in StopRow
  /\ latest # None => db[latest] \in StopRow
  /\ \A t \in Tasks : task[t].pc # "idle" => task[t].id \in Ids /\ dict[task[t].id] \in StopRow

SameStop(p, q) == /\ p.entry = q.entry
                  /\ p.high = q.high
                  /\ p.active = q.active
                  /\ p.trailing = q.trailing

AllSaved == \A i \in Ids : SameStop(db[i], dict[i])

\* The stop of position p is where its high puts it.
Follows(p) == /\ p.active >= p.initial
              /\ p.trailing => p.active >= TrailStop(p.high, Trail)
              /\ p.active >= BreakevenStop(p.entry, p.high)

AllFollow == \A i \in Ids : dict[i] \in StopRow => Follows(dict[i])

\* A scale-out works with a price its position has seen.
PricesSeen == \A t \in Tasks :
  task[t].pc \in {"target", "part", "all"} =>
    task[t].price \in 1 .. dict[task[t].id].high

IInv == TypeOK /\ Known /\ AllSaved /\ AllFollow /\ PricesSeen

-------------------------------------------------------------------------------
(* What the operations make of one position *)

\* add_position makes a well-typed dict whose stop follows its high.
LEMMA RegisteredFollows ==
  ASSUME NEW e \in 1 .. Top, TypeOK
  PROVE  NewPosition(e) \in StopRow /\ Follows(NewPosition(e))
  <1>1. TrailStop(e, Loss) \in Level
    BY TrailStopLevel, RateAssumption
  <1>2. InitialStop(e) \in Level
    BY <1>1 DEF InitialStop, TrailStop
  <1>3. NewPosition(e) \in StopRow
    BY <1>2 DEF NewPosition, StopRow, HarvestedToday
  <1>4. BreakevenStop(e, e) = 0
    <2> DEFINE triggered == 1000 + Trigger
    <2>1. triggered \in Nat /\ e \in Nat /\ 1001 <= triggered /\ e >= 1
      BY LockAssumption, PriceAssumption
    <2>2. 1001 * e <= triggered * e
      BY <2>1, MulMono
    <2>3. triggered * e = e * triggered
      BY <2>1, SMT
    <2> HIDE DEF triggered
    <2>4. ~(1000 * e >= e * triggered)
      BY <2>1, <2>2, <2>3
    <2> QED BY <2>4 DEF BreakevenStop, triggered
  <1>5. NewPosition(e).active \in Level /\ NewPosition(e).initial = NewPosition(e).active
        /\ NewPosition(e).trailing = FALSE /\ NewPosition(e).entry = e /\ NewPosition(e).high = e
    BY <1>2 DEF NewPosition
  <1> QED BY <1>3, <1>4, <1>5 DEF Follows, Level

\* A position, whatever raised its stop, stays of its type and never loses.
LEMMA RaisedLevel ==
  ASSUME NEW p \in StopRow, NEW x \in Level, NEW y \in Level
  PROVE  /\ Raised(p, x, y) \in Level
         /\ Raised(p, x, y) >= p.active
         /\ Raised(p, x, y) >= p.initial
         /\ Raised(p, x, y) >= x
         /\ Raised(p, x, y) >= y
  <1>1. p.active \in Level /\ p.initial \in Level
    BY DEF StopRow
  <1> QED BY <1>1 DEF Raised, AtLeast, Level

\* _update_trailing never lowers the stop or the high, and the stop follows the high.
LEMMA UpdatedFollows ==
  ASSUME NEW p \in StopRow, NEW price \in 1 .. Top, NEW rate \in TrailRates
  PROVE  LET q == Updated(p, price, rate)
         IN  /\ q \in StopRow
             /\ q.active >= p.active
             /\ q.high >= p.high /\ q.high >= price
             /\ q.entry = p.entry
             /\ p.trailing => q.trailing
             /\ Follows(q)
  <1> DEFINE high     == AtLeast(p.high, price)
             trailing == p.trailing \/ 1000 * price >= p.entry * (1000 + Activate)
             trail    == IF trailing THEN TrailStop(high, rate) ELSE 0
             be       == BreakevenStop(p.entry, high)
             q        == Updated(p, price, rate)
  <1>1. high \in 1 .. Top /\ high >= p.high /\ high >= price /\ p.entry \in 1 .. Top
    BY PriceAssumption DEF AtLeast, StopRow
  <1>2. trailing \in BOOLEAN
    BY DEF StopRow
  <1>3. TrailStop(high, rate) \in Level /\ TrailStop(high, rate) >= TrailStop(high, Trail)
    <2> HIDE DEF high, trailing, trail, be, q
    <2>1. rate \in 0 .. 1000
      BY RateAssumption
    <2>2. TrailStop(high, rate) \in Level
      BY <1>1, <2>1, TrailStopLevel
    <2>3. TrailStop(high, rate) >= TrailStop(high, Trail)
      BY <1>1, TrailStopTight
    <2> QED BY <2>2, <2>3
  <1>4. trail \in Level /\ be \in Level
    <2>1. 0 \in Level
      BY PriceAssumption DEF Level
    <2> QED BY <2>1, <1>1, <1>3, BreakevenLevel
  <1>5. q = [p EXCEPT !.high = high, !.trailing = trailing, !.active = Raised(p, trail, be)]
    BY DEF Updated
  <1> HIDE DEF high, trailing, trail, be, q
  <1>6. /\ q \in StopRow /\ q.high = high /\ q.trailing = trailing /\ q.entry = p.entry
        /\ q.initial = p.initial /\ q.active = Raised(p, trail, be)
    BY <1>1, <1>2, <1>4, <1>5, RaisedLevel DEF StopRow
  <1>7. p.trailing => trailing
    BY DEF trailing
  <1>8. Follows(q)
    <2>1. q.active >= q.initial /\ q.active >= be /\ q.active >= trail /\ q.active >= p.active
      BY <1>4, <1>6, RaisedLevel
    <2>2. be = BreakevenStop(q.entry, q.high)
      BY <1>6 DEF be
    <2>3. q.trailing => q.active >= TrailStop(q.high, Trail)
      <3>1. q.trailing => trail = TrailStop(high, rate)
        BY <1>6 DEF trail
      <3>2. q.active \in Nat /\ TrailStop(high, rate) \in Nat
        BY <1>3, <1>6 DEF StopRow, Level
      <3>3. TrailStop(high, Trail) \in Nat
        <4>1. Trail \in 0 .. 1000
          BY RateAssumption
        <4>2. TrailStop(high, Trail) \in Level
          BY <1>1, <4>1, TrailStopLevel
        <4>3. Level \subseteq Nat
          BY PriceAssumption DEF Level
        <4> QED BY <4>2, <4>3
      <3> QED BY <3>1, <3>2, <3>3, <2>1, <1>3, <1>6
    <2> QED BY <2>1, <2>2, <2>3 DEF Follows
  <1>9. q.active >= p.active
    BY <1>4, <1>6, RaisedLevel
  <1> QED BY <1>1, <1>6, <1>7, <1>8, <1>9 DEF q

\* The end of a scale-out raises the stop once more, from a price that is no news.
LEMMA RunnerFollows ==
  ASSUME NEW p \in StopRow, NEW price \in 1 .. p.high, Follows(p)
  PROVE  /\ Runner(p, price) \in StopRow
         /\ Runner(p, price).active >= p.active
         /\ Runner(p, price).high = p.high
         /\ Runner(p, price).harvested = p.harvested
         /\ Follows(Runner(p, price))
  <1> DEFINE stop == AtLeast(AtLeast(p.active, p.initial), TrailStop(p.high, Trail))
  <1>1. p.high \in 1 .. Top /\ p.active \in Level /\ p.initial \in Level
    BY DEF StopRow
  <1>2. AtLeast(p.high, price) = p.high
    BY <1>1 DEF AtLeast
  <1>3. TrailStop(p.high, Trail) \in Level
    BY <1>1, TrailStopLevel, RateAssumption
  <1>4. /\ stop \in Level /\ stop >= p.active /\ stop >= p.initial
        /\ stop >= TrailStop(p.high, Trail)
    BY <1>1, <1>3 DEF AtLeast, Level
  <1>5. Runner(p, price) = [p EXCEPT !.high = p.high, !.trailing = TRUE, !.active = stop]
    BY <1>2 DEF Runner
  <1> HIDE DEF stop
  <1>6. /\ Runner(p, price) \in StopRow /\ Runner(p, price).high = p.high
        /\ Runner(p, price).entry = p.entry /\ Runner(p, price).initial = p.initial
        /\ Runner(p, price).active = stop /\ Runner(p, price).harvested = p.harvested
    BY <1>1, <1>4, <1>5 DEF StopRow
  <1>7. p.active >= BreakevenStop(p.entry, p.high) /\ p.entry \in 1 .. Top
    BY DEF Follows, StopRow
  <1>8. BreakevenStop(p.entry, p.high) \in Level
    BY <1>1, <1>7, BreakevenLevel
  <1>9. stop >= BreakevenStop(p.entry, p.high)
    BY <1>1, <1>4, <1>7, <1>8 DEF Level
  <1> QED BY <1>4, <1>6, <1>9 DEF Follows

-------------------------------------------------------------------------------
(* The shared parts of the actions *)

\* No dict looks like a missing one.
LEMMA RowApart == NoRow \notin StopRow
  <1>1. NoRow.entry = 0 /\ \A p \in StopRow : p.entry \in 1 .. Top
    BY DEF NoRow, StopRow
  <1>2. 0 \notin 1 .. Top
    BY PriceAssumption
  <1> QED BY <1>1, <1>2

\* A new registration takes an id nothing refers to.
LEMMA AddPositionEffect ==
  ASSUME IInv, NEW i \in Ids, NEW e \in 1 .. Top, AddPosition(i, e)
  PROVE  /\ dict' \in [Ids -> StopRow \cup {NoRow}] /\ db' \in [Ids -> StopRow \cup {NoRow}]
         /\ dict' = [dict EXCEPT ![i] = NewPosition(e)]
         /\ dict[i] \notin StopRow
         /\ current' = i /\ latest' = i /\ closing' = FALSE
         /\ dict'[i] \in StopRow /\ db'[i] \in StopRow
         /\ AllSaved' /\ AllFollow'
  <1> USE DEF IInv
  <1>1. /\ dict \in [Ids -> StopRow \cup {NoRow}] /\ db \in [Ids -> StopRow \cup {NoRow}]
    BY DEF TypeOK
  <1>2. NewPosition(e) \in StopRow /\ Follows(NewPosition(e))
    BY RegisteredFollows
  <1>3. /\ dict' = [dict EXCEPT ![i] = NewPosition(e)]
        /\ db' = [db EXCEPT ![i] = NewPosition(e)]
        /\ current' = i /\ latest' = i /\ closing' = FALSE
        /\ db[i] = NoRow
    BY DEF AddPosition, Saved
  <1>4. dict[i] \notin StopRow
    <2>1. dict[i].entry = 0
      BY <1>3 DEF AllSaved, SameStop, NoRow
    <2> QED BY <2>1, PriceAssumption DEF StopRow
  <1>5. AllSaved'
    BY <1>1, <1>3 DEF AllSaved, SameStop
  <1>6. AllFollow'
    <2> SUFFICES ASSUME NEW j \in Ids, dict'[j] \in StopRow
                 PROVE  Follows(dict'[j])
      BY DEF AllFollow, Follows
    <2>1. CASE j = i
      BY <2>1, <1>1, <1>2, <1>3
    <2>2. CASE j # i
      BY <2>2, <1>1, <1>3 DEF AllFollow
    <2> QED BY <2>1, <2>2
  <1> QED BY <1>1, <1>2, <1>3, <1>4, <1>5, <1>6

\* A price moves one dict, and what is saved of it follows.
LEMMA ProcessPriceEffect ==
  ASSUME IInv, NEW t \in Tasks, NEW i \in Ids, NEW price \in Prices, dict[i] \in StopRow,
         ProcessPrice(t, i, price)
  PROVE  IInv' /\ dict'[i].active >= dict[i].active /\ \A j \in Ids \ {i} : dict'[j] = dict[j]
  <1> USE DEF IInv
  <1>1. PICK rate \in TrailRates : ProcessPriceAt(t, i, price, rate)
    BY DEF ProcessPrice
  <1> DEFINE p == dict[i]
             q == Updated(p, price, rate)
  <1>2. price \in 1 .. Top
    BY PriceAssumption
  <1>3. /\ q \in StopRow /\ q.active >= p.active /\ q.high >= p.high /\ q.high >= price
        /\ q.entry = p.entry /\ (p.trailing => q.trailing) /\ Follows(q)
    BY <1>2, UpdatedFollows
  <1>4. /\ dict' = [dict EXCEPT ![i] = q]
        /\ IF Moved(p, q) THEN Saved(i, q) ELSE UNCHANGED <<db, latest>>
        /\ current' = current /\ restarts' = restarts
        /\ Reach(i, q.active)
        /\ closing' = TRUE \/ closing' = closing
    <2>1. dict' = [dict EXCEPT ![i] = q]
      BY <1>1 DEF ProcessPriceAt
    <2>2. IF Moved(p, q) THEN Saved(i, q) ELSE UNCHANGED <<db, latest>>
      BY <1>1, Zenon DEF ProcessPriceAt
    <2>3. current' = current /\ restarts' = restarts
      BY <1>1 DEF ProcessPriceAt
    <2>4. Reach(i, q.active)
      BY <1>1, Zenon DEF ProcessPriceAt
    <2>5. closing' = TRUE \/ closing' = closing
      BY <1>1 DEF ProcessPriceAt
    <2> HIDE DEF p, q
    <2> QED BY <2>1, <2>2, <2>3, <2>4, <2>5
  <1>5. closing' \in BOOLEAN /\ reached' \in Level
    <2>1. closing' \in BOOLEAN
      BY <1>4 DEF TypeOK
    <2>2. reached \in Level /\ q.active \in Level
      BY <1>3 DEF TypeOK, StopRow
    <2> QED BY <1>4, <2>1, <2>2 DEF Reach, AtLeast
  <1>6. PICK job : /\ task' = [task EXCEPT ![t] = job]
                   /\ job = Idle \/ job = [pc |-> "exit", id |-> i, price |-> price]
                                 \/ job = [pc |-> "target", id |-> i, price |-> price]
    BY <1>1 DEF ProcessPriceAt
  <1>7. job \in Job /\ (job.pc # "idle" => job.id = i /\ job.price = price)
    BY <1>6, <1>2, PriceAssumption DEF Job, Idle
  <1>8. dict \in [Ids -> StopRow \cup {NoRow}] /\ db \in [Ids -> StopRow \cup {NoRow}]
        /\ task \in [Tasks -> Job]
    BY DEF TypeOK
  <1> HIDE DEF q
  <1>9. TypeOK'
    <2>1. db' \in [Ids -> StopRow \cup {NoRow}] /\ latest' \in Ids \cup {None}
      BY <1>3, <1>4, <1>8 DEF Saved, TypeOK
    <2>2. dict' \in [Ids -> StopRow \cup {NoRow}]
      BY <1>3, <1>4, <1>8
    <2>3. task' \in [Tasks -> Job]
      BY <1>6, <1>7, <1>8
    <2> QED BY <2>1, <2>2, <2>3, <1>4, <1>5 DEF TypeOK
  <1>10. \A j \in Ids : dict[j] \in StopRow => dict'[j] \in StopRow
    BY <1>3, <1>4, <1>8
  <1>11. Known'
    <2>1. latest' # None => db'[latest'] \in StopRow
      <3>1. CASE Moved(p, q)
        BY <3>1, <1>3, <1>4, <1>8 DEF Saved
      <3>2. CASE ~Moved(p, q)
        BY <3>2, <1>4 DEF Known
      <3> QED BY <3>1, <3>2
    <2>2. current' # None => dict'[current'] \in StopRow
      BY <1>4, <1>10 DEF Known, TypeOK
    <2>3. ASSUME NEW u \in Tasks, task'[u].pc # "idle"
          PROVE  task'[u].id \in Ids /\ dict'[task'[u].id] \in StopRow
      BY <2>3, <1>6, <1>7, <1>8, <1>10 DEF Known
    <2> QED BY <2>1, <2>2, <2>3 DEF Known
  <1>12. AllSaved'
    <2> SUFFICES ASSUME NEW j \in Ids
                 PROVE  SameStop(db'[j], dict'[j])
      BY DEF AllSaved, SameStop
    <2>1. CASE j # i
      BY <2>1, <1>4, <1>8 DEF Saved, AllSaved
    <2>2. CASE j = i /\ Moved(p, q)
      BY <2>2, <1>4, <1>8 DEF Saved, SameStop
    <2>3. CASE j = i /\ ~Moved(p, q)
      <3>1. q.high = p.high /\ q.trailing = p.trailing /\ q.active = p.active
        BY <2>3, <1>3 DEF Moved, StopRow, Level
      <3> QED BY <2>3, <3>1, <1>3, <1>4, <1>8 DEF AllSaved, SameStop
    <2> QED BY <2>1, <2>2, <2>3
  <1>13. AllFollow'
    <2> SUFFICES ASSUME NEW j \in Ids, dict'[j] \in StopRow
                 PROVE  Follows(dict'[j])
      BY DEF AllFollow, Follows
    <2>1. CASE j = i
      BY <2>1, <1>3, <1>4, <1>8
    <2>2. CASE j # i
      BY <2>2, <1>4, <1>8 DEF AllFollow
    <2> QED BY <2>1, <2>2
  <1>14. PricesSeen'
    <2> SUFFICES ASSUME NEW u \in Tasks, task'[u].pc \in {"target", "part", "all"}
                 PROVE  task'[u].price \in 1 .. dict'[task'[u].id].high
      BY DEF PricesSeen
    <2>1. CASE u = t
      <3>1. task'[u] = job /\ job.id = i /\ job.price = price
        BY <2>1, <1>6, <1>7, <1>8
      <3> QED BY <3>1, <1>2, <1>3, <1>4, <1>8 DEF StopRow
    <2>2. CASE u # t
      <3>1. task'[u] = task[u] /\ task[u].id \in Ids /\ dict[task[u].id] \in StopRow
        BY <2>2, <1>6, <1>8 DEF Known
      <3>2. task[u].price \in 1 .. dict[task[u].id].high
        BY <3>1 DEF PricesSeen
      <3>3. dict'[task[u].id].high >= dict[task[u].id].high
        BY <3>1, <1>3, <1>4, <1>8 DEF StopRow
      <3>4. dict'[task[u].id].high \in Nat /\ dict[task[u].id].high \in Nat
        BY <3>1, <1>10 DEF StopRow
      <3> QED BY <3>1, <3>2, <3>3, <3>4
    <2> QED BY <2>1, <2>2
  <1>15. \A j \in Ids \ {i} : dict'[j] = dict[j]
    BY <1>4, <1>8
  <1>16. dict'[i].active >= dict[i].active
    BY <1>3, <1>4, <1>8
  <1> QED BY <1>9, <1>11, <1>12, <1>13, <1>14, <1>15, <1>16

\* A task ends; what it did to its dict left the types and the highs alone.
LEMMA TaskEnds ==
  ASSUME IInv, NEW t \in Tasks, task' = [task EXCEPT ![t] = Idle],
         \A i \in Ids : dict[i] \in StopRow => dict'[i] \in StopRow /\ dict'[i].high = dict[i].high
  PROVE  /\ task' \in [Tasks -> Job]
         /\ \A u \in Tasks : task'[u].pc # "idle" =>
              task'[u].id \in Ids /\ dict'[task'[u].id] \in StopRow
         /\ PricesSeen'
  <1>1. task \in [Tasks -> Job]
    BY DEF IInv, TypeOK
  <1>2. Idle \in Job /\ Idle.pc = "idle"
    BY PriceAssumption DEF Idle, Job
  <1>3. \A u \in Tasks : task'[u].pc # "idle" => u # t /\ task'[u] = task[u]
    BY <1>1, <1>2
  <1>4. \A u \in Tasks : task[u].pc # "idle" => task[u].id \in Ids /\ dict[task[u].id] \in StopRow
    BY DEF IInv, Known
  <1>5. task' \in [Tasks -> Job]
    BY <1>1, <1>2
  <1>6. \A u \in Tasks : task'[u].pc # "idle" =>
          task'[u].id \in Ids /\ dict'[task'[u].id] \in StopRow
    BY <1>3, <1>4
  <1>7. PricesSeen'
    <2> SUFFICES ASSUME NEW u \in Tasks, task'[u].pc \in {"target", "part", "all"}
                 PROVE  task'[u].price \in 1 .. dict'[task'[u].id].high
      BY DEF PricesSeen
    <2>1. task'[u] = task[u] /\ task[u].id \in Ids /\ dict[task[u].id] \in StopRow
      BY <1>3, <1>4
    <2>2. task[u].price \in 1 .. dict[task[u].id].high
      BY <2>1 DEF IInv, PricesSeen
    <2> QED BY <2>1, <2>2
  <1> QED BY <1>5, <1>6, <1>7

-------------------------------------------------------------------------------
(* The invariant is inductive *)

\* The invariant holds at the start.
LEMMA InitIInv == Init => IInv
  <1> SUFFICES ASSUME Init PROVE IInv
    OBVIOUS
  <1>1. TypeOK
    <2>1. Idle \in Job /\ 0 \in Level /\ 0 \in 0 .. MaxRestarts
      BY RestartAssumption, PriceAssumption DEF Level, Job, Idle
    <2> QED BY <2>1 DEF Init, TypeOK
  <1>2. Known /\ PricesSeen
    BY DEF Init, Known, PricesSeen, Idle
  <1>3. AllSaved
    BY DEF Init, AllSaved, SameStop
  <1>4. AllFollow
    BY RowApart DEF Init, AllFollow
  <1> QED BY <1>1, <1>2, <1>3, <1>4 DEF IInv

\* Registering a position keeps the invariant.
LEMMA RegisterKeeps == ASSUME IInv, NEW i \in Ids, Register(i) PROVE IInv'
  <1>1. PICK e \in Entries : AddPosition(i, e)
    BY DEF Register
  <1>2. e \in 1 .. Top
    BY PriceAssumption
  <1>3. /\ dict' \in [Ids -> StopRow \cup {NoRow}] /\ db' \in [Ids -> StopRow \cup {NoRow}]
        /\ dict' = [dict EXCEPT ![i] = NewPosition(e)] /\ dict[i] \notin StopRow
        /\ current' = i /\ latest' = i /\ closing' = FALSE
        /\ dict'[i] \in StopRow /\ db'[i] \in StopRow
        /\ AllSaved' /\ AllFollow'
    BY <1>1, <1>2, AddPositionEffect
  <1>4. reached' = dict'[i].active /\ task' = task /\ restarts' = restarts
    BY DEF Register
  <1>5. task \in [Tasks -> Job] /\ restarts \in 0 .. MaxRestarts
    BY DEF IInv, TypeOK
  <1>6. reached' \in Level
    BY <1>3, <1>4 DEF StopRow
  <1>7. TypeOK'
    BY <1>3, <1>4, <1>5, <1>6 DEF TypeOK
  <1>8. \A t \in Tasks : task[t].pc # "idle" =>
          task[t].id \in Ids /\ dict[task[t].id] \in StopRow /\ task[t].id # i
    BY <1>3 DEF IInv, Known
  <1>9. \A t \in Tasks : task[t].pc # "idle" => dict'[task[t].id] = dict[task[t].id]
    BY <1>3, <1>8 DEF IInv, TypeOK
  <1>10. Known' /\ PricesSeen'
    BY <1>3, <1>4, <1>8, <1>9 DEF IInv, Known, PricesSeen
  <1> QED BY <1>3, <1>7, <1>10 DEF IInv

\* remove_position keeps the invariant.
LEMMA RemoveKeeps == ASSUME IInv, Remove PROVE IInv'
  <1>1. 0 \in Level
    BY PriceAssumption DEF Level
  <1>2. TypeOK'
    BY <1>1 DEF Remove, IInv, TypeOK
  <1>3. Known' /\ PricesSeen' /\ AllSaved' /\ AllFollow'
    BY DEF Remove, IInv, Known, PricesSeen, AllSaved, AllFollow, SameStop, Follows
  <1> QED BY <1>2, <1>3 DEF IInv

\* on_tick keeps the invariant.
LEMMA OnTickKeeps == ASSUME IInv, NEW t \in Ticks, OnTick(t) PROVE IInv'
  <1>1. PICK price \in Prices : ProcessPrice(t, current, price)
    BY DEF OnTick
  <1>2. current \in Ids /\ dict[current] \in StopRow /\ t \in Tasks
    BY DEF OnTick, IInv, TypeOK, Known, Tasks
  <1> QED BY <1>1, <1>2, ProcessPriceEffect

\* check_exits_via_rest picking a symbol keeps the invariant.
LEMMA RestPickKeeps == ASSUME IInv, NEW t \in Rests, RestPick(t) PROVE IInv'
  <1>1. current \in Ids /\ dict[current] \in StopRow /\ t \in Tasks
    BY DEF RestPick, IInv, TypeOK, Known, Tasks
  <1>2. TypeOK'
    BY <1>1, PriceAssumption DEF RestPick, IInv, TypeOK, Job
  <1>3. Known' /\ PricesSeen'
    BY <1>1 DEF RestPick, IInv, TypeOK, Known, PricesSeen
  <1>4. AllSaved' /\ AllFollow'
    BY DEF RestPick, IInv, AllSaved, AllFollow, SameStop, Follows
  <1> QED BY <1>2, <1>3, <1>4 DEF IInv

\* check_exits_via_rest judging a price keeps the invariant, on a removed dict too.
LEMMA RestPriceKeeps == ASSUME IInv, NEW t \in Rests, RestPrice(t) PROVE IInv'
  <1>1. t \in Tasks /\ task[t].id \in Ids /\ dict[task[t].id] \in StopRow
    BY DEF RestPrice, IInv, Known, Tasks
  <1>2. CASE \E price \in Prices : ProcessPrice(t, task[t].id, price)
    BY <1>1, <1>2, ProcessPriceEffect
  <1>3. CASE /\ task' = [task EXCEPT ![t] = Idle]
             /\ UNCHANGED <<current, dict, db, latest, closing, reached, restarts>>
    <2>1. /\ task' \in [Tasks -> Job]
          /\ \A u \in Tasks : task'[u].pc # "idle" =>
               task'[u].id \in Ids /\ dict'[task'[u].id] \in StopRow
          /\ PricesSeen'
      BY <1>1, <1>3, TaskEnds
    <2>2. TypeOK' /\ Known'
      BY <1>3, <2>1 DEF IInv, TypeOK, Known
    <2>3. AllSaved' /\ AllFollow'
      BY <1>3 DEF IInv, AllSaved, AllFollow, SameStop, Follows
    <2> QED BY <2>1, <2>2, <2>3 DEF IInv
  <1> QED BY <1>2, <1>3 DEF RestPrice

\* Marking a dict as harvested, or taking the mark back, moves no stop.
LEMMA MarkKeeps ==
  ASSUME IInv, NEW i \in Ids, NEW mark \in BOOLEAN, dict[i] \in StopRow,
         dict' = [dict EXCEPT ![i].harvested = mark]
  PROVE  /\ dict' \in [Ids -> StopRow \cup {NoRow}]
         /\ \A j \in Ids : /\ dict[j] \in StopRow => dict'[j] \in StopRow
                           /\ SameStop(dict[j], dict'[j])
         /\ db' = db => AllSaved'
         /\ AllFollow'
  <1>1. dict \in [Ids -> StopRow \cup {NoRow}]
    BY DEF IInv, TypeOK
  <1>2. /\ dict'[i] \in StopRow /\ SameStop(dict[i], dict'[i])
        /\ dict'[i].initial = dict[i].initial
    BY <1>1 DEF StopRow, SameStop
  <1>3. \A j \in Ids : j # i => dict'[j] = dict[j]
    BY <1>1
  <1>4. dict' \in [Ids -> StopRow \cup {NoRow}]
    BY <1>1, <1>2
  <1>5. \A j \in Ids : SameStop(dict[j], dict'[j])
    BY <1>2, <1>3 DEF SameStop
  <1>6. db' = db => AllSaved'
    BY <1>5 DEF IInv, AllSaved, SameStop
  <1>7. AllFollow'
    <2> SUFFICES ASSUME NEW j \in Ids, dict'[j] \in StopRow
                 PROVE  Follows(dict'[j])
      BY DEF AllFollow, Follows
    <2>1. dict[j] \in StopRow
      BY <1>3
    <2>2. Follows(dict[j])
      BY <2>1 DEF IInv, AllFollow
    <2>3. dict'[j].initial = dict[j].initial
      BY <1>2, <1>3
    <2> QED BY <1>5, <2>2, <2>3 DEF Follows, SameStop
  <1> QED BY <1>2, <1>3, <1>4, <1>5, <1>6, <1>7

\* The scale-out marking its dict keeps the invariant.
LEMMA HarvestKeeps == ASSUME IInv, NEW t \in Tasks, Harvest(t) PROVE IInv'
  <1>1. task[t].id \in Ids /\ dict[task[t].id] \in StopRow
    BY DEF Harvest, IInv, Known
  <1>2. UNCHANGED <<current, db, latest, reached, restarts>>
    BY DEF Harvest
  <1>3. ASSUME NEW part \in {"part", "all"},
               dict' = [dict EXCEPT ![task[t].id].harvested = TRUE],
               task' = [task EXCEPT ![t].pc = part],
               closing' = (closing \/ part = "all")
        PROVE  IInv'
    <2>1. /\ dict' \in [Ids -> StopRow \cup {NoRow}]
          /\ \A j \in Ids : /\ dict[j] \in StopRow => dict'[j] \in StopRow
                            /\ SameStop(dict[j], dict'[j])
          /\ AllSaved' /\ AllFollow'
      BY <1>1, <1>2, <1>3, MarkKeeps
    <2>2. task \in [Tasks -> Job]
      BY DEF IInv, TypeOK
    <2>3. \A u \in Tasks : task'[u].id = task[u].id /\ task'[u].price = task[u].price
                           /\ (u # t => task'[u].pc = task[u].pc)
      BY <1>3, <2>2 DEF Job
    <2>4. task' \in [Tasks -> Job]
      BY <1>3, <2>2 DEF Job
    <2>5. task[t].pc = "target"
      BY DEF Harvest
    <2>6. TypeOK'
      BY <1>2, <1>3, <2>1, <2>4 DEF IInv, TypeOK
    <2>7. Known'
      BY <1>1, <1>2, <2>1, <2>3 DEF IInv, Known, TypeOK
    <2>8. PricesSeen'
      BY <1>1, <2>1, <2>3, <2>5 DEF IInv, Known, PricesSeen, SameStop
    <2> QED BY <2>1, <2>6, <2>7, <2>8 DEF IInv
  <1>4. CASE task' = [task EXCEPT ![t] = Idle] /\ UNCHANGED <<dict, closing>>
    <2>1. /\ task' \in [Tasks -> Job]
          /\ \A u \in Tasks : task'[u].pc # "idle" =>
               task'[u].id \in Ids /\ dict'[task'[u].id] \in StopRow
          /\ PricesSeen'
      BY <1>4, TaskEnds
    <2>2. TypeOK' /\ Known'
      BY <1>2, <1>4, <2>1 DEF IInv, TypeOK, Known
    <2>3. AllSaved' /\ AllFollow'
      BY <1>2, <1>4 DEF IInv, AllSaved, AllFollow, SameStop, Follows
    <2> QED BY <2>1, <2>2, <2>3 DEF IInv
  <1> QED BY <1>3, <1>4 DEF Harvest

\* The end of an exit keeps the invariant.
LEMMA ExitDoneKeeps == ASSUME IInv, NEW t \in Tasks, ExitDone(t) PROVE IInv'
  <1>1. /\ task' = [task EXCEPT ![t] = Idle]
        /\ UNCHANGED <<dict, db, latest, restarts>>
        /\ current' = current \/ current' = None
        /\ closing' = closing \/ closing' = FALSE
        /\ reached' = reached \/ reached' = 0
    BY DEF ExitDone, Gone
  <1>2. 0 \in Level
    BY PriceAssumption DEF Level
  <1>3. /\ task' \in [Tasks -> Job]
        /\ \A u \in Tasks : task'[u].pc # "idle" =>
             task'[u].id \in Ids /\ dict'[task'[u].id] \in StopRow
        /\ PricesSeen'
    BY <1>1, TaskEnds
  <1>4. TypeOK' /\ Known'
    BY <1>1, <1>2, <1>3 DEF IInv, TypeOK, Known
  <1>5. AllSaved' /\ AllFollow'
    BY <1>1 DEF IInv, AllSaved, AllFollow, SameStop, Follows
  <1> QED BY <1>3, <1>4, <1>5 DEF IInv

\* The runner of a scale-out keeps the invariant, on an old price too.
LEMMA HarvestSoldKeeps ==
  ASSUME IInv, NEW t \in Tasks, HarvestSold(t)
  PROVE  /\ IInv'
         /\ \A i \in Ids : dict[i] \in StopRow => dict'[i].active >= dict[i].active
  <1> DEFINE i == task[t].id
             p == Runner(dict[i], task[t].price)
             row == [p EXCEPT !.harvested = TRUE]
  <1>1. /\ dict' = [dict EXCEPT ![i] = p]
        /\ db' = [db EXCEPT ![i] = row] /\ latest' = i
        /\ task' = [task EXCEPT ![t] = Idle]
        /\ UNCHANGED <<current, closing, restarts>>
        /\ Reach(i, p.active)
        /\ task[t].pc = "part"
    BY DEF HarvestSold, Saved
  <1>2. i \in Ids /\ dict[i] \in StopRow /\ Follows(dict[i])
    BY <1>1 DEF IInv, Known, AllFollow
  <1>3. task[t].price \in 1 .. dict[i].high
    BY <1>1 DEF IInv, PricesSeen
  <1>4. /\ p \in StopRow /\ p.active >= dict[i].active /\ p.high = dict[i].high
        /\ Follows(p)
    BY <1>2, <1>3, RunnerFollows
  <1>5. row \in StopRow /\ SameStop(row, p)
    BY <1>4 DEF StopRow, SameStop
  <1>6. /\ dict \in [Ids -> StopRow \cup {NoRow}] /\ db \in [Ids -> StopRow \cup {NoRow}]
    BY DEF IInv, TypeOK
  <1> HIDE DEF p, row
  <1>7. \A j \in Ids : j # i => dict'[j] = dict[j] /\ db'[j] = db[j]
    BY <1>1, <1>6
  <1>8. dict'[i] = p /\ db'[i] = row
    BY <1>1, <1>2, <1>6
  <1>9. /\ task' \in [Tasks -> Job]
        /\ \A u \in Tasks : task'[u].pc # "idle" =>
             task'[u].id \in Ids /\ dict'[task'[u].id] \in StopRow
        /\ PricesSeen'
    <2>1. \A j \in Ids : dict[j] \in StopRow => dict'[j] \in StopRow /\ dict'[j].high = dict[j].high
      BY <1>4, <1>7, <1>8
    <2> QED BY <1>1, <2>1, TaskEnds
  <1>10. reached' \in Level
    BY <1>1, <1>4 DEF IInv, TypeOK, Reach, AtLeast, StopRow
  <1>11. TypeOK'
    <2>1. dict' \in [Ids -> StopRow \cup {NoRow}] /\ db' \in [Ids -> StopRow \cup {NoRow}]
      BY <1>1, <1>4, <1>5, <1>6
    <2> QED BY <1>1, <1>2, <1>9, <1>10, <2>1 DEF IInv, TypeOK
  <1>12. Known'
    BY <1>1, <1>4, <1>5, <1>7, <1>8, <1>9 DEF IInv, Known, TypeOK
  <1>13. AllSaved' /\ AllFollow'
    <2>1. AllSaved'
      BY <1>5, <1>7, <1>8 DEF IInv, AllSaved, SameStop
    <2>2. \A j \in Ids : dict'[j] \in StopRow => Follows(dict'[j])
      BY <1>4, <1>7, <1>8 DEF IInv, AllFollow
    <2> QED BY <2>1, <2>2 DEF AllFollow, Follows
  <1>14. \A j \in Ids : dict[j] \in StopRow => dict'[j].active >= dict[j].active
    <2>1. \A j \in Ids : dict[j] \in StopRow => dict[j].active \in Nat
      BY PriceAssumption DEF StopRow, Level
    <2> QED BY <1>4, <1>7, <1>8, <2>1
  <1> QED BY <1>9, <1>11, <1>12, <1>13, <1>14 DEF IInv

\* The end of a scale-out keeps the invariant.
LEMMA HarvestPersistedKeeps ==
  ASSUME IInv, NEW t \in Tasks, HarvestPersisted(t) PROVE IInv'
  <1> DEFINE i == task[t].id
             row == [dict[i] EXCEPT !.harvested = TRUE]
  <1>1. /\ db' = [db EXCEPT ![i] = row] /\ latest' = i
        /\ task' = [task EXCEPT ![t] = Idle]
        /\ UNCHANGED <<dict, restarts>>
        /\ closing' = FALSE
        /\ current' = current \/ current' = None
        /\ reached' = reached \/ reached' = 0
        /\ task[t].pc \in {"part", "all"}
    BY DEF HarvestPersisted, Saved, Gone
  <1>2. i \in Ids /\ dict[i] \in StopRow
    BY <1>1 DEF IInv, Known
  <1>3. row \in StopRow /\ SameStop(row, dict[i])
    BY <1>2 DEF StopRow, SameStop
  <1> HIDE DEF row
  <1>4. db \in [Ids -> StopRow \cup {NoRow}]
    BY DEF IInv, TypeOK
  <1>5. db'[i] = row /\ \A j \in Ids : j # i => db'[j] = db[j]
    BY <1>1, <1>2, <1>4
  <1>6. 0 \in Level
    BY PriceAssumption DEF Level
  <1>7. /\ task' \in [Tasks -> Job]
        /\ \A u \in Tasks : task'[u].pc # "idle" =>
             task'[u].id \in Ids /\ dict'[task'[u].id] \in StopRow
        /\ PricesSeen'
    BY <1>1, TaskEnds
  <1>8. TypeOK'
    <2>1. db' \in [Ids -> StopRow \cup {NoRow}]
      BY <1>1, <1>3, <1>4
    <2> QED BY <1>1, <1>2, <1>6, <1>7, <2>1 DEF IInv, TypeOK
  <1>9. Known'
    BY <1>1, <1>3, <1>5, <1>7 DEF IInv, Known
  <1>10. AllSaved'
    BY <1>1, <1>3, <1>5 DEF IInv, AllSaved, SameStop
  <1>11. AllFollow'
    BY <1>1 DEF IInv, AllFollow, Follows
  <1> QED BY <1>7, <1>8, <1>9, <1>10, <1>11 DEF IInv

\* A refused scale-out keeps the invariant.
LEMMA HarvestRefusedKeeps ==
  ASSUME IInv, NEW t \in Tasks, HarvestRefused(t) PROVE IInv'
  <1>1. /\ dict' = [dict EXCEPT ![task[t].id].harvested = FALSE]
        /\ task' = [task EXCEPT ![t] = Idle]
        /\ closing' = FALSE
        /\ current' = current \/ current' = None
        /\ reached' = reached \/ reached' = 0
        /\ UNCHANGED <<db, latest, restarts>>
        /\ task[t].pc \in {"part", "all"}
    BY DEF HarvestRefused
  <1>2. task[t].id \in Ids /\ dict[task[t].id] \in StopRow
    BY <1>1 DEF IInv, Known
  <1>3. /\ dict' \in [Ids -> StopRow \cup {NoRow}]
        /\ \A j \in Ids : /\ dict[j] \in StopRow => dict'[j] \in StopRow
                          /\ SameStop(dict[j], dict'[j])
        /\ AllSaved' /\ AllFollow'
    BY <1>1, <1>2, MarkKeeps
  <1>4. /\ task' \in [Tasks -> Job]
        /\ \A u \in Tasks : task'[u].pc # "idle" =>
             task'[u].id \in Ids /\ dict'[task'[u].id] \in StopRow
        /\ PricesSeen'
    BY <1>1, <1>3, TaskEnds DEF SameStop
  <1>5. 0 \in Level
    BY PriceAssumption DEF Level
  <1>6. TypeOK' /\ Known'
    BY <1>1, <1>3, <1>4, <1>5 DEF IInv, TypeOK, Known
  <1> QED BY <1>3, <1>4, <1>6 DEF IInv

\* A restart keeps the invariant.
LEMMA RestartKeeps == ASSUME IInv, Restart PROVE IInv'
  <1>1. /\ restarts' \in 0 .. MaxRestarts
        /\ task' = [t \in Tasks |-> Idle]
    BY RestartAssumption DEF Restart, IInv, TypeOK
  <1>2. task' \in [Tasks -> Job] /\ \A t \in Tasks : task'[t].pc = "idle"
    BY <1>1, PriceAssumption DEF Idle, Job
  <1>3. CASE latest # None /\ UNCHANGED reached
             /\ \E i \in Ids : AddPosition(i, db[latest].entry)
    <2>1. PICK i \in Ids : AddPosition(i, db[latest].entry)
      BY <1>3
    <2>2. db[latest].entry \in 1 .. Top
      BY <1>3 DEF IInv, Known, StopRow
    <2>3. /\ dict' \in [Ids -> StopRow \cup {NoRow}] /\ db' \in [Ids -> StopRow \cup {NoRow}]
          /\ current' = i /\ latest' = i /\ closing' = FALSE
          /\ dict'[i] \in StopRow /\ db'[i] \in StopRow
          /\ AllSaved' /\ AllFollow'
      BY <2>1, <2>2, AddPositionEffect
    <2>4. TypeOK'
      BY <1>1, <1>2, <1>3, <2>3 DEF IInv, TypeOK
    <2>5. Known' /\ PricesSeen'
      BY <1>2, <2>3 DEF Known, PricesSeen
    <2> QED BY <2>3, <2>4, <2>5 DEF IInv
  <1>4. CASE /\ current' = None /\ closing' = FALSE /\ reached' = 0
             /\ UNCHANGED <<dict, db, latest>>
    <2>1. 0 \in Level
      BY PriceAssumption DEF Level
    <2>2. TypeOK'
      BY <1>1, <1>2, <1>4, <2>1 DEF IInv, TypeOK
    <2>3. Known' /\ PricesSeen'
      BY <1>2, <1>4 DEF IInv, Known, PricesSeen
    <2>4. AllSaved' /\ AllFollow'
      BY <1>4 DEF IInv, AllSaved, AllFollow, SameStop, Follows
    <2> QED BY <2>2, <2>3, <2>4 DEF IInv
  <1> QED BY <1>3, <1>4 DEF Restart

\* Doing nothing keeps the invariant.
LEMMA StutterKeeps == ASSUME IInv, UNCHANGED vars PROVE IInv'
  BY DEF vars, IInv, TypeOK, Known, AllSaved, AllFollow, PricesSeen, SameStop, Follows

\* Every step keeps the invariant.
LEMMA NextKeeps == IInv /\ [Next]_vars => IInv'
  <1> SUFFICES ASSUME IInv, [Next]_vars PROVE IInv'
    OBVIOUS
  <1>1. CASE \E i \in Ids : Register(i)
    BY <1>1, RegisterKeeps
  <1>2. CASE Remove
    BY <1>2, RemoveKeeps
  <1>3. CASE \E t \in Ticks : OnTick(t)
    BY <1>3, OnTickKeeps
  <1>4. CASE \E t \in Rests : RestPick(t) \/ RestPrice(t)
    BY <1>4, RestPickKeeps, RestPriceKeeps
  <1>5. CASE \E t \in Tasks : \/ Harvest(t) \/ ExitDone(t) \/ HarvestSold(t)
                              \/ HarvestPersisted(t) \/ HarvestRefused(t)
    BY <1>5, HarvestKeeps, ExitDoneKeeps, HarvestSoldKeeps, HarvestPersistedKeeps,
       HarvestRefusedKeeps
  <1>6. CASE Restart
    BY <1>6, RestartKeeps
  <1>7. CASE UNCHANGED vars
    BY <1>7, StutterKeeps
  <1> QED BY <1>1, <1>2, <1>3, <1>4, <1>5, <1>6, <1>7 DEF Next

-------------------------------------------------------------------------------
(* Theorems *)

\* The inductive invariant holds in every behaviour.
THEOREM Invariance == Spec => []IInv
  <1> QED BY InitIInv, NextKeeps, PTL DEF Spec

\* Every variable keeps its type: no update or scale-out puts a stop outside the
\* levels there are, and no task is left with a position that never was.
THEOREM TypeCorrect == Spec => []TypeOK
  <1>1. IInv => TypeOK
    BY DEF IInv
  <1> QED BY <1>1, Invariance, PTL

\* The stop of a managed position follows its high (_update_trailing and the end
\* of _scaleout_check).
THEOREM FollowsHigh == Spec => []StopFollowsHigh
  <1>1. IInv => StopFollowsHigh
    BY DEF IInv, TypeOK, Known, AllFollow, Follows, StopFollowsHigh
  <1> QED BY <1>1, Invariance, PTL

\* What position_stop_states holds of the managed position is what memory holds.
THEOREM SavedStop == Spec => []StopSaved
  <1>1. IInv => StopSaved
    BY DEF IInv, TypeOK, AllSaved, SameStop, StopSaved
  <1> QED BY <1>1, Invariance, PTL

\* The stop of a position never falls while the position stays registered.
THEOREM NeverLowered == Spec => StopNeverLowered
  <1> DEFINE Step(i) == current = i /\ current' = i => dict'[i].active >= dict[i].active
  <1>1. IInv /\ [Next]_vars => \A i \in Ids : Step(i)
    <2> SUFFICES ASSUME IInv, [Next]_vars, NEW i \in Ids, current = i, current' = i
                 PROVE  dict'[i].active >= dict[i].active
      OBVIOUS
    <2>1. dict[i] \in StopRow /\ dict[i].active \in Nat /\ i # None
      BY NoneAssumption, PriceAssumption DEF IInv, Known, StopRow, Level
    <2>2. CASE dict' = dict
      BY <2>1, <2>2
    <2>3. ASSUME NEW t \in Tasks, NEW j \in Ids, NEW price \in Prices,
                 dict[j] \in StopRow, ProcessPrice(t, j, price)
          PROVE  dict'[i].active >= dict[i].active
      BY <2>1, <2>3, ProcessPriceEffect
    <2>4. ASSUME NEW t \in Tasks, NEW mark \in BOOLEAN, task[t].pc # "idle",
                 dict' = [dict EXCEPT ![task[t].id].harvested = mark]
          PROVE  dict'[i].active >= dict[i].active
      <3>1. SameStop(dict[i], dict'[i])
        BY <2>4, MarkKeeps DEF IInv, Known
      <3> QED BY <2>1, <3>1 DEF SameStop
    <2>5. ASSUME NEW j \in Ids, NEW e \in 1 .. Top, AddPosition(j, e)
          PROVE  FALSE
      BY <2>1, <2>5, AddPositionEffect
    <2>6. CASE \E j \in Ids : Register(j)
      BY <2>5, <2>6, PriceAssumption DEF Register
    <2>7. CASE Remove
      BY <2>2, <2>7 DEF Remove
    <2>8. CASE \E t \in Ticks : OnTick(t)
      BY <2>1, <2>3, <2>8 DEF OnTick, Tasks
    <2>9. CASE \E t \in Rests : RestPick(t) \/ RestPrice(t)
      <3>1. PICK t \in Rests : RestPick(t) \/ RestPrice(t)
        BY <2>9
      <3>2. CASE RestPick(t)
        BY <2>2, <3>2 DEF RestPick
      <3>3. CASE RestPrice(t)
        <4>1. t \in Tasks /\ task[t].id \in Ids /\ dict[task[t].id] \in StopRow
          BY <3>3 DEF RestPrice, IInv, Known, Tasks
        <4> QED BY <2>2, <2>3, <3>3, <4>1 DEF RestPrice
      <3> QED BY <3>1, <3>2, <3>3
    <2>10. CASE \E t \in Tasks : Harvest(t) \/ HarvestRefused(t)
      <3>1. PICK t \in Tasks : Harvest(t) \/ HarvestRefused(t)
        BY <2>10
      <3>2. CASE Harvest(t)
        BY <2>2, <2>4, <3>2 DEF Harvest
      <3>3. CASE HarvestRefused(t)
        BY <2>4, <3>3 DEF HarvestRefused
      <3> QED BY <3>1, <3>2, <3>3
    <2>11. CASE \E t \in Tasks : ExitDone(t) \/ HarvestPersisted(t)
      BY <2>2, <2>11 DEF ExitDone, HarvestPersisted
    <2>12. CASE \E t \in Tasks : HarvestSold(t)
      BY <2>1, <2>12, HarvestSoldKeeps
    <2>13. CASE Restart
      <3>1. CASE current' = None
        BY <2>1, <3>1
      <3>2. CASE latest # None /\ \E j \in Ids : AddPosition(j, db[latest].entry)
        <4>1. db[latest].entry \in 1 .. Top
          BY <3>2 DEF IInv, Known, StopRow
        <4> QED BY <2>5, <3>2, <4>1
      <3> QED BY <2>13, <3>1, <3>2 DEF Restart
    <2>14. CASE UNCHANGED vars
      BY <2>2, <2>14 DEF vars
    <2> QED BY <2>6, <2>7, <2>8, <2>9, <2>10, <2>11, <2>12, <2>13, <2>14 DEF Next
  <1>2. IInv /\ [Next]_vars => [\A i \in Ids : Step(i)]_vars
    BY <1>1
  <1> QED BY <1>2, Invariance, PTL DEF Spec, StopNeverLowered

===============================================================================

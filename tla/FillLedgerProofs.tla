--------------------------- MODULE FillLedgerProofs ---------------------------
(***************************************************************************)
(* For any rows, pollers, quantities, kinds of account and settings: no    *)
(* row records more than it ordered, the fills of a paper account never    *)
(* exceed what KIS executed, those of a real account's row its own order's *)
(* executions (while only pollers write) and all of them in the end, and   *)
(* one poller alone implements OrderLedger.                                *)
(* None of it is inductive: that a partial execution fits the order rests  *)
(* on the list a poller read before its await still describing the order,  *)
(* and that nothing is invented on the total it read still being one KIS   *)
(* has executed, less what all other rows have recorded.                   *)
(***************************************************************************)
EXTENDS FillLedger, FiniteSetTheorems, TLAPS

Foreign(r) == row[r].kis \notin {r, NoOrder}
Known(r)   == row[r].status # "none"

TypeInv ==
  /\ row \in [Rows -> Row]
  /\ fills \in [Rows -> Nat]
  /\ kis \in [Rows -> KisOrder]
  /\ poller \in [Pollers -> Poll]
  /\ eod \in Eod

\* No order is executed beyond its quantity.
OrderInv == \A k \in Rows :
  /\ kis[k].done <= kis[k].qty
  /\ kis[k].live => kis[k].done < kis[k].qty

RowOk(r) ==
  /\ ~Known(r) => row[r] = NoRow
  /\ Known(r) => row[r].qty >= 1
  /\ row[r].status \in Polled => row[r].kis # NoOrder
  /\ Known(r) /\ kis[r] # Unsent => kis[r].qty = row[r].qty
  /\ Foreign(r) => fills[r] >= 1 /\ r \notin eod.todo
  /\ ~Foreign(r) => fills[r] <= row[r].qty
RowInv == \A r \in Rows : RowOk(r)

\* A list read some time ago: the orders in it exist, with the quantity they had.
Snapshot(list) == \A k \in Rows :
  list[k] # Unsent => /\ kis[k] # Unsent
                      /\ list[k].qty = kis[k].qty
                      /\ list[k].done \in 1 .. list[k].qty

\* What a poll holds of row r across its awaits. Foreign says that a number that
\* was not the row's own when it was loaded is not its own now.
Loaded(p, r) ==
  /\ Known(r)
  /\ row[r].kis # NoOrder
  /\ poller[p].seen[r].kis \in Rows
  /\ poller[p].seen[r].kis # r => Foreign(r)

PollOk(p) ==
  /\ Snapshot(poller[p].list)
  /\ \A r \in poller[p].todo : Loaded(p, r)
  /\ poller[p].pc = "total" => poller[p].cur \in Rows /\ Loaded(p, poller[p].cur)
  /\ poller[p].pc = "reorder" => poller[p].cur \in Rows /\ poller[p].rmn >= 1
PollInv == \A p \in Pollers : PollOk(p)

EodInv == Snapshot(eod.list) /\ \A r \in eod.todo : Known(r)

IInv == TypeInv /\ OrderInv /\ RowInv /\ PollInv /\ EodInv

-------------------------------------------------------------------------------
(* What every step does to rows and orders *)

RowsForward == \A r \in Rows : Known(r) =>
  /\ Known(r)'
  /\ row'[r].qty = row[r].qty
  /\ row[r].kis # NoOrder => row'[r].kis # NoOrder
  /\ Foreign(r) => Foreign(r)'

OrdersForward == \A k \in Rows : kis[k] # Unsent => kis'[k] # Unsent /\ kis'[k].qty = kis[k].qty

\* A poller that does nothing keeps what it holds.
LEMMA PollKeeps ==
  ASSUME IInv, RowsForward, OrdersForward, NEW p \in Pollers, poller'[p] = poller[p]
  PROVE  PollOk(p)'
  BY DEF IInv, PollInv, PollOk, Snapshot, Loaded, RowsForward, OrdersForward, TypeInv, Poll

\* So does the reconciliation.
LEMMA EodKeeps ==
  ASSUME IInv, RowsForward, OrdersForward, UNCHANGED eod
  PROVE  EodInv'
  BY DEF IInv, EodInv, Snapshot, RowsForward, OrdersForward, TypeInv, Eod

\* A poller that moves leaves the others what they know of rows and orders.
LEMMA OthersKeep ==
  ASSUME IInv, RowsForward, OrdersForward, NEW p \in Pollers, NEW x \in Poll,
         poller' = [poller EXCEPT ![p] = x], PollOk(p)'
  PROVE  poller' \in [Pollers -> Poll] /\ PollInv'
<1>1. \A q \in Pollers : q # p => poller'[q] = poller[q]
  BY DEF IInv, TypeInv
<1>2. \A q \in Pollers : PollOk(q)'
  BY <1>1, PollKeeps
<1>3. poller' \in [Pollers -> Poll]
  BY DEF IInv, TypeInv
<1> QED BY <1>2, <1>3 DEF PollInv

\* A poll that is done with one of its rows keeps what it holds of the others.
LEMMA DoneKeeps ==
  ASSUME IInv, RowsForward, OrdersForward, NEW p \in Pollers, NEW r \in Rows,
         poller' = [poller EXCEPT ![p] = Done(p, r)]
  PROVE  poller' \in [Pollers -> Poll] /\ PollInv'
<1>1. /\ Done(p, r) \in Poll
      /\ Done(p, r).list = poller[p].list
      /\ Done(p, r).seen = poller[p].seen
      /\ Done(p, r).todo \subseteq poller[p].todo
      /\ Done(p, r).pc = "match"
  <2>1. poller[p] \in Poll
    BY DEF IInv, TypeInv
  <2>2. -1 \in -1 .. Holding
    BY QtyAssumption
  <2> QED BY <2>1, <2>2 DEF Done, Poll
<1>2. poller'[p] = Done(p, r)
  BY DEF IInv, TypeInv
<1>3. PollOk(p)'
  <2>1. Snapshot(poller[p].list)'
    BY <1>1, <1>2 DEF IInv, PollInv, PollOk, Snapshot, OrdersForward
  <2>1a. Snapshot(poller[p].list)' /\ (poller[p].pc)' = "match"
    BY <2>1, <1>1, <1>2
  <2>2. \A x \in Done(p, r).todo : Loaded(p, x)'
    BY <1>1, <1>2 DEF IInv, PollInv, PollOk, Loaded, RowsForward, TypeInv, Poll
  <2> QED BY <2>1a, <2>2, <1>1, <1>2 DEF PollOk
<1> QED BY <1>1, <1>3, OthersKeep

-------------------------------------------------------------------------------
(* Recording *)

\* A full execution of n shares, recorded under the row's own number or, by the
\* reconciliation that ends its work on the row with it, under another one.
LEMMA FilledEffect ==
  ASSUME IInv, NEW r \in Rows, Known(r), NEW n \in Nat, NEW k \in Rows \cup {NoOrder},
         MarkedFilled(r, n, k), UNCHANGED kis,
         eod' \in Eod, eod'.todo \subseteq eod.todo,
         \/ k = row[r].kis
         \/ k \in Rows /\ n >= 1 /\ r \in eod.todo \ eod'.todo
  PROVE  row' \in [Rows -> Row] /\ fills' \in [Rows -> Nat] /\ RowInv' /\ RowsForward
<1>0. /\ row \in [Rows -> Row] /\ fills \in [Rows -> Nat] /\ kis \in [Rows -> KisOrder]
      /\ MaxQty \in Nat
      /\ row[r].qty >= 1
      /\ NoOrder \notin Rows
  BY QtyAssumption, RowsAssumption DEF IInv, TypeInv, RowInv, RowOk
<1>1. /\ row' = [row EXCEPT ![r].status = "filled", ![r].kis = k]
      /\ fills' \in [Rows -> Nat]
      /\ \A x \in Rows : x # r => fills'[x] = fills[x]
      /\ fills'[r] >= fills[r]
      /\ fills[r] <= row[r].qty => fills'[r] <= row[r].qty
      /\ n >= 1 => fills'[r] >= 1
  BY <1>0 DEF MarkedFilled, AtMost, Row
<1>2. /\ row' \in [Rows -> Row]
      /\ \A x \in Rows : x # r => row'[x] = row[x]
      /\ row'[r].status = "filled" /\ row'[r].kis = k /\ row'[r].qty = row[r].qty
  BY <1>0, <1>1 DEF Row, Statuses
<1>3. RowsForward
  BY <1>0, <1>2 DEF RowsForward, Known, Foreign, IInv, RowInv, RowOk
<1>4. ASSUME NEW x \in Rows, x # r PROVE RowOk(x)'
  BY <1>1, <1>2, <1>4 DEF IInv, RowInv, RowOk, Known, Foreign
<1>5. RowOk(r)'
  <2>1. Known(r)' /\ row'[r].qty >= 1 /\ (row[r].status \in Polled)' = FALSE
    BY <1>0, <1>2 DEF Known, Polled
  <2>2. (kis[r] # Unsent => kis[r].qty = row[r].qty)'
    BY <1>2 DEF IInv, RowInv, RowOk
  <2>3. (Foreign(r) => fills[r] >= 1 /\ r \notin eod.todo)'
    BY <1>0, <1>1, <1>2 DEF IInv, RowInv, RowOk, Foreign
  <2>4. (~Foreign(r) => fills[r] <= row[r].qty)'
    <3>1. ~Foreign(r)' => ~Foreign(r)
      BY <1>2 DEF Foreign, IInv, RowInv, RowOk
    <3> QED BY <3>1, <1>1, <1>2 DEF IInv, RowInv, RowOk
  <2> QED BY <2>1, <2>2, <2>3, <2>4 DEF RowOk, Known
<1> QED BY <1>1, <1>2, <1>3, <1>4, <1>5 DEF RowInv

\* A partial execution of n shares, not more than ordered unless the row has
\* another order's number.
LEMMA PartialEffect ==
  ASSUME IInv, NEW r \in Rows, Known(r), row[r].kis # NoOrder, NEW n \in Nat,
         MarkedPartial(r, n), UNCHANGED <<kis, eod>>,
         Foreign(r) \/ n <= row[r].qty
  PROVE  row' \in [Rows -> Row] /\ fills' \in [Rows -> Nat] /\ RowInv' /\ RowsForward
<1>0. /\ row \in [Rows -> Row] /\ fills \in [Rows -> Nat] /\ kis \in [Rows -> KisOrder]
      /\ MaxQty \in Nat
      /\ row[r].qty >= 1
  BY QtyAssumption DEF IInv, TypeInv, RowInv, RowOk
<1>1. /\ row' = [row EXCEPT ![r].status = "partial"]
      /\ fills' \in [Rows -> Nat]
      /\ \A x \in Rows : x # r => fills'[x] = fills[x]
      /\ fills'[r] >= fills[r]
      /\ fills[r] <= row[r].qty /\ n <= row[r].qty => fills'[r] <= row[r].qty
  BY <1>0 DEF MarkedPartial, Row
<1>2. /\ row' \in [Rows -> Row]
      /\ \A x \in Rows : x # r => row'[x] = row[x]
      /\ row'[r].status = "partial" /\ row'[r].kis = row[r].kis /\ row'[r].qty = row[r].qty
  BY <1>0, <1>1 DEF Row, Statuses
<1>3. RowsForward
  BY <1>0, <1>2 DEF RowsForward, Known, Foreign
<1>4. ASSUME NEW x \in Rows, x # r PROVE RowOk(x)'
  BY <1>1, <1>2, <1>4 DEF IInv, RowInv, RowOk, Known, Foreign
<1>5. RowOk(r)'
  BY <1>0, <1>1, <1>2 DEF IInv, RowInv, RowOk, Known, Foreign
<1> QED BY <1>1, <1>2, <1>3, <1>4, <1>5 DEF RowInv

\* A new row for an order of q shares.
LEMMA SubmittedEffect ==
  ASSUME IInv, NEW r \in Rows, NEW q \in 1 .. MaxQty, Submitted(r, q), UNCHANGED <<fills, eod>>
  PROVE  /\ row' \in [Rows -> Row] /\ kis' \in [Rows -> KisOrder]
         /\ OrderInv' /\ RowInv' /\ RowsForward /\ OrdersForward
<1>0. /\ row \in [Rows -> Row] /\ fills \in [Rows -> Nat] /\ kis \in [Rows -> KisOrder]
      /\ MaxQty \in Nat /\ q \in 0 .. MaxQty /\ 0 \in 0 .. MaxQty
      /\ NoOrder \notin Rows
      /\ row[r] = NoRow /\ kis[r] = Unsent
  BY QtyAssumption, RowsAssumption DEF IInv, TypeInv, Submitted
<1>1. /\ row' \in [Rows -> Row]
      /\ \A x \in Rows : x # r => row'[x] = row[x]
      /\ row'[r].qty = q
      /\ \/ row'[r].status = "submitted" /\ row'[r].kis = r
         \/ row'[r].status = "uncertain" /\ row'[r].kis = NoOrder
  BY <1>0 DEF Submitted, Row, Statuses
<1>2. \/ kis' = kis
      \/ kis' = [kis EXCEPT ![r] = [qty |-> q, done |-> 0, live |-> TRUE]]
  BY DEF Submitted, Accept
<1>3. /\ kis' \in [Rows -> KisOrder]
      /\ \A x \in Rows : x # r => kis'[x] = kis[x]
      /\ kis'[r] = Unsent \/ kis'[r] = [qty |-> q, done |-> 0, live |-> TRUE]
  <2>1. [qty |-> q, done |-> 0, live |-> TRUE] \in KisOrder
    BY <1>0 DEF KisOrder
  <2>2. CASE kis' = kis
    BY <1>0, <2>2
  <2>3. CASE kis' = [kis EXCEPT ![r] = [qty |-> q, done |-> 0, live |-> TRUE]]
    BY <1>0, <2>1, <2>3
  <2> QED BY <1>2, <2>2, <2>3
<1>4. OrderInv' /\ OrdersForward
  BY <1>0, <1>3 DEF OrderInv, OrdersForward, IInv, Unsent, KisOrder
<1>5. RowsForward
  BY <1>0, <1>1 DEF RowsForward, Known, Foreign, NoRow
<1>6. ASSUME NEW x \in Rows, x # r PROVE RowOk(x)'
  BY <1>1, <1>3, <1>6 DEF IInv, RowInv, RowOk, Known, Foreign
<1>7. RowOk(r)'
  <2>1. fills[r] <= 0
    BY <1>0 DEF IInv, RowInv, RowOk, Foreign, NoRow
  <2> QED BY <1>0, <1>1, <1>3, <2>1 DEF RowOk, Known, Foreign, Polled
<1> QED BY <1>1, <1>3, <1>4, <1>5, <1>6, <1>7 DEF RowInv

-------------------------------------------------------------------------------
(* The steps *)

\* The list KIS answers is a snapshot of its orders.
LEMMA ListedSnapshot ==
  ASSUME IInv
  PROVE  Listed \in [Rows -> KisOrder] /\ Snapshot(Listed)
<1>1. Unsent \in KisOrder
  BY QtyAssumption DEF Unsent, KisOrder
<1>2. Listed \in [Rows -> KisOrder]
  BY <1>1 DEF Listed, IInv, TypeInv
<1>3. ASSUME NEW k \in Rows, Listed[k] # Unsent
      PROVE  /\ kis[k] # Unsent
             /\ Listed[k].qty = kis[k].qty
             /\ Listed[k].done \in 1 .. Listed[k].qty
  <2>1. Listed[k] = kis[k] /\ kis[k].done > 0
    BY <1>3 DEF Listed
  <2> QED BY <2>1, <1>3 DEF IInv, TypeInv, OrderInv, KisOrder
<1> QED BY <1>2, <1>3 DEF Snapshot

\* NoList is one too.
LEMMA NoListSnapshot == NoList \in [Rows -> KisOrder] /\ Snapshot(NoList) /\ Snapshot(NoList)'
<1>1. Unsent \in KisOrder
  BY QtyAssumption DEF Unsent, KisOrder
<1> QED BY <1>1 DEF NoList, Snapshot

\* Nothing moves when rows and orders stay.
LEMMA Still ==
  ASSUME IInv, UNCHANGED <<row, fills, kis>>, eod'.todo \subseteq eod.todo
  PROVE  RowsForward /\ OrdersForward /\ OrderInv' /\ RowInv'
  BY DEF IInv, RowsForward, OrdersForward, OrderInv, RowInv, RowOk, Known, Foreign

\* A step that changes one poller only.
LEMMA PollOnly ==
  ASSUME IInv, UNCHANGED <<row, fills, kis, eod>>, NEW p \in Pollers, NEW x \in Poll,
         poller' = [poller EXCEPT ![p] = x], PollOk(p)'
  PROVE  IInv'
<1>1. RowsForward /\ OrdersForward /\ OrderInv' /\ RowInv'
  BY Still
<1>2. poller' \in [Pollers -> Poll] /\ PollInv'
  BY <1>1, OthersKeep
<1>3. EodInv'
  BY <1>1, EodKeeps
<1> QED BY <1>1, <1>2, <1>3 DEF IInv, TypeInv

\* A poller that goes idle holds nothing stale.
LEMMA IdlePollOk ==
  ASSUME IInv, NEW p \in Pollers, poller'[p] = IdlePoll
  PROVE  IdlePoll \in Poll /\ PollOk(p)'
<1>1. -1 \in -1 .. Holding /\ 0 \in 0 .. MaxQty /\ NoRow \in Row
  BY QtyAssumption DEF NoRow, Row, Statuses
<1>2. IdlePoll \in Poll
  BY <1>1, NoListSnapshot DEF IdlePoll, Poll
<1>3. Snapshot(poller[p].list)'
  BY NoListSnapshot DEF IdlePoll, Snapshot
<1> QED BY <1>2, <1>3 DEF IdlePoll, PollOk

\* Loading the open orders keeps the invariant.
LEMMA PollStartKeeps ==
  ASSUME IInv, NEW p \in Pollers, PollStart(p)
  PROVE  IInv'
<1> DEFINE x == [IdlePoll EXCEPT !.pc = "list", !.seen = row,
                                 !.todo = {r \in Rows : row[r].status \in Polled}]
<1>1. poller' = [poller EXCEPT ![p] = x] /\ UNCHANGED <<row, fills, kis, eod>>
  BY DEF PollStart, ledger, broker
<1>2. x \in Poll /\ poller'[p] = x
  <2>1. -1 \in -1 .. Holding /\ 0 \in 0 .. MaxQty
    BY QtyAssumption
  <2> QED BY <1>1, <2>1, NoListSnapshot DEF IdlePoll, Poll, IInv, TypeInv
<1>3. PollOk(p)'
  <2>1. Snapshot(poller[p].list)'
    BY <1>2, NoListSnapshot DEF IdlePoll, Snapshot
  <2>2. \A r \in x.todo : Loaded(p, r)'
    BY <1>1, <1>2 DEF IdlePoll, Loaded, Known, Foreign, IInv, TypeInv, RowInv, RowOk,
                      Row, Polled
  <2> QED BY <1>2, <2>1, <2>2 DEF PollOk, IdlePoll
<1> QED
  <2> HIDE DEF x
  <2> QED BY <1>1, <1>2, <1>3, PollOnly

\* The answer of the order list keeps the invariant.
LEMMA PollListedKeeps ==
  ASSUME IInv, NEW p \in Pollers, PollListed(p)
  PROVE  IInv'
<1> DEFINE x == [poller[p] EXCEPT !.pc = "match", !.list = Listed]
<1>1. /\ poller' = [poller EXCEPT ![p] = x] /\ UNCHANGED <<row, fills, kis, eod>>
  BY DEF PollListed, ledger, broker, IInv, TypeInv, Poll
<1>2. x \in Poll /\ poller'[p] = x
  BY <1>1, ListedSnapshot DEF Poll, IInv, TypeInv
<1>3. PollOk(p)'
  <2>1. Snapshot(poller[p].list)'
    <3>1. poller'[p].list = Listed
      BY <1>2 DEF IInv, TypeInv, Poll
    <3> QED BY <3>1, <1>1, ListedSnapshot DEF Snapshot
  <2>2. \A r \in x.todo : Loaded(p, r)'
    BY <1>1, <1>2 DEF Loaded, Known, Foreign, IInv, TypeInv, PollInv, PollOk, Poll
  <2>3. x.pc = "match"
    BY DEF IInv, TypeInv, Poll
  <2> QED BY <1>2, <2>1, <2>2, <2>3 DEF PollOk
<1> QED
  <2> HIDE DEF x
  <2> QED BY <1>1, <1>2, <1>3, PollOnly

\* A failed list and the end of a poll keep the invariant.
LEMMA PollFailsKeeps ==
  ASSUME IInv, NEW p \in Pollers, PollFails(p) \/ PollEnd(p)
  PROVE  IInv'
<1>1. poller' = [poller EXCEPT ![p] = IdlePoll] /\ UNCHANGED <<row, fills, kis, eod>>
  BY DEF PollFails, PollEnd, ledger, broker
<1>2. poller'[p] = IdlePoll
  BY <1>1 DEF IInv, TypeInv
<1>3. IdlePoll \in Poll /\ PollOk(p)'
  BY <1>2, IdlePollOk
<1> QED BY <1>1, <1>3, PollOnly

\* A row skipped, not executed or not answered.
LEMMA LetGo ==
  ASSUME IInv, NEW p \in Pollers, NEW r \in Rows, UNCHANGED <<row, fills, kis, eod>>,
         poller' = [poller EXCEPT ![p] = Done(p, r)]
  PROVE  IInv'
<1>1. RowsForward /\ OrdersForward /\ OrderInv' /\ RowInv'
  BY Still
<1>2. poller' \in [Pollers -> Poll] /\ PollInv'
  BY <1>1, DoneKeeps
<1>3. EodInv'
  BY <1>1, EodKeeps
<1> QED BY <1>1, <1>2, <1>3 DEF IInv, TypeInv

\* Recording a full execution keeps the invariant.
LEMMA CompletesKeeps ==
  ASSUME IInv, NEW p \in Pollers, NEW r \in Rows, NEW n \in Nat, Loaded(p, r),
         Completes(p, r, n, row[r].kis), UNCHANGED <<kis, eod>>
  PROVE  IInv'
<1>1. MarkedFilled(r, n, row[r].kis) /\ poller' = [poller EXCEPT ![p] = Done(p, r)]
  BY DEF Completes
<1>2. row[r].kis \in Rows \cup {NoOrder} /\ Known(r) /\ eod \in Eod
  BY DEF IInv, TypeInv, Row, Loaded
<1>3. row' \in [Rows -> Row] /\ fills' \in [Rows -> Nat] /\ RowInv' /\ RowsForward
  BY <1>1, <1>2, FilledEffect
<1>4. OrdersForward /\ OrderInv'
  BY DEF OrdersForward, OrderInv, IInv
<1>5. poller' \in [Pollers -> Poll] /\ PollInv'
  BY <1>1, <1>3, <1>4, DoneKeeps
<1>6. EodInv'
  BY <1>3, <1>4, EodKeeps
<1> QED BY <1>3, <1>4, <1>5, <1>6 DEF IInv, TypeInv

\* Recording a partial execution keeps the invariant, followed by a reorder or not.
LEMMA StallsKeeps ==
  ASSUME IInv, NEW p \in Pollers, NEW r \in Rows, NEW n \in Nat, NEW rmn \in 0 .. MaxQty,
         Loaded(p, r), Foreign(r) \/ n <= row[r].qty,
         Stalls(p, r, n, rmn), UNCHANGED <<kis, eod>>
  PROVE  IInv'
<1> DEFINE x == [Done(p, r) EXCEPT !.pc = "reorder", !.cur = r, !.rmn = rmn]
<1>1. MarkedPartial(r, n)
  BY DEF Stalls
<1>2. \/ poller' = [poller EXCEPT ![p] = Done(p, r)]
      \/ rmn # 0 /\ poller' = [poller EXCEPT ![p] = x]
  BY DEF Stalls
<1>3. row' \in [Rows -> Row] /\ fills' \in [Rows -> Nat] /\ RowInv' /\ RowsForward
  BY <1>1, PartialEffect DEF Loaded
<1>4. OrdersForward /\ OrderInv'
  BY DEF OrdersForward, OrderInv, IInv
<1>5. poller' \in [Pollers -> Poll] /\ PollInv'
  <2>1. CASE poller' = [poller EXCEPT ![p] = Done(p, r)]
    BY <2>1, <1>3, <1>4, DoneKeeps
  <2>2. CASE rmn # 0 /\ poller' = [poller EXCEPT ![p] = x]
    <3>1. poller[p] \in Poll /\ -1 \in -1 .. Holding
      BY QtyAssumption DEF IInv, TypeInv
    <3>2. /\ x \in Poll /\ x.list = poller[p].list /\ x.seen = poller[p].seen
          /\ x.todo \subseteq poller[p].todo
          /\ x.pc = "reorder" /\ x.cur = r /\ x.rmn = rmn
      BY <3>1 DEF Done, Poll
    <3>3. poller'[p] = x
      BY <2>2 DEF IInv, TypeInv
    <3>4. PollOk(p)'
      <4>1. Snapshot(poller[p].list)'
        BY <3>2, <3>3, <1>4 DEF IInv, PollInv, PollOk, Snapshot, OrdersForward
      <4>2. \A y \in x.todo : Loaded(p, y)'
        BY <3>2, <3>3, <1>3 DEF IInv, PollInv, PollOk, Loaded, RowsForward, TypeInv, Poll
      <4>3. rmn >= 1
        BY <2>2, QtyAssumption
      <4> QED BY <3>2, <3>3, <4>1, <4>2, <4>3 DEF PollOk
    <3> HIDE DEF x
    <3> QED BY <2>2, <3>2, <3>4, <1>3, <1>4, OthersKeep
  <2> QED BY <1>2, <2>1, <2>2
<1>6. EodInv'
  BY <1>3, <1>4, EodKeeps
<1> QED BY <1>3, <1>4, <1>5, <1>6 DEF IInv, TypeInv

\* Stage 1 of poll_once keeps the invariant for one order.
LEMMA PollMatchKeeps ==
  ASSUME IInv, NEW p \in Pollers, NEW r \in Rows, PollMatch(p, r)
  PROVE  IInv'
<1> DEFINE k == poller[p].seen[r].kis
<1> DEFINE order == ListedOrder(p, r)
<1>1. r \in poller[p].todo /\ order # Unsent /\ UNCHANGED <<kis, eod>>
  BY DEF PollMatch, Unmatched, broker
<1>2. Loaded(p, r)
  BY <1>1 DEF IInv, PollInv, PollOk
<1>3. k \in Rows /\ order = poller[p].list[k]
  BY <1>2 DEF Loaded, ListedOrder
<1>4. /\ kis[k] # Unsent /\ order.qty = kis[k].qty
      /\ order.done \in 1 .. order.qty
      /\ order \in KisOrder /\ order.qty \in 0 .. MaxQty
  <2>1. poller[p].list \in [Rows -> KisOrder] /\ Snapshot(poller[p].list)
    BY DEF IInv, PollInv, PollOk, TypeInv, Poll
  <2>2. order \in KisOrder /\ order.qty \in 0 .. MaxQty
    BY <1>3, <2>1 DEF KisOrder
  <2>3. /\ kis[k] # Unsent /\ order.qty = kis[k].qty
        /\ order.done \in 1 .. order.qty
    <3> HIDE DEF k
    <3> QED BY <1>1, <1>3, <2>1 DEF Snapshot
  <2> QED BY <2>2, <2>3
<1>5. Foreign(r) \/ order.done <= row[r].qty
  <2>1. CASE k = r
    BY <2>1, <1>2, <1>4, QtyAssumption DEF Loaded, IInv, RowInv, RowOk
  <2>2. CASE k # r
    BY <2>2, <1>2 DEF Loaded
  <2> QED BY <2>1, <2>2
<1>6. order.done \in Nat /\ order.qty - order.done \in 0 .. MaxQty
  BY <1>4, QtyAssumption
<1>7. CASE UNCHANGED ledger /\ poller' = [poller EXCEPT ![p] = Done(p, r)]
  BY <1>1, <1>7, LetGo DEF ledger
<1>8. CASE Completes(p, r, order.done, row[r].kis)
  BY <1>1, <1>2, <1>6, <1>8, CompletesKeeps
<1>9. CASE Stalls(p, r, order.done, order.qty - order.done)
  <2> HIDE DEF order
  <2> QED BY <1>1, <1>2, <1>5, <1>6, <1>9, StallsKeeps
<1> QED BY <1>7, <1>8, <1>9 DEF PollMatch

\* Stage 2 asking for the total of a symbol keeps the invariant.
LEMMA PollTotalKeeps ==
  ASSUME IInv, NEW p \in Pollers, NEW r \in Rows, PollTotal(p, r)
  PROVE  IInv'
<1> DEFINE x == [poller[p] EXCEPT !.pc = "total", !.cur = r]
<1>1. UNCHANGED <<row, fills, kis, eod>>
  BY DEF PollTotal, ledger, broker
<1>2. CASE poller' = [poller EXCEPT ![p] = Done(p, r)]
  BY <1>1, <1>2, LetGo
<1>3. CASE poller' = [poller EXCEPT ![p] = x]
  <2>1. /\ x \in Poll /\ x.list = poller[p].list /\ x.seen = poller[p].seen
        /\ x.todo = poller[p].todo /\ x.pc = "total" /\ x.cur = r
    BY DEF IInv, TypeInv, Poll
  <2>2. poller'[p] = x /\ r \in x.todo
    BY <1>3, <2>1 DEF IInv, TypeInv, PollTotal
  <2>3. Snapshot(poller[p].list)'
    BY <2>1, <2>2, <1>1 DEF IInv, PollInv, PollOk, Snapshot
  <2>4. \A y \in x.todo : Loaded(p, y)'
    BY <2>1, <2>2, <1>1 DEF IInv, PollInv, PollOk, Loaded, Known, Foreign
  <2>5. PollOk(p)'
    BY <2>1, <2>2, <2>3, <2>4 DEF PollOk
  <2> HIDE DEF x
  <2> QED BY <1>1, <1>3, <2>1, <2>5, PollOnly
<1>4. poller' = [poller EXCEPT ![p] = Done(p, r)] \/ poller' = [poller EXCEPT ![p] = x]
  BY DEF PollTotal
<1> QED BY <1>2, <1>3, <1>4

\* The answer of that query keeps the invariant.
LEMMA TotalAnswerKeeps ==
  ASSUME IInv, NEW p \in Pollers, TotalAnswer(p)
  PROVE  IInv'
<1>1. PICK n \in 0 .. Holding : poller' = [poller EXCEPT ![p].total = n]
  BY DEF TotalAnswer
<1> DEFINE x == [poller[p] EXCEPT !.total = n]
<1>2. UNCHANGED <<row, fills, kis, eod>> /\ poller' = [poller EXCEPT ![p] = x]
  BY <1>1 DEF TotalAnswer, ledger, broker, IInv, TypeInv
<1>3. /\ x \in Poll /\ x.list = poller[p].list /\ x.seen = poller[p].seen
      /\ x.todo = poller[p].todo /\ x.pc = poller[p].pc /\ x.cur = poller[p].cur
      /\ x.rmn = poller[p].rmn
  <2>1. poller[p] \in Poll /\ n \in -1 .. Holding
    BY <1>1, QtyAssumption DEF IInv, TypeInv
  <2> QED BY <2>1 DEF Poll
<1>4. poller'[p] = x
  BY <1>2 DEF IInv, TypeInv
<1>5. PollOk(p)'
  BY <1>2, <1>3, <1>4 DEF IInv, PollInv, PollOk, Loaded, Known, Foreign, Snapshot
<1> QED
  <2> HIDE DEF x
  <2> QED BY <1>2, <1>3, <1>5, PollOnly

\* Applying the total, several awaits old, keeps the invariant.
LEMMA TotalApplyKeeps ==
  ASSUME IInv, NEW p \in Pollers, TotalApply(p)
  PROVE  IInv'
<1> DEFINE r == poller[p].cur
<1> DEFINE n == Isolated(r, poller[p].total)
<1>1. r \in Rows /\ Loaded(p, r) /\ UNCHANGED <<kis, eod>>
  BY DEF TotalApply, IInv, PollInv, PollOk, broker
<1>2. row[r].qty \in Nat /\ row[r].qty <= MaxQty
  BY <1>1, QtyAssumption DEF IInv, TypeInv, Row
<1>3. CASE UNCHANGED ledger /\ poller' = [poller EXCEPT ![p] = Done(p, r)]
  BY <1>1, <1>3, LetGo DEF ledger
<1>4. CASE n = row[r].qty /\ Completes(p, r, n, row[r].kis)
  <2> HIDE DEF n
  <2> QED BY <1>1, <1>2, <1>4, CompletesKeeps
<1>5. CASE n \in 1 .. (row[r].qty - 1) /\ Stalls(p, r, n, row[r].qty - n)
  <2> HIDE DEF n
  <2>1. n \in Nat /\ row[r].qty - n \in 0 .. MaxQty /\ n <= row[r].qty
    BY <1>2, <1>5, QtyAssumption
  <2> QED BY <1>1, <1>5, <2>1, StallsKeeps
<1> QED BY <1>3, <1>4, <1>5 DEF TotalApply

\* A failed query of the total keeps the invariant.
LEMMA TotalFailsKeeps ==
  ASSUME IInv, NEW p \in Pollers, TotalFails(p)
  PROVE  IInv'
  BY LetGo DEF TotalFails, ledger, broker, IInv, PollInv, PollOk

\* A new sell keeps the invariant.
LEMMA SubmitKeeps ==
  ASSUME IInv, NEW r \in Rows, Submit(r)
  PROVE  IInv'
<1>1. PICK q \in 1 .. MaxQty : Submitted(r, q)
  BY DEF Submit
<1>2. UNCHANGED <<fills, eod, poller>>
  BY DEF Submit
<1>3. /\ row' \in [Rows -> Row] /\ kis' \in [Rows -> KisOrder]
      /\ OrderInv' /\ RowInv' /\ RowsForward /\ OrdersForward
  BY <1>1, <1>2, SubmittedEffect
<1>4. PollInv' /\ EodInv'
  BY <1>2, <1>3, PollKeeps, EodKeeps DEF PollInv
<1> QED BY <1>2, <1>3, <1>4 DEF IInv, TypeInv

\* The sell of the remainder keeps the invariant.
LEMMA ReorderKeeps ==
  ASSUME IInv, NEW p \in Pollers, Reorder(p)
  PROVE  IInv'
<1> DEFINE x == [poller[p] EXCEPT !.pc = "match", !.cur = NoOrder, !.rmn = 0]
<1>1. /\ UNCHANGED <<fills, eod>> /\ poller[p].rmn \in 1 .. MaxQty
      /\ poller' = [poller EXCEPT ![p] = x]
  BY QtyAssumption DEF Reorder, IInv, TypeInv, PollInv, PollOk, Poll
<1> DEFINE Moved == /\ row' \in [Rows -> Row] /\ kis' \in [Rows -> KisOrder]
                    /\ OrderInv' /\ RowInv' /\ RowsForward /\ OrdersForward
<1>2. Moved
  <2>1. ASSUME NEW n \in Rows, Submitted(n, poller[p].rmn) PROVE Moved
    BY <1>1, <2>1, SubmittedEffect
  <2>2. CASE UNCHANGED <<row, kis>>
    BY <1>1, <2>2, Still DEF IInv, TypeInv
  <2>3. ASSUME NEW n \in Rows, row[n] = NoRow, Accept(n, poller[p].rmn), UNCHANGED row
        PROVE  Moved
    <3> DEFINE q == poller[p].rmn
    <3>1. [qty |-> q, done |-> 0, live |-> TRUE] \in KisOrder /\ q \in 1 .. MaxQty
      BY <1>1, QtyAssumption DEF KisOrder
    <3>2. kis[n] = Unsent /\ kis' = [kis EXCEPT ![n] = [qty |-> q, done |-> 0, live |-> TRUE]]
      BY <2>3 DEF Accept
    <3> HIDE DEF q
    <3>3. /\ kis' \in [Rows -> KisOrder]
          /\ \A y \in Rows : y # n => kis'[y] = kis[y]
          /\ kis'[n] = [qty |-> q, done |-> 0, live |-> TRUE]
      BY <3>1, <3>2 DEF IInv, TypeInv
    <3>4. OrderInv' /\ OrdersForward
      BY <3>1, <3>2, <3>3 DEF OrderInv, OrdersForward, IInv, Unsent
    <3>5. RowInv' /\ RowsForward
      <4>1. ~Known(n)
        BY <2>3 DEF Known, NoRow
      <4>2. \A y \in Rows : RowOk(y)'
        BY <1>1, <2>3, <3>3, <4>1 DEF IInv, RowInv, RowOk, Known, Foreign
      <4> QED BY <2>3, <4>2 DEF RowInv, RowsForward, Known, Foreign
    <3> QED BY <2>3, <3>3, <3>4, <3>5 DEF IInv, TypeInv
  <2> QED BY <2>1, <2>2, <2>3 DEF Reorder
<1>3. /\ x \in Poll /\ x.list = poller[p].list /\ x.seen = poller[p].seen
      /\ x.todo = poller[p].todo /\ x.pc = "match"
  <2>1. poller[p] \in Poll /\ 0 \in 0 .. MaxQty
    BY QtyAssumption DEF IInv, TypeInv
  <2> QED BY <2>1 DEF Poll
<1>4. poller'[p] = x
  BY <1>1 DEF IInv, TypeInv
<1>5. PollOk(p)'
  <2>1. Snapshot(poller[p].list)'
    BY <1>2, <1>3, <1>4 DEF IInv, PollInv, PollOk, Snapshot, OrdersForward
  <2>2. \A y \in x.todo : Loaded(p, y)'
    BY <1>2, <1>3, <1>4 DEF IInv, PollInv, PollOk, Loaded, RowsForward, TypeInv, Poll
  <2> QED BY <1>3, <1>4, <2>1, <2>2 DEF PollOk
<1>6. poller' \in [Pollers -> Poll] /\ PollInv'
  <2> HIDE DEF x
  <2> QED BY <1>1, <1>2, <1>3, <1>5, OthersKeep
<1> QED BY <1>1, <1>2, <1>6, EodKeeps DEF IInv, TypeInv

\* KIS executes or drops an order.
LEMMA BrokerKeeps ==
  ASSUME IInv, NEW k \in Rows, Execute(k) \/ Expire(k)
  PROVE  IInv'
<1>1. UNCHANGED <<row, fills, poller, eod>>
  BY DEF Execute, Expire, ledger
<1>2. /\ kis' \in [Rows -> KisOrder]
      /\ \A x \in Rows : x # k => kis'[x] = kis[x]
      /\ kis[k].live /\ kis'[k].qty = kis[k].qty
      /\ kis'[k].done <= kis[k].qty
      /\ kis'[k].live => kis'[k].done < kis[k].qty
  <2>1. kis[k] \in KisOrder /\ kis \in [Rows -> KisOrder] /\ MaxQty \in Nat
    BY QtyAssumption DEF IInv, TypeInv
  <2>2. kis[k].done <= kis[k].qty /\ (kis[k].live => kis[k].done < kis[k].qty)
    BY DEF IInv, OrderInv
  <2>3. CASE Execute(k)
    <3> DEFINE done == kis[k].done + 1
    <3> DEFINE live == done < kis[k].qty
    <3>1. kis[k].live /\ done \in 0 .. MaxQty /\ done <= kis[k].qty /\ live \in BOOLEAN
      BY <2>1, <2>2, <2>3 DEF Execute, KisOrder
    <3>2. kis' = [kis EXCEPT ![k].done = done, ![k].live = live]
      BY <2>3 DEF Execute
    <3>3. live => done < kis[k].qty
      OBVIOUS
    <3> HIDE DEF done, live
    <3>4. [kis EXCEPT ![k].done = done] \in [Rows -> KisOrder]
      BY <2>1, <3>1 DEF KisOrder
    <3> QED BY <2>1, <3>1, <3>2, <3>3, <3>4 DEF KisOrder
  <2>4. CASE Expire(k)
    BY <2>1, <2>2, <2>4 DEF Expire, KisOrder
  <2> QED BY <2>3, <2>4
<1>3. kis[k] # Unsent /\ kis'[k] # Unsent
  BY <1>2, QtyAssumption DEF IInv, TypeInv, OrderInv, KisOrder, Unsent
<1>4. OrderInv' /\ OrdersForward
  BY <1>2, <1>3 DEF OrderInv, OrdersForward, IInv
<1>5. RowsForward
  BY <1>1 DEF RowsForward, Known, Foreign
<1>6. RowInv'
  BY <1>1, <1>2, <1>3 DEF IInv, RowInv, RowOk, Known, Foreign
<1>7. PollInv' /\ EodInv'
  BY <1>1, <1>4, <1>5, PollKeeps, EodKeeps DEF PollInv
<1> QED BY <1>1, <1>2, <1>4, <1>6, <1>7 DEF IInv, TypeInv

\* The reconciliation: the orphans and the list are read ...
LEMMA EodReadKeeps ==
  ASSUME IInv, EodStart \/ EodList
  PROVE  IInv'
<1>1. UNCHANGED <<row, fills, kis, poller>>
  BY DEF EodStart, EodList, ledger, broker
<1>2. eod' \in Eod /\ Snapshot(eod.list)' /\ \A r \in eod'.todo : Known(r) /\ ~Foreign(r)
  <2>1. CASE EodStart
    <3>1. eod' = [pc |-> "list", todo |-> Orphans, list |-> NoList] /\ Orphans \subseteq Rows
      BY <2>1 DEF EodStart, Orphans
    <3>2. \A r \in Orphans : Known(r) /\ ~Foreign(r)
      BY DEF Orphans, Known, Foreign, IInv, RowInv, RowOk
    <3> QED BY <3>1, <3>2, NoListSnapshot DEF Eod, Snapshot
  <2>2. CASE EodList
    <3>1. \A r \in eod.todo : Known(r) /\ ~Foreign(r)
      BY DEF IInv, EodInv, RowInv, RowOk, TypeInv, Eod
    <3>2. CASE eod' = [eod EXCEPT !.pc = "match", !.list = Listed]
      <4>1. eod' \in Eod /\ eod'.list = Listed /\ eod'.todo = eod.todo
        BY <3>2, ListedSnapshot DEF IInv, TypeInv, Eod
      <4> QED BY <4>1, <3>1, <1>1, ListedSnapshot DEF Snapshot
    <3>3. CASE eod' = IdleEod
      BY <3>3, NoListSnapshot DEF IdleEod, Eod, Snapshot
    <3> QED BY <2>2, <3>2, <3>3 DEF EodList
  <2> QED BY <2>1, <2>2
<1>3. RowsForward /\ OrdersForward /\ OrderInv'
  BY <1>1 DEF RowsForward, OrdersForward, OrderInv, IInv, Known, Foreign
<1>4. RowInv'
  BY <1>1, <1>2 DEF IInv, RowInv, RowOk, Known, Foreign
<1>5. PollInv'
  BY <1>1, <1>3, PollKeeps DEF PollInv
<1>6. EodInv'
  BY <1>1, <1>2 DEF EodInv, Known
<1> QED BY <1>1, <1>2, <1>3, <1>4, <1>5, <1>6 DEF IInv, TypeInv

\* ... and one orphan is matched or cancelled.
LEMMA EodMatchKeeps ==
  ASSUME IInv, EodMatch
  PROVE  IInv'
<1>1. PICK r \in eod.todo :
        /\ \/ \E k \in Matches(r) : MarkedFilled(r, eod.list[k].done, k)
           \/ row' = [row EXCEPT ![r].status = "cancelled"] /\ UNCHANGED fills
        /\ eod' = IF eod.todo = {r} THEN IdleEod ELSE [eod EXCEPT !.todo = @ \ {r}]
  BY DEF EodMatch
<1>2. UNCHANGED <<kis, poller>> /\ r \in Rows /\ Known(r) /\ ~Foreign(r)
  BY DEF EodMatch, broker, IInv, TypeInv, Eod, EodInv, RowInv, RowOk
<1>3. eod' \in Eod /\ eod'.todo = eod.todo \ {r} /\ Snapshot(eod'.list)
  <2>1. IdleEod \in Eod /\ IdleEod.todo = {} /\ IdleEod.list = NoList
    BY NoListSnapshot DEF IdleEod, Eod
  <2> QED BY <1>1, <2>1, NoListSnapshot DEF IInv, TypeInv, Eod, EodInv
<1> DEFINE Recorded == row' \in [Rows -> Row] /\ fills' \in [Rows -> Nat] /\ RowInv' /\ RowsForward
<1>4. Recorded
  <2>1. ASSUME NEW k \in Matches(r), MarkedFilled(r, eod.list[k].done, k)
        PROVE  Recorded
    <3>1. k \in Rows /\ eod.list[k] # Unsent
      BY DEF Matches
    <3>2. eod.list[k].done \in Nat /\ eod.list[k].done >= 1
      BY <3>1 DEF IInv, TypeInv, Eod, EodInv, Snapshot, KisOrder
    <3> QED BY <1>2, <1>3, <2>1, <3>1, <3>2, FilledEffect
  <2>2. CASE row' = [row EXCEPT ![r].status = "cancelled"] /\ UNCHANGED fills
    <3>1. /\ row' \in [Rows -> Row]
          /\ \A x \in Rows : x # r => row'[x] = row[x]
          /\ row'[r].status = "cancelled" /\ row'[r].kis = row[r].kis /\ row'[r].qty = row[r].qty
      BY <1>2, <2>2 DEF IInv, TypeInv, Row, Statuses
    <3>2. RowsForward
      BY <1>2, <3>1 DEF RowsForward, Known, Foreign
    <3>3. \A x \in Rows : RowOk(x)'
      BY <1>2, <1>3, <2>2, <3>1 DEF IInv, RowInv, RowOk, Known, Foreign, Polled
    <3> QED BY <2>2, <3>1, <3>2, <3>3 DEF RowInv, IInv, TypeInv
  <2> QED BY <1>1, <2>1, <2>2
<1>5. OrdersForward /\ OrderInv'
  BY <1>2 DEF OrdersForward, OrderInv, IInv
<1>6. PollInv'
  BY <1>2, <1>4, <1>5, PollKeeps DEF PollInv
<1>7. EodInv'
  BY <1>2, <1>3, <1>4 DEF EodInv, Snapshot, RowsForward, IInv, TypeInv, Eod
<1> QED BY <1>2, <1>3, <1>4, <1>5, <1>6, <1>7 DEF IInv, TypeInv

\* A restart keeps the invariant.
LEMMA RestartKeeps ==
  ASSUME IInv, Restart
  PROVE  IInv'
<1>1. /\ UNCHANGED <<row, fills, kis>>
      /\ poller' = [p \in Pollers |-> IdlePoll] /\ eod' = IdleEod
  BY DEF Restart, ledger, broker
<1>2. IdleEod \in Eod /\ IdleEod.todo = {} /\ IdleEod.list = NoList
  BY NoListSnapshot DEF IdleEod, Eod
<1>3. \A p \in Pollers : poller'[p] = IdlePoll
  BY <1>1
<1>4. poller' \in [Pollers -> Poll] /\ PollInv'
  <2>1. \A p \in Pollers : IdlePoll \in Poll /\ PollOk(p)'
    BY <1>3, IdlePollOk
  <2> QED BY <1>1, <2>1 DEF PollInv
<1>5. OrderInv' /\ RowInv'
  BY <1>1, <1>2, Still
<1>6. EodInv'
  BY <1>1, <1>2, NoListSnapshot DEF EodInv, Snapshot
<1> QED BY <1>1, <1>2, <1>4, <1>5, <1>6 DEF IInv, TypeInv

-------------------------------------------------------------------------------
\* The invariant holds at the start.
LEMMA InitInv == Init => IInv
<1> SUFFICES ASSUME Init PROVE IInv
  OBVIOUS
<1>1. 0 \in 0 .. MaxQty /\ -1 \in -1 .. Holding /\ NoRow \in Row /\ Unsent \in KisOrder
  BY QtyAssumption DEF NoRow, Row, Statuses, Unsent, KisOrder
<1>2. IdlePoll \in Poll /\ IdleEod \in Eod
  BY <1>1, NoListSnapshot DEF IdlePoll, Poll, IdleEod, Eod
<1>3. TypeInv
  BY <1>1, <1>2 DEF Init, TypeInv
<1>4. OrderInv /\ RowInv
  BY DEF Init, OrderInv, RowInv, RowOk, Known, Foreign, Unsent, NoRow, Polled
<1>5. PollInv /\ EodInv
  BY NoListSnapshot DEF Init, PollInv, PollOk, EodInv, IdlePoll, IdleEod
<1> QED BY <1>3, <1>4, <1>5 DEF IInv

\* Every step keeps the invariant.
LEMMA NextKeeps == IInv /\ [Next]_vars => IInv'
<1> SUFFICES ASSUME IInv, [Next]_vars PROVE IInv'
  OBVIOUS
<1>1. CASE \E r \in Rows : Submit(r) \/ Execute(r) \/ Expire(r)
  BY <1>1, SubmitKeeps, BrokerKeeps
<1>2. ASSUME NEW p \in Pollers, PollStep(p) PROVE IInv'
  BY <1>2, PollStartKeeps, PollListedKeeps, PollFailsKeeps, PollMatchKeeps, PollTotalKeeps,
     TotalAnswerKeeps, TotalApplyKeeps, TotalFailsKeeps, ReorderKeeps DEF PollStep
<1>3. CASE EodStart \/ EodList \/ EodMatch \/ Restart
  BY <1>3, EodReadKeeps, EodMatchKeeps, RestartKeeps
<1>4. CASE UNCHANGED vars
  <2>1. UNCHANGED <<row, fills, kis, poller, eod>>
    BY <1>4 DEF vars
  <2>2. RowsForward /\ OrdersForward /\ OrderInv' /\ RowInv'
    BY <2>1, Still
  <2> QED BY <2>1, <2>2, PollKeeps, EodKeeps DEF IInv, TypeInv, PollInv
<1> QED BY <1>1, <1>2, <1>3, <1>4 DEF Next

\* IInv is an invariant of every behaviour of pollers, reconciliation and restarts.
THEOREM Invariance == Spec => []IInv
  BY InitInv, NextKeeps, PTL DEF Spec

\* No row records more shares than it ordered, in every interleaving of any number
\* of pollers (loop, post-process job, monitor API) with the EOD reconciliation
\* and restarts, unless the reconciliation gave the row another order's number.
THEOREM WithinOrder == Spec => []RecordedWithinOrder
<1>1. IInv => RecordedWithinOrder
  BY DEF IInv, RowInv, RowOk, RecordedWithinOrder, Foreign
<1> QED BY <1>1, Invariance, PTL

-------------------------------------------------------------------------------
(* Sums over finite sets. The library's induction theorems take an operator as a         *)
(* parameter; a least counterexample (WFMin) takes none.                                 *)

\* The element that the fold of the community modules takes next, and the function
\* it computes for the subsets of S.
Pick(s) == CHOOSE x \in s : TRUE
Rest(s) == s \ {Pick(s)}
Folds(g, f, S) == g = [s \in SUBSET S |-> IF s = {} THEN 0 ELSE f[Pick(s)] + g[Rest(s)]]
Total(f, S) == (CHOOSE g : Folds(g, f, S))[S]

\* The sums of the model are totals.
LEMMA SumTotal == ASSUME NEW f, NEW S PROVE Sum(S, LAMBDA x : f[x]) = Total(f, S)
  BY DEF Sum, MapThenSumSet, MapThenFoldSet, Total, Folds, Pick, Rest

LEMMA PickRest ==
  ASSUME NEW s, s # {}
  PROVE  Pick(s) \in s /\ Rest(s) \subseteq s /\ Rest(s) # s
  BY DEF Pick, Rest

\* A set of subsets of a finite set has a least one.
LEMMA LeastSubset ==
  ASSUME NEW S, IsFiniteSet(S), NEW Bad, Bad \subseteq SUBSET S, Bad # {}
  PROVE  \E T \in Bad : \A U \in SUBSET T : U # T => U \notin Bad
<1>1. Bad \subseteq FiniteSubsetsOf(S)
  BY FS_Subset DEF FiniteSubsetsOf
<1>2. IsWellFoundedOn(StrictSubsetOrdering(S), FiniteSubsetsOf(S))
  BY FS_StrictSubsetOrderingWellFounded
<1>3. PICK T \in Bad : \A U \in Bad : ~(<<U, T>> \in StrictSubsetOrdering(S))
  BY <1>1, <1>2, WFMin
<1>4. ASSUME NEW U \in SUBSET T, U # T, U \in Bad PROVE FALSE
  BY <1>3, <1>4 DEF StrictSubsetOrdering
<1> QED BY <1>3, <1>4

\* The fold of a set and the fold of a part of it agree on that part.
LEMMA FoldsAgree ==
  ASSUME NEW f, NEW S, IsFiniteSet(S), NEW T \in SUBSET S,
         NEW g, Folds(g, f, S), NEW h, Folds(h, f, T)
  PROVE  \A s \in SUBSET T : g[s] = h[s]
<1> DEFINE Bad == {s \in SUBSET T : g[s] # h[s]}
<1>1. ASSUME Bad # {} PROVE FALSE
  <2>1. PICK s \in Bad : \A u \in SUBSET s : u # s => u \notin Bad
    <3>1. IsFiniteSet(T) /\ Bad \subseteq SUBSET T
      BY FS_Subset
    <3> HIDE DEF Bad
    <3> QED BY <1>1, <3>1, LeastSubset
  <2>2. /\ g[s] = IF s = {} THEN 0 ELSE f[Pick(s)] + g[Rest(s)]
        /\ h[s] = IF s = {} THEN 0 ELSE f[Pick(s)] + h[Rest(s)]
    BY <2>1 DEF Folds
  <2>3. s # {} => g[Rest(s)] = h[Rest(s)]
    BY <2>1, PickRest
  <2> QED BY <2>1, <2>2, <2>3
<1> QED BY <1>1

\* A finite set has its fold.
LEMMA FoldExists ==
  ASSUME NEW f, NEW S, IsFiniteSet(S)
  PROVE  \E g : Folds(g, f, S)
<1> DEFINE Bad == {s \in SUBSET S : ~ \E g : Folds(g, f, s)}
<1>1. ASSUME Bad # {} PROVE FALSE
  <2>1. PICK T \in Bad : \A u \in SUBSET T : u # T => u \notin Bad
    <3>1. Bad \subseteq SUBSET S
      OBVIOUS
    <3> HIDE DEF Bad
    <3> QED BY <1>1, <3>1, LeastSubset
  <2>2. T \in SUBSET S /\ IsFiniteSet(T)
    BY <2>1, FS_Subset
  <2>3. ASSUME NEW u \in SUBSET T, u # T PROVE Folds(CHOOSE g : Folds(g, f, u), f, u)
    BY <2>1, <2>2, <2>3
  <2>4. ASSUME NEW u \in SUBSET T, u # T
        PROVE  Total(f, u) = IF u = {} THEN 0 ELSE f[Pick(u)] + Total(f, Rest(u))
    <3> DEFINE h == CHOOSE g : Folds(g, f, u)
    <3>1. Folds(h, f, u)
      BY <2>3, <2>4
    <3> HIDE DEF h
    <3>2. h[u] = IF u = {} THEN 0 ELSE f[Pick(u)] + h[Rest(u)]
      BY <3>1 DEF Folds
    <3>3. ASSUME u # {} PROVE h[Rest(u)] = Total(f, Rest(u))
      <4>1. Rest(u) \in SUBSET u /\ Rest(u) \in SUBSET T /\ Rest(u) # T /\ IsFiniteSet(u)
        BY <2>2, <2>4, <3>3, PickRest, FS_Subset
      <4> DEFINE k == CHOOSE g : Folds(g, f, Rest(u))
      <4>2. Folds(k, f, Rest(u))
        BY <2>3, <4>1
      <4> HIDE DEF k
      <4>3. h[Rest(u)] = k[Rest(u)]
        BY <3>1, <4>1, <4>2, FoldsAgree
      <4> QED BY <4>3 DEF Total, k
    <3>4. Total(f, u) = h[u]
      BY DEF Total, h
    <3> QED BY <3>2, <3>3, <3>4
  <2> DEFINE G == [s \in SUBSET T |-> IF s = {} THEN 0 ELSE f[Pick(s)] + Total(f, Rest(s))]
  <2>5. ASSUME NEW s \in SUBSET T, s # {} PROVE G[Rest(s)] = Total(f, Rest(s))
    <3>1. Rest(s) \in SUBSET T /\ Rest(s) # T
      BY <2>5, PickRest
    <3> QED BY <2>4, <3>1
  <2>6. Folds(G, f, T)
    BY <2>5 DEF Folds
  <2> QED BY <2>1, <2>6
<1> QED BY <1>1

\* What a total is: one element, and the total of the others.
LEMMA TotalUnfolds ==
  ASSUME NEW f, NEW S, IsFiniteSet(S)
  PROVE  Total(f, S) = IF S = {} THEN 0 ELSE f[Pick(S)] + Total(f, Rest(S))
<1> DEFINE g == CHOOSE t : Folds(t, f, S)
<1> DEFINE h == CHOOSE t : Folds(t, f, Rest(S))
<1>1. Rest(S) \in SUBSET S /\ IsFiniteSet(Rest(S))
  BY FS_Subset DEF Rest
<1>2. Folds(g, f, S) /\ Folds(h, f, Rest(S))
  BY <1>1, FoldExists
<1>3. Total(f, S) = g[S] /\ Total(f, Rest(S)) = h[Rest(S)]
  BY DEF Total
<1> HIDE DEF g, h
<1>4. g[S] = IF S = {} THEN 0 ELSE f[Pick(S)] + g[Rest(S)]
  BY <1>2 DEF Folds
<1>5. g[Rest(S)] = h[Rest(S)]
  BY <1>1, <1>2, FoldsAgree
<1> QED BY <1>3, <1>4, <1>5

\* Sums of numbers are numbers.
LEMMA TotalNat ==
  ASSUME NEW f, NEW S, IsFiniteSet(S), \A x \in S : f[x] \in Nat
  PROVE  Total(f, S) \in Nat
<1> DEFINE Bad == {s \in SUBSET S : Total(f, s) \notin Nat}
<1>1. ASSUME Bad # {} PROVE FALSE
  <2>1. PICK s \in Bad : \A u \in SUBSET s : u # s => u \notin Bad
    <3>1. Bad \subseteq SUBSET S
      OBVIOUS
    <3> HIDE DEF Bad
    <3> QED BY <1>1, <3>1, LeastSubset
  <2>2. Total(f, s) = IF s = {} THEN 0 ELSE f[Pick(s)] + Total(f, Rest(s))
    BY <2>1, TotalUnfolds, FS_Subset
  <2>3. s # {} => f[Pick(s)] \in Nat /\ Total(f, Rest(s)) \in Nat
    BY <2>1, PickRest
  <2> QED BY <2>1, <2>2, <2>3
<1> QED BY <1>1

\* The element taken out need not be the one that the fold takes.
LEMMA TotalOf ==
  ASSUME NEW f, NEW S, IsFiniteSet(S), \A x \in S : f[x] \in Nat, NEW r \in S
  PROVE  Total(f, S) = f[r] + Total(f, S \ {r})
<1> DEFINE Bad == {s \in SUBSET S : \E x \in s : Total(f, s) # f[x] + Total(f, s \ {x})}
<1>1. ASSUME Bad # {} PROVE FALSE
  <2>1. PICK s \in Bad : \A u \in SUBSET s : u # s => u \notin Bad
    <3>1. Bad \subseteq SUBSET S
      OBVIOUS
    <3> HIDE DEF Bad
    <3> QED BY <1>1, <3>1, LeastSubset
  <2>2. PICK x \in s : Total(f, s) # f[x] + Total(f, s \ {x})
    BY <2>1
  <2> DEFINE y == Pick(s)
  <2>3. y \in s /\ Total(f, s) = f[y] + Total(f, s \ {y})
    BY <2>1, TotalUnfolds, FS_Subset, PickRest DEF Rest
  <2>4. x # y
    BY <2>2, <2>3
  <2> HIDE DEF y
  <2>5. Total(f, s \ {y}) = f[x] + Total(f, (s \ {y}) \ {x})
    BY <2>1, <2>3, <2>4
  <2>6. Total(f, s \ {x}) = f[y] + Total(f, (s \ {x}) \ {y})
    BY <2>1, <2>3, <2>4
  <2>7. (s \ {y}) \ {x} = (s \ {x}) \ {y}
    OBVIOUS
  <2>8. f[x] \in Nat /\ f[y] \in Nat /\ Total(f, (s \ {x}) \ {y}) \in Nat
    BY <2>1, <2>3, TotalNat, FS_Subset
  <2> QED BY <2>2, <2>3, <2>5, <2>6, <2>7, <2>8
<1> QED BY <1>1

\* A total depends on what it adds up.
LEMMA TotalSame ==
  ASSUME NEW f, NEW g, NEW S, IsFiniteSet(S), \A x \in S : f[x] = g[x]
  PROVE  Total(f, S) = Total(g, S)
<1> DEFINE Bad == {s \in SUBSET S : Total(f, s) # Total(g, s)}
<1>1. ASSUME Bad # {} PROVE FALSE
  <2>1. PICK s \in Bad : \A u \in SUBSET s : u # s => u \notin Bad
    <3>1. Bad \subseteq SUBSET S
      OBVIOUS
    <3> HIDE DEF Bad
    <3> QED BY <1>1, <3>1, LeastSubset
  <2>2. /\ Total(f, s) = IF s = {} THEN 0 ELSE f[Pick(s)] + Total(f, Rest(s))
        /\ Total(g, s) = IF s = {} THEN 0 ELSE g[Pick(s)] + Total(g, Rest(s))
    BY <2>1, TotalUnfolds, FS_Subset
  <2>3. s # {} => f[Pick(s)] = g[Pick(s)] /\ Total(f, Rest(s)) = Total(g, Rest(s))
    BY <2>1, PickRest
  <2> QED BY <2>1, <2>2, <2>3
<1> QED BY <1>1

\* A total grows with what it adds up.
LEMMA TotalGrows ==
  ASSUME NEW f, NEW g, NEW S, IsFiniteSet(S), \A x \in S : f[x] \in Nat /\ g[x] \in Nat /\ f[x] <= g[x]
  PROVE  Total(f, S) <= Total(g, S)
<1> DEFINE Bad == {s \in SUBSET S : ~(Total(f, s) <= Total(g, s))}
<1>1. ASSUME Bad # {} PROVE FALSE
  <2>1. PICK s \in Bad : \A u \in SUBSET s : u # s => u \notin Bad
    <3>1. Bad \subseteq SUBSET S
      OBVIOUS
    <3> HIDE DEF Bad
    <3> QED BY <1>1, <3>1, LeastSubset
  <2>2. /\ Total(f, s) = IF s = {} THEN 0 ELSE f[Pick(s)] + Total(f, Rest(s))
        /\ Total(g, s) = IF s = {} THEN 0 ELSE g[Pick(s)] + Total(g, Rest(s))
    BY <2>1, TotalUnfolds, FS_Subset
  <2>3. s # {} => /\ f[Pick(s)] \in Nat /\ g[Pick(s)] \in Nat /\ f[Pick(s)] <= g[Pick(s)]
                  /\ Total(f, Rest(s)) <= Total(g, Rest(s))
    BY <2>1, PickRest
  <2>4. s # {} => Total(f, Rest(s)) \in Nat /\ Total(g, Rest(s)) \in Nat
    BY <2>1, PickRest, TotalNat, FS_Subset
  <2> QED BY <2>1, <2>2, <2>3, <2>4
<1> QED BY <1>1

-------------------------------------------------------------------------------
(* What the polls have read: the fills follow the executions at KIS *)

\* The answers that a poll holds are no more than what KIS has executed by now; the order
\* list of a paper account is empty.
Reads(p) ==
  /\ poller[p].pc # "total" => poller[p].total = -1
  /\ \A k \in Rows : poller[p].list[k] # Unsent =>
       account = "real" /\ poller[p].list[k].done <= kis[k].done
  /\ poller[p].pc = "total" =>
       poller[p].total <= IF account = "real" THEN kis[poller[p].seen[poller[p].cur].kis].done
                                              ELSE Executed

ReadInv ==
  /\ account \in {"real", "paper"}
  /\ \A p \in Pollers : Reads(p)
  /\ account = "paper" => \A k \in Rows : eod.list[k] = Unsent

\* Without the reconciliation every row has its own number.
OwnNumbers == \A r \in Rows : ~Foreign(r)
Unreconciled == eod = IdleEod /\ OwnNumbers

Fulls == [k \in Rows |-> kis[k].done]

\* The sums of the model.
LEMMA Sums ==
  /\ Executed = Total(Fulls, Rows)
  /\ Sum(Rows, LAMBDA r : fills[r]) = Total(fills, Rows)
  /\ \A r : Sum(Rows \ {r}, LAMBDA x : fills[x]) = Total(fills, Rows \ {r})
<1>1. Sum(Rows, LAMBDA r : fills[r]) = Total(fills, Rows)
  BY DEF Sum, MapThenSumSet, MapThenFoldSet, Total, Folds, Pick, Rest
<1>2. ASSUME NEW r PROVE Sum(Rows \ {r}, LAMBDA x : fills[x]) = Total(fills, Rows \ {r})
  BY DEF Sum, MapThenSumSet, MapThenFoldSet, Total, Folds, Pick, Rest
<1>3. Executed = Total(Fulls, Rows)
  <2> DEFINE Own(g) == g = [s \in SUBSET Rows |-> IF s = {} THEN 0 ELSE kis[Pick(s)].done + g[Rest(s)]]
  <2> DEFINE h == CHOOSE g : Own(g)
  <2>1. Executed = h[Rows]
    BY DEF Executed, Sum, MapThenSumSet, MapThenFoldSet, Pick, Rest
  <2>2. ASSUME NEW g PROVE Own(g) <=> Folds(g, Fulls, Rows)
    <3>1. \A s \in SUBSET Rows : s # {} => Fulls[Pick(s)] = kis[Pick(s)].done
      BY PickRest DEF Fulls
    <3>2. [s \in SUBSET Rows |-> IF s = {} THEN 0 ELSE kis[Pick(s)].done + g[Rest(s)]]
            = [s \in SUBSET Rows |-> IF s = {} THEN 0 ELSE Fulls[Pick(s)] + g[Rest(s)]]
      BY <3>1
    <3> QED BY <3>2 DEF Folds
  <2>3. PICK g : Folds(g, Fulls, Rows)
    BY RowsAssumption, FoldExists
  <2>4. Own(h)
    <3>1. Own(g)
      BY <2>2, <2>3
    <3> HIDE DEF Own
    <3> QED BY <3>1
  <2>5. Folds(h, Fulls, Rows)
    BY <2>2, <2>4
  <2> DEFINE j == CHOOSE x : Folds(x, Fulls, Rows)
  <2>6. Folds(j, Fulls, Rows)
    BY <2>3
  <2> HIDE DEF h, j
  <2>7. h[Rows] = j[Rows]
    BY <2>5, <2>6, RowsAssumption, FoldsAgree
  <2> QED BY <2>1, <2>7 DEF Total, j
<1> QED BY <1>1, <1>2, <1>3

\* They are numbers.
LEMMA SumsNat ==
  ASSUME TypeInv
  PROVE  Executed \in Nat /\ Total(fills, Rows) \in Nat /\ \A r : Total(fills, Rows \ {r}) \in Nat
<1>1. \A k \in Rows : Fulls[k] \in Nat /\ fills[k] \in Nat
  BY DEF TypeInv, Fulls, KisOrder
<1>2. \A r : IsFiniteSet(Rows \ {r}) /\ Rows \ {r} \subseteq Rows
  BY RowsAssumption, FS_Subset
<1> QED BY <1>1, <1>2, RowsAssumption, Sums, TotalNat

\* KIS takes no execution back.
ExecutedOnly == \A k \in Rows : kis[k].done <= kis'[k].done

LEMMA ExecutedGrows ==
  ASSUME TypeInv, TypeInv', ExecutedOnly
  PROVE  Executed <= Executed'
<1> DEFINE f == [k \in Rows |-> kis[k].done]
<1> DEFINE g == [k \in Rows |-> kis'[k].done]
<1>1. \A k \in Rows : f[k] \in Nat /\ g[k] \in Nat /\ f[k] <= g[k]
  BY DEF TypeInv, KisOrder, ExecutedOnly
<1> HIDE DEF f, g
<1>2. Total(f, Rows) <= Total(g, Rows)
  BY <1>1, RowsAssumption, TotalGrows
<1>3. Executed = Total(f, Rows)
  BY Sums DEF f, Fulls
<1>4. Executed' = Total(g, Rows)
  <2>1. (Executed = Total(Fulls, Rows))'
    BY Sums, PTL
  <2>2. Total(Fulls, Rows)' = Total(g, Rows)
    BY DEF Fulls, g, Total, Folds
  <2> QED BY <2>1, <2>2
<1> QED BY <1>2, <1>3, <1>4

LEMMA ExecutedSame ==
  ASSUME UNCHANGED kis
  PROVE  Executed' = Executed
<1>1. (Executed = Total(Fulls, Rows))'
  BY Sums, PTL
<1>2. Total(Fulls, Rows)' = Total(Fulls, Rows)
  BY DEF Fulls, Total, Folds
<1> QED BY <1>1, <1>2, Sums

LEMMA StepsExecuteOnly ==
  ASSUME IInv, [Next]_vars
  PROVE  ExecutedOnly /\ account' = account
<1>1. \A k \in Rows : kis[k] \in KisOrder /\ kis[k].done \in Nat
  BY DEF IInv, TypeInv, KisOrder
<1>2. account' = account
  <2>1. ASSUME NEW r \in Rows, Submit(r) \/ Execute(r) \/ Expire(r) PROVE account' = account
    BY <2>1 DEF Submit, Execute, Expire
  <2>2. ASSUME NEW p \in Pollers, NEW r \in Rows, PollMatch(p, r) \/ PollTotal(p, r)
        PROVE  account' = account
    BY <2>2 DEF PollMatch, PollTotal
  <2>3. ASSUME NEW p \in Pollers, PollStart(p) \/ PollListed(p) \/ PollFails(p) \/ PollEnd(p)
        PROVE  account' = account
    BY <2>3 DEF PollStart, PollListed, PollFails, PollEnd
  <2>4. ASSUME NEW p \in Pollers, TotalAnswer(p) \/ TotalApply(p) \/ TotalFails(p) \/ Reorder(p)
        PROVE  account' = account
    BY <2>4 DEF TotalAnswer, TotalApply, TotalFails, Reorder
  <2>5. CASE EodStart \/ EodList \/ EodMatch \/ Restart \/ UNCHANGED vars
    BY <2>5 DEF EodStart, EodList, EodMatch, Restart, vars
  <2> QED BY <2>1, <2>2, <2>3, <2>4, <2>5 DEF Next, PollStep
<1>3. ASSUME NEW k \in Rows, NEW q, Accept(k, q) PROVE ExecutedOnly
  <2>1. kis[k].done = 0 /\ kis' = [kis EXCEPT ![k] = [qty |-> q, done |-> 0, live |-> TRUE]]
    BY <1>3 DEF Accept, Unsent
  <2>2. kis'[k].done = 0 /\ \A x \in Rows \ {k} : kis'[x] = kis[x]
    BY <2>1 DEF IInv, TypeInv
  <2> QED BY <1>1, <2>1, <2>2 DEF ExecutedOnly
<1>4. ASSUME UNCHANGED kis PROVE ExecutedOnly
  BY <1>1, <1>4 DEF ExecutedOnly
<1>5. ASSUME NEW k \in Rows, Execute(k) PROVE ExecutedOnly
  <2> DEFINE live == kis[k].done + 1 < kis[k].qty
  <2>1. kis' = [kis EXCEPT ![k].done = kis[k].done + 1, ![k].live = live]
    BY <1>5 DEF Execute
  <2> HIDE DEF live
  <2>2. kis'[k].done = kis[k].done + 1 /\ \A x \in Rows \ {k} : kis'[x] = kis[x]
    BY <1>1, <2>1 DEF IInv, TypeInv, KisOrder
  <2> QED BY <1>1, <2>2 DEF ExecutedOnly
<1>6. ASSUME NEW k \in Rows, Expire(k) PROVE ExecutedOnly
  BY <1>1, <1>6 DEF Expire, ExecutedOnly, IInv, TypeInv, KisOrder
<1>7. ASSUME NEW k \in Rows, NEW q, Submitted(k, q) PROVE ExecutedOnly
  BY <1>3, <1>4, <1>7 DEF Submitted
<1>8. ASSUME NEW p \in Pollers, PollStep(p) PROVE ExecutedOnly
  <2>1. CASE Reorder(p)
    BY <1>3, <1>4, <1>7, <2>1 DEF Reorder
  <2>2. CASE ~Reorder(p)
    BY <1>4, <1>8, <2>2 DEF PollStep, PollStart, PollListed, PollFails, PollMatch, PollTotal,
       TotalAnswer, TotalApply, TotalFails, PollEnd, broker
  <2> QED BY <2>1, <2>2
<1>9. CASE EodStart \/ EodList \/ EodMatch \/ Restart \/ UNCHANGED vars
  BY <1>4, <1>9 DEF EodStart, EodList, EodMatch, Restart, broker, vars
<1> QED BY <1>2, <1>5, <1>6, <1>7, <1>8, <1>9 DEF Next, Submit

\* What a poll has read stays true while others move: KIS takes nothing back.
LEMMA ReadsStay ==
  ASSUME IInv, IInv', ReadInv, ExecutedOnly, account' = account,
         NEW p \in Pollers, poller'[p] = poller[p]
  PROVE  Reads(p)'
<1>1. /\ Reads(p) /\ poller[p] \in Poll
      /\ \A k \in Rows : kis[k].done \in Nat /\ kis'[k].done \in Nat /\ kis[k].done <= kis'[k].done
  BY DEF IInv, TypeInv, KisOrder, ReadInv, ExecutedOnly
<1>2. Executed \in Nat /\ Executed' \in Nat /\ Executed <= Executed'
  <2>1. (TypeInv => Executed \in Nat)'
    BY SumsNat, PTL
  <2> QED BY <2>1, SumsNat, ExecutedGrows DEF IInv
<1>3. \A k \in Rows : poller[p].list[k] # Unsent =>
        account = "real" /\ poller[p].list[k].done <= kis'[k].done
  <2>1. \A k \in Rows : poller[p].list[k].done \in Nat
    BY <1>1 DEF Poll, KisOrder
  <2> QED BY <1>1, <2>1 DEF Reads
<1>4. ASSUME poller[p].pc = "total"
      PROVE  poller[p].total <= IF account = "real" THEN kis'[poller[p].seen[poller[p].cur].kis].done
                                                    ELSE Executed'
  <2>1. poller[p].seen[poller[p].cur].kis \in Rows
    BY <1>4 DEF IInv, PollInv, PollOk, Loaded
  <2>2. poller[p].total \in Int
    BY <1>1, QtyAssumption DEF Poll
  <2> QED BY <1>1, <1>2, <1>4, <2>1, <2>2 DEF Reads
<1>5. poller[p].pc # "total" => poller[p].total = -1
  BY <1>1 DEF Reads
<1> QED BY <1>3, <1>4, <1>5 DEF Reads

\* A poll that moves on, with no total, holds what KIS lists now or what it held.
LEMMA ReadsMove ==
  ASSUME IInv, IInv', ReadInv, ExecutedOnly, account' = account,
         NEW p \in Pollers, NEW x, poller' = [poller EXCEPT ![p] = x], x.total = -1,
         x.list \in {poller[p].list, NoList, Listed}
  PROVE  \A q \in Pollers : Reads(q)'
<1>1. poller'[p] = x /\ \A q \in Pollers \ {p} : poller'[q] = poller[q]
  BY DEF IInv, TypeInv
<1>2. /\ Reads(p) /\ poller[p] \in Poll
      /\ \A k \in Rows : kis[k].done \in Nat /\ kis'[k].done \in Nat /\ kis[k].done <= kis'[k].done
  BY DEF IInv, TypeInv, KisOrder, ReadInv, ExecutedOnly
<1>3. ASSUME NEW k \in Rows, x.list[k] # Unsent
      PROVE  account = "real" /\ x.list[k].done <= kis'[k].done
  <2>1. CASE x.list = poller[p].list
    <3>1. poller[p].list[k].done \in Nat
      BY <1>2 DEF Poll, KisOrder
    <3> QED BY <1>2, <1>3, <2>1, <3>1 DEF Reads
  <2>2. x.list # NoList
    BY <1>3 DEF NoList
  <2>3. CASE x.list = Listed
    <3>1. Listed[k] = kis[k] /\ account = "real"
      BY <1>3, <2>3 DEF Listed
    <3> QED BY <1>2, <2>3, <3>1
  <2> QED BY <2>1, <2>2, <2>3
<1>4. ASSUME x.pc = "total"
      PROVE  -1 <= IF account = "real" THEN kis'[x.seen[x.cur].kis].done ELSE Executed'
  <2>1. x.seen[x.cur].kis \in Rows
    BY <1>1, <1>4 DEF IInv, PollInv, PollOk, Loaded
  <2>2. Executed' \in Nat
    <3>1. (TypeInv => Executed \in Nat)'
      BY SumsNat, PTL
    <3> QED BY <3>1 DEF IInv
  <2> QED BY <1>2, <2>1, <2>2
<1>5. Reads(p)'
  BY <1>1, <1>3, <1>4 DEF Reads
<1> QED BY <1>1, <1>5, ReadsStay

\* The places of a poll in which it has no total.
LEMMA DoneReads ==
  ASSUME IInv, NEW p \in Pollers, NEW r
  PROVE  /\ Done(p, r).total = -1 /\ Done(p, r).list = poller[p].list
         /\ \A n : LET x == [Done(p, r) EXCEPT !.pc = "reorder", !.cur = r, !.rmn = n]
                   IN  x.total = -1 /\ x.list = poller[p].list
  BY DEF IInv, TypeInv, Poll, Done

\* A poll that moves on.
Onward(p, x) == /\ poller' = [poller EXCEPT ![p] = x] /\ x.total = -1
                /\ x.list \in {poller[p].list, NoList, Listed}

\* Every step of a poll but the answer of the total is such a move.
LEMMA PollMoves ==
  ASSUME IInv, ReadInv, NEW p \in Pollers, PollStep(p), ~TotalAnswer(p)
  PROVE  \E x : Onward(p, x)
<1>1. poller[p] \in Poll /\ (poller[p].pc # "total" => poller[p].total = -1)
  BY DEF IInv, TypeInv, ReadInv, Reads
<1>2. ASSUME NEW r, poller' = [poller EXCEPT ![p] = Done(p, r)] PROVE \E x : Onward(p, x)
  BY <1>2, DoneReads DEF Onward
<1>3. CASE PollStart(p)
  <2> DEFINE x == [IdlePoll EXCEPT !.pc = "list", !.seen = row,
                                   !.todo = {r \in Rows : row[r].status \in Polled}]
  <2>1. x.total = -1 /\ x.list = NoList
    BY DEF IdlePoll
  <2>2. poller' = [poller EXCEPT ![p] = x]
    BY <1>3 DEF PollStart
  <2> HIDE DEF x
  <2> QED BY <2>1, <2>2 DEF Onward
<1>4. CASE PollListed(p)
  <2> DEFINE x == [poller[p] EXCEPT !.pc = "match", !.list = Listed]
  <2>1. x.total = -1 /\ x.list = Listed
    BY <1>1, <1>4 DEF Poll, PollListed
  <2>2. poller' = [poller EXCEPT ![p] = x]
    BY <1>4 DEF PollListed, IInv, TypeInv, Poll
  <2> HIDE DEF x
  <2> QED BY <2>1, <2>2 DEF Onward
<1>5. CASE PollFails(p) \/ PollEnd(p)
  <2>1. IdlePoll.total = -1 /\ IdlePoll.list = NoList
    BY DEF IdlePoll
  <2> QED BY <1>5, <2>1 DEF PollFails, PollEnd, Onward
<1>6. ASSUME NEW r, NEW n, NEW m, Completes(p, r, n, m) PROVE \E x : Onward(p, x)
  BY <1>2, <1>6 DEF Completes
<1>7. ASSUME NEW r, NEW n, NEW m, Stalls(p, r, n, m) PROVE \E x : Onward(p, x)
  <2>1. CASE poller' = [poller EXCEPT ![p] = Done(p, r)]
    BY <1>2, <2>1
  <2>2. CASE poller' = [poller EXCEPT ![p] = [Done(p, r) EXCEPT !.pc = "reorder", !.cur = r, !.rmn = m]]
    <3> DEFINE x == [Done(p, r) EXCEPT !.pc = "reorder", !.cur = r, !.rmn = m]
    <3>1. x.total = -1 /\ x.list = poller[p].list
      BY DoneReads
    <3> HIDE DEF x
    <3> QED BY <2>2, <3>1 DEF x, Onward
  <2> QED BY <1>7, <2>1, <2>2 DEF Stalls
<1>8. ASSUME NEW r \in Rows, PollMatch(p, r) PROVE \E x : Onward(p, x)
  <2> QED BY <1>2, <1>6, <1>7, <1>8 DEF PollMatch
<1>9. ASSUME NEW r \in Rows, PollTotal(p, r) PROVE \E x : Onward(p, x)
  <2> DEFINE x == [poller[p] EXCEPT !.pc = "total", !.cur = r]
  <2>1. x.total = -1 /\ x.list = poller[p].list
    BY <1>1, <1>9 DEF Poll, PollTotal
  <2>2. poller' = [poller EXCEPT ![p] = x] => Onward(p, x)
    BY <2>1 DEF Onward
  <2>3. poller' = [poller EXCEPT ![p] = x] \/ poller' = [poller EXCEPT ![p] = Done(p, r)]
    BY <1>9 DEF PollTotal
  <2> HIDE DEF x
  <2> QED BY <1>2, <2>2, <2>3
<1>10. CASE TotalApply(p)
  <2> DEFINE r == poller[p].cur
  <2> DEFINE n == Isolated(r, poller[p].total)
  <2>1. \/ poller' = [poller EXCEPT ![p] = Done(p, r)]
        \/ Completes(p, r, n, row[r].kis)
        \/ Stalls(p, r, n, row[r].qty - n)
    BY <1>10 DEF TotalApply
  <2> HIDE DEF r, n
  <2> QED BY <1>2, <1>6, <1>7, <2>1
<1>11. CASE TotalFails(p)
  <2> QED BY <1>2, <1>11 DEF TotalFails
<1>12. CASE Reorder(p)
  <2> DEFINE x == [poller[p] EXCEPT !.pc = "match", !.cur = NoOrder, !.rmn = 0]
  <2>1. x.total = -1 /\ x.list = poller[p].list
    BY <1>1, <1>12 DEF Poll, Reorder
  <2>2. poller' = [poller EXCEPT ![p] = x]
    BY <1>12 DEF Reorder, IInv, TypeInv, Poll
  <2> HIDE DEF x
  <2> QED BY <2>1, <2>2 DEF Onward
<1>13. CASE \E r \in Rows : PollMatch(p, r) \/ PollTotal(p, r)
  BY <1>8, <1>9, <1>13
<1> QED BY <1>3, <1>4, <1>5, <1>10, <1>12, <1>13, <1>11 DEF PollStep

\* The answer of the total is what KIS has executed by then.
LEMMA AnswerReads ==
  ASSUME IInv, IInv', ReadInv, ExecutedOnly, account' = account, NEW p \in Pollers, TotalAnswer(p)
  PROVE  \A q \in Pollers : Reads(q)'
<1>1. PICK n \in 0 .. Holding :
        /\ n = IF account = "real" THEN kis[poller[p].seen[poller[p].cur].kis].done ELSE Executed
        /\ poller' = [poller EXCEPT ![p].total = n]
  BY DEF TotalAnswer
<1>2. poller[p] \in Poll /\ poller[p].pc = "total" /\ Reads(p) /\ UNCHANGED kis
  BY DEF IInv, TypeInv, TotalAnswer, ReadInv, broker
<1> DEFINE x == [poller[p] EXCEPT !.total = n]
<1>3. /\ poller'[p] = x
      /\ \A q \in Pollers \ {p} : poller'[q] = poller[q]
  BY <1>1 DEF IInv, TypeInv
<1>4. /\ x.total = n /\ x.pc = "total" /\ x.list = poller[p].list /\ x.seen = poller[p].seen
      /\ x.cur = poller[p].cur
  BY <1>2 DEF Poll
<1> HIDE DEF x
<1>5. n <= IF account = "real" THEN kis'[x.seen[x.cur].kis].done ELSE Executed'
  <2>1. Executed' = Executed
    BY <1>2, ExecutedSame
  <2>2. n \in Int
    BY QtyAssumption
  <2>3. account = "real" => n = kis'[x.seen[x.cur].kis].done
    BY <1>1, <1>2, <1>4
  <2>4. account # "real" => n = Executed'
    BY <1>1, <2>1
  <2> QED BY <2>2, <2>3, <2>4
<1>6. \A k \in Rows : x.list[k] # Unsent => account = "real" /\ x.list[k].done <= kis'[k].done
  BY <1>2, <1>4 DEF Reads
<1>7. Reads(p)'
  BY <1>3, <1>4, <1>5, <1>6 DEF Reads
<1> QED BY <1>3, <1>7, ReadsStay

\* Every step keeps what was read; the reconciliation reads what the polls read.
LEMMA ReadsKept ==
  ASSUME IInv, IInv', ReadInv, [Next]_vars
  PROVE  ReadInv'
<1>1. ExecutedOnly /\ account' = account
  BY StepsExecuteOnly
<1>2. \A p \in Pollers : Reads(p)'
  <2>1. ASSUME NEW p \in Pollers, PollStep(p) PROVE \A q \in Pollers : Reads(q)'
    <3>1. CASE TotalAnswer(p)
      BY <1>1, <3>1, AnswerReads
    <3>2. CASE ~TotalAnswer(p)
      BY <1>1, <2>1, <3>2, PollMoves, ReadsMove DEF Onward
    <3> QED BY <3>1, <3>2
  <2>2. CASE UNCHANGED poller
    BY <1>1, <2>2, ReadsStay
  <2>3. CASE Restart
    <3>1. \A p \in Pollers : poller'[p] = IdlePoll
      BY <2>3 DEF Restart
    <3> QED BY <3>1 DEF Reads, IdlePoll, NoList
  <2>4. (\E r \in Rows : Submit(r) \/ Execute(r) \/ Expire(r)) \/ EodStart \/ EodList \/ EodMatch
          \/ UNCHANGED vars => UNCHANGED poller
    BY DEF Submit, Execute, Expire, EodStart, EodList, EodMatch, vars
  <2> QED BY <2>1, <2>2, <2>3, <2>4 DEF Next
<1>3. ASSUME account = "paper" PROVE \A k \in Rows : eod'.list[k] = Unsent
  <2>1. \A k \in Rows : eod.list[k] = Unsent /\ NoList[k] = Unsent /\ Listed[k] = Unsent
    BY <1>3 DEF ReadInv, NoList, Listed
  <2>2. eod'.list \in {eod.list, NoList, Listed}
    <3>1. CASE UNCHANGED eod
      BY <3>1
    <3>2. CASE EodStart
      <4>1. eod' = [pc |-> "list", todo |-> Orphans, list |-> NoList]
        BY <3>2 DEF EodStart
      <4> QED BY <4>1
    <3>3. CASE EodList
      <4>1. CASE eod' = [eod EXCEPT !.pc = "match", !.list = Listed]
        BY <4>1 DEF IInv, TypeInv, Eod
      <4>2. CASE eod' = IdleEod
        BY <4>2 DEF IdleEod
      <4> QED BY <3>3, <4>1, <4>2 DEF EodList
    <3>4. CASE EodMatch
      BY <3>4 DEF EodMatch, IdleEod, IInv, TypeInv, Eod
    <3>5. CASE Restart
      BY <3>5 DEF Restart, IdleEod
    <3>6. ASSUME NEW p \in Pollers, PollStep(p) PROVE UNCHANGED eod
      BY <3>6 DEF PollStep, PollStart, PollListed, PollFails, PollMatch, PollTotal, TotalAnswer,
         TotalApply, TotalFails, Reorder, PollEnd
    <3> QED BY <3>1, <3>2, <3>3, <3>4, <3>5, <3>6 DEF Next, Submit, Execute, Expire, vars
  <2> QED BY <2>1, <2>2
<1> QED BY <1>1, <1>2, <1>3 DEF ReadInv

\* The row's fills become some number, or stay.
Writes(r, m) == m \in Nat /\ fills' = [fills EXCEPT ![r] = m]

\* A recording writes no more than n to the row's fills, or leaves them.
LEMMA RecordsUpTo ==
  ASSUME IInv, NEW r \in Rows, NEW n \in Nat, NEW k, MarkedFilled(r, n, k) \/ MarkedPartial(r, n)
  PROVE  \E m : Writes(r, m) /\ (m = fills[r] \/ m <= n)
  BY QtyAssumption DEF IInv, TypeInv, Row, MarkedFilled, MarkedPartial, AtMost, Writes

\* The steps that record: from the list, from the total, and the reconciliation. All the
\* others leave the fills.
LEMMA WhoRecords ==
  ASSUME IInv, [Next]_vars
  PROVE  \/ UNCHANGED fills
         \/ EodMatch
         \/ \E p \in Pollers : TotalApply(p) \/ \E r \in Rows : PollMatch(p, r)
<1>1. ASSUME NEW p \in Pollers, PollStep(p), ~TotalApply(p), \A r \in Rows : ~PollMatch(p, r)
      PROVE  UNCHANGED fills
  BY <1>1 DEF PollStep, PollStart, PollListed, PollFails, PollTotal, TotalAnswer, TotalFails,
     Reorder, PollEnd, ledger
<1>2. CASE ~ \E p \in Pollers : PollStep(p)
  BY <1>2 DEF Next, Submit, Execute, Expire, EodStart, EodList, Restart, ledger, vars
<1> QED BY <1>1, <1>2

\* The order that a poll found in its list.
LEMMA MatchRecords ==
  ASSUME IInv, ReadInv, NEW p \in Pollers, NEW r \in Rows, PollMatch(p, r)
  PROVE  /\ UNCHANGED kis /\ account = "real" /\ poller[p].seen[r].kis \in Rows
         /\ r \in poller[p].todo
         /\ \/ UNCHANGED fills
            \/ \E m : Writes(r, m) /\ (m = fills[r] \/ m <= kis[poller[p].seen[r].kis].done)
<1> DEFINE k == poller[p].seen[r].kis
<1> DEFINE order == ListedOrder(p, r)
<1>1. r \in poller[p].todo /\ order # Unsent /\ UNCHANGED kis /\ poller[p] \in Poll
  BY DEF PollMatch, Unmatched, broker, IInv, TypeInv
<1>2. k \in Rows /\ order = poller[p].list[k]
  BY <1>1 DEF IInv, PollInv, PollOk, Loaded, ListedOrder
<1>3. poller[p].list[k] \in KisOrder /\ kis[k] \in KisOrder
  BY <1>1, <1>2 DEF IInv, TypeInv, Poll
<1> HIDE DEF k
<1>4. account = "real" /\ order.done <= kis[k].done
  BY <1>1, <1>2 DEF ReadInv, Reads
<1> HIDE DEF order
<1>5. order.done \in Nat /\ kis[k].done \in Nat
  BY <1>2, <1>3 DEF KisOrder
<1>6. UNCHANGED fills \/ MarkedFilled(r, order.done, row[r].kis) \/ MarkedPartial(r, order.done)
  BY DEF PollMatch, order, Completes, Stalls, ledger
<1>7. ASSUME MarkedFilled(r, order.done, row[r].kis) \/ MarkedPartial(r, order.done)
      PROVE  \E m : Writes(r, m) /\ (m = fills[r] \/ m <= kis[k].done)
  <2>1. PICK m : Writes(r, m) /\ (m = fills[r] \/ m <= order.done)
    BY <1>5, <1>7, RecordsUpTo
  <2>2. m \in Nat
    BY <2>1 DEF Writes
  <2> QED BY <1>4, <1>5, <2>1, <2>2
<1> QED BY <1>1, <1>2, <1>4, <1>6, <1>7 DEF k

\* The total, of which what the other orders have recorded is taken off.
LEMMA TotalRecords ==
  ASSUME IInv, ReadInv, NEW p \in Pollers, TotalApply(p)
  PROVE  LET r == poller[p].cur
         IN  /\ UNCHANGED kis /\ r \in Rows
             /\ poller[p].seen[r].kis \in Rows
             /\ \/ UNCHANGED fills
                \/ \E m : Writes(r, m) /\ (m = fills[r] \/ m + Total(fills, Rows \ {r}) <= poller[p].total)
<1> DEFINE r == poller[p].cur
<1> DEFINE total == poller[p].total
<1> DEFINE n == Isolated(r, total)
<1>1. r \in Rows /\ poller[p].seen[r].kis \in Rows /\ UNCHANGED kis
  BY DEF TotalApply, IInv, PollInv, PollOk, Loaded, broker
<1>2. total \in Int /\ row[r].qty \in Nat
  BY <1>1, QtyAssumption DEF IInv, TypeInv, Poll, Row
<1>3. Total(fills, Rows \ {r}) \in Nat
  BY SumsNat DEF IInv
<1> DEFINE others == Total(fills, Rows \ {r})
<1>4. n = AtMost(row[r].qty, total - others)
  BY Sums DEF Isolated
<1>5. \/ UNCHANGED fills
      \/ n \in Nat /\ (MarkedFilled(r, n, row[r].kis) \/ MarkedPartial(r, n))
  <2>1. CASE UNCHANGED ledger
    BY <2>1 DEF ledger
  <2>2. CASE n = row[r].qty /\ Completes(p, r, n, row[r].kis)
    BY <1>2, <2>2 DEF Completes
  <2>3. CASE n \in 1 .. (row[r].qty - 1) /\ Stalls(p, r, n, row[r].qty - n)
    <3>1. MarkedPartial(r, n)
      BY <2>3 DEF Stalls
    <3> HIDE DEF n, r
    <3> QED BY <1>2, <2>3, <3>1
  <2> QED BY <2>1, <2>2, <2>3 DEF TotalApply
<1> HIDE DEF r, total, n, others
<1>6. n + others <= total
  BY <1>2, <1>3, <1>4 DEF AtMost, others
<1>7. ASSUME n \in Nat, MarkedFilled(r, n, row[r].kis) \/ MarkedPartial(r, n)
      PROVE  \E m : Writes(r, m) /\ (m = fills[r] \/ m + others <= total)
  <2>1. PICK m : Writes(r, m) /\ (m = fills[r] \/ m <= n)
    BY <1>1, <1>7, RecordsUpTo
  <2>2. m \in Nat /\ others \in Nat
    BY <1>3, <2>1 DEF Writes, others
  <2> QED BY <1>2, <1>6, <1>7, <2>1, <2>2
<1> QED BY <1>1, <1>5, <1>7 DEF r, total, others

\* The fills of a paper account, that knows totals only, stay within what KIS has executed.
LEMMA NothingInvented ==
  ASSUME IInv, IInv', ReadInv, [Next]_vars, account = "paper", Total(fills, Rows) <= Executed
  PROVE  Total(fills', Rows) <= Executed'
<1>1. Executed <= Executed' /\ Executed \in Nat /\ Executed' \in Nat
  <2>1. (TypeInv => Executed \in Nat)'
    BY SumsNat, PTL
  <2> QED BY <2>1, SumsNat, ExecutedGrows, StepsExecuteOnly DEF IInv
<1>2. Total(fills, Rows) \in Nat /\ \A k \in Rows : fills[k] \in Nat /\ fills'[k] \in Nat
  BY SumsNat DEF IInv, TypeInv
<1>3. CASE UNCHANGED fills
  BY <1>1, <1>2, <1>3
<1>4. CASE EodMatch
  <2>1. \A r \in Rows : Matches(r) = {}
    BY DEF Matches, ReadInv
  <2>2. eod.todo \subseteq Rows
    BY DEF IInv, TypeInv, Eod
  <2>3. UNCHANGED fills
    BY <1>4, <2>1, <2>2 DEF EodMatch
  <2> QED BY <1>3, <2>3
<1>5. ASSUME NEW p \in Pollers, NEW r \in Rows, PollMatch(p, r) PROVE FALSE
  BY <1>5, MatchRecords
<1>6. ASSUME NEW p \in Pollers, TotalApply(p), ~ UNCHANGED fills PROVE Total(fills', Rows) <= Executed'
  <2> DEFINE r == poller[p].cur
  <2>1. PICK m : /\ r \in Rows /\ Writes(r, m)
                 /\ m = fills[r] \/ m + Total(fills, Rows \ {r}) <= poller[p].total
    BY <1>6, TotalRecords
  <2>2. poller[p].total <= Executed /\ poller[p].total \in Int
    BY <1>6, QtyAssumption DEF ReadInv, Reads, TotalApply, IInv, TypeInv, Poll
  <2> HIDE DEF r
  <2>3. Total(fills, Rows \ {r}) \in Nat
    BY SumsNat DEF IInv
  <2>4. m \in Nat /\ m # fills[r]
    BY <1>6, <2>1 DEF IInv, TypeInv, Writes
  <2>5. fills'[r] = m /\ \A x \in Rows \ {r} : fills'[x] = fills[x]
    BY <2>1 DEF IInv, TypeInv, Writes
  <2>6. Total(fills', Rows) = m + Total(fills', Rows \ {r})
    BY <1>2, <2>1, <2>5, RowsAssumption, TotalOf
  <2>7. Total(fills', Rows \ {r}) = Total(fills, Rows \ {r})
    <3>1. IsFiniteSet(Rows \ {r})
      BY RowsAssumption, FS_Subset
    <3> QED BY <2>5, <3>1, TotalSame
  <2> QED BY <1>1, <2>1, <2>2, <2>3, <2>4, <2>6, <2>7
<1> QED BY <1>3, <1>4, <1>5, <1>6, WhoRecords

\* Without the reconciliation no row gets another order's number.
LEMMA NumbersOwn ==
  ASSUME IInv, ~Reconciles, Unreconciled, [Next]_vars
  PROVE  Unreconciled'
<1>1. ~EodStart /\ ~EodList /\ ~EodMatch
  BY DEF EodStart, EodList, EodMatch, Unreconciled, IdleEod
<1>2. ASSUME UNCHANGED row PROVE OwnNumbers'
  BY <1>2 DEF Unreconciled, OwnNumbers, Foreign
<1>3. ASSUME NEW r \in Rows, NEW q, Submitted(r, q) PROVE OwnNumbers'
  BY <1>3 DEF Submitted, Unreconciled, OwnNumbers, Foreign, IInv, TypeInv
<1>4. ASSUME NEW r \in Rows, NEW n, MarkedFilled(r, n, row[r].kis) \/ MarkedPartial(r, n) PROVE OwnNumbers'
  <2>1. \A x \in Rows : row'[x].kis = row[x].kis
    BY <1>4 DEF MarkedFilled, MarkedPartial, IInv, TypeInv, Row
  <2> QED BY <2>1 DEF Unreconciled, OwnNumbers, Foreign
<1>5. ASSUME NEW p \in Pollers, PollStep(p) PROVE OwnNumbers'
  <2>1. ASSUME NEW r \in Rows, PollMatch(p, r) PROVE OwnNumbers'
    BY <1>2, <1>4, <2>1 DEF PollMatch, Completes, Stalls, ledger
  <2>2. ASSUME TotalApply(p) PROVE OwnNumbers'
    <3>1. poller[p].cur \in Rows
      BY <2>2 DEF TotalApply, IInv, PollInv, PollOk
    <3> QED BY <1>2, <1>4, <2>2, <3>1 DEF TotalApply, Completes, Stalls, ledger
  <2>3. ASSUME Reorder(p) PROVE OwnNumbers'
    BY <1>2, <1>3, <2>3 DEF Reorder
  <2>4. ASSUME ~TotalApply(p), ~Reorder(p), \A r \in Rows : ~PollMatch(p, r) PROVE OwnNumbers'
    BY <1>2, <1>5, <2>4 DEF PollStep, PollStart, PollListed, PollFails, PollTotal, TotalAnswer,
       TotalFails, PollEnd, ledger
  <2> QED BY <2>1, <2>2, <2>3, <2>4
<1>6. ASSUME (\E r \in Rows : Submit(r) \/ Execute(r) \/ Expire(r)) \/ Restart \/ UNCHANGED vars
      PROVE  OwnNumbers'
  BY <1>2, <1>3, <1>6 DEF Submit, Execute, Expire, Restart, ledger, vars
<1>7. OwnNumbers'
  BY <1>1, <1>5, <1>6 DEF Next
<1>8. eod' = IdleEod
  <2>1. ASSUME NEW p \in Pollers, PollStep(p) PROVE UNCHANGED eod
    BY <2>1 DEF PollStep, PollStart, PollListed, PollFails, PollMatch, PollTotal, TotalAnswer,
       TotalApply, TotalFails, Reorder, PollEnd
  <2>2. UNCHANGED eod \/ eod' = IdleEod
    BY <1>1, <2>1 DEF Next, Submit, Execute, Expire, Restart, vars
  <2> QED BY <2>2 DEF Unreconciled
<1> QED BY <1>7, <1>8 DEF Unreconciled

\* The fills of a real account's row stay within the executions of its own order.
LEMMA FillsOwn ==
  ASSUME IInv, IInv', ReadInv, ~Reconciles, Unreconciled, [Next]_vars, account = "real",
         \A r \in Rows : fills[r] <= kis[r].done
  PROVE  \A r \in Rows : fills'[r] <= kis'[r].done
<1>1. \A r \in Rows : /\ fills[r] \in Nat /\ kis[r].done \in Nat /\ kis'[r].done \in Nat
                      /\ kis[r].done <= kis'[r].done
  BY StepsExecuteOnly DEF IInv, TypeInv, KisOrder, ExecutedOnly
<1>2. CASE UNCHANGED fills
  BY <1>1, <1>2
<1>3. ~EodMatch
  BY DEF EodMatch, Unreconciled, IdleEod
<1>4. ASSUME NEW r \in Rows, NEW m, Writes(r, m), m = fills[r] \/ m <= kis[r].done
      PROVE  \A x \in Rows : fills'[x] <= kis'[x].done
  BY <1>1, <1>4 DEF IInv, TypeInv, Writes
<1>5. ASSUME NEW p \in Pollers, NEW r \in Rows,
             r \in poller[p].todo \/ (poller[p].pc = "total" /\ poller[p].cur = r)
      PROVE  poller[p].seen[r].kis = r
  BY <1>5 DEF IInv, PollInv, PollOk, Loaded, Unreconciled, OwnNumbers
<1>6. ASSUME NEW p \in Pollers, NEW r \in Rows, PollMatch(p, r)
      PROVE  \A x \in Rows : fills'[x] <= kis'[x].done
  BY <1>2, <1>4, <1>5, <1>6, MatchRecords
<1>7. ASSUME NEW p \in Pollers, TotalApply(p), ~ UNCHANGED fills
      PROVE  \A x \in Rows : fills'[x] <= kis'[x].done
  <2> DEFINE r == poller[p].cur
  <2>1. PICK m : /\ r \in Rows /\ Writes(r, m)
                 /\ m = fills[r] \/ m + Total(fills, Rows \ {r}) <= poller[p].total
    BY <1>7, TotalRecords
  <2>2. poller[p].seen[r].kis = r
    BY <1>5, <1>7, <2>1 DEF TotalApply
  <2>3. poller[p].total <= kis[r].done /\ poller[p].total \in Int
    BY <1>7, <2>2, QtyAssumption DEF ReadInv, Reads, TotalApply, IInv, TypeInv, Poll
  <2>4. Total(fills, Rows \ {r}) \in Nat
    BY SumsNat DEF IInv
  <2> HIDE DEF r
  <2>5. m \in Nat
    BY <2>1 DEF Writes
  <2>6. m = fills[r] \/ m <= kis[r].done
    BY <1>1, <2>1, <2>3, <2>4, <2>5
  <2> QED BY <1>4, <2>1, <2>6
<1> QED BY <1>2, <1>3, <1>6, <1>7, WhoRecords

\* What the polls have read holds at the start.
LEMMA ReadsInit == Init => ReadInv
<1> SUFFICES ASSUME Init PROVE ReadInv
  OBVIOUS
<1>1. \A p \in Pollers : Reads(p)
  BY DEF Init, Reads, IdlePoll, NoList
<1> QED BY <1>1, ModeAssumption DEF Init, ReadInv, IdleEod, NoList

THEOREM ReadsInvariance == Spec => []ReadInv
<1>1. IInv /\ IInv' /\ ReadInv /\ [Next]_vars => ReadInv'
  BY ReadsKept
<1> QED BY <1>1, ReadsInit, Invariance, PTL DEF Spec

\* The fills of the day never add up to more than KIS executed, although the paper account
\* only reports totals and polls, the reconciliation and restarts may overlap.
THEOREM FillsNotInvented == Spec => []NoInventedFills
<1> DEFINE Within == account = "paper" => Total(fills, Rows) <= Executed
<1>1. Init => Within
  <2> SUFFICES ASSUME Init PROVE Total(fills, Rows) <= Executed
    OBVIOUS
  <2>1. \A x \in Rows : fills[x] = Fulls[x]
    BY DEF Init, Fulls, Unsent
  <2>2. Total(fills, Rows) = Executed
    BY <2>1, RowsAssumption, TotalSame, Sums
  <2> QED BY <2>2, InitInv, SumsNat DEF IInv
<1>2. IInv /\ IInv' /\ ReadInv /\ [Next]_vars /\ Within => Within'
  BY NothingInvented, StepsExecuteOnly
<1>3. Within <=> NoInventedFills
  BY Sums DEF NoInventedFills
<1> HIDE DEF Within
<1> QED BY <1>1, <1>2, <1>3, Invariance, ReadsInvariance, PTL DEF Spec

\* While only the pollers write, a row of a real account records executions of its own KIS
\* order and no other, although the second stage works on totals.
THEOREM FillsOwnOrder == ASSUME ~Reconciles PROVE Spec => []OwnFills
<1>1. Init => Unreconciled /\ OwnFills
  BY DEF Init, Unreconciled, OwnNumbers, Foreign, NoRow, OwnFills, Unsent
<1>2. IInv /\ Unreconciled /\ [Next]_vars => Unreconciled'
  BY NumbersOwn
<1>3. IInv /\ IInv' /\ ReadInv /\ Unreconciled /\ OwnFills /\ [Next]_vars => OwnFills'
  BY FillsOwn, StepsExecuteOnly DEF OwnFills
<1> QED BY <1>1, <1>2, <1>3, Invariance, ReadsInvariance, PTL DEF Spec

-------------------------------------------------------------------------------
(* The refinement: one poller, and no reconciliation beside it *)

Alone == ~Reconciles /\ \A p, q \in Pollers : p = q

\* What the poller has loaded and not handled yet is still open, since nobody else closes
\* a row.
SoloPoll(p) ==
  /\ \A r \in poller[p].todo : row[r].status \in Polled
  /\ poller[p].pc = "total" => row[poller[p].cur].status \in Polled

Solo == \A p \in Pollers : SoloPoll(p)

\* A step of the detailed ledger is one of OrderLedger, or none.
Simulates == Ledger!Next \/ UNCHANGED Ledger!vars

\* Rows and fills stay: OrderLedger stutters.
LEMMA NothingRecorded ==
  ASSUME UNCHANGED <<row, fills>>
  PROVE  Simulates
  BY DEF Simulates, Ledger!vars

\* Recording is a Record step of an open row: a complete order closes it.
LEMMA Records ==
  ASSUME IInv, NEW r \in Rows, row[r].status \in Polled, fills[r] <= row[r].qty, NEW n \in Nat,
         \/ MarkedFilled(r, n, row[r].kis)
         \/ MarkedPartial(r, n) /\ n <= row[r].qty
  PROVE  /\ Simulates
         /\ \A x \in Rows \ {r} : row'[x] = row[x]
         /\ row'[r].kis = row[r].kis
<1>1. /\ row \in [Rows -> Row] /\ fills \in [Rows -> Nat] /\ MaxQty \in Nat
      /\ row[r].qty \in Nat /\ row[r].qty <= MaxQty /\ row[r].status # "filled"
  BY QtyAssumption DEF IInv, TypeInv, Row, Polled
<1>2. PICK m \in fills[r] .. row[r].qty : fills' = [fills EXCEPT ![r] = m]
  BY <1>1 DEF MarkedFilled, MarkedPartial, AtMost
<1>3. PICK s \in {"filled", "partial"} :
        row' = [row EXCEPT ![r].status = s] \/ row' = [row EXCEPT ![r].status = s, ![r].kis = row[r].kis]
  BY DEF MarkedFilled, MarkedPartial
<1>4. /\ \A x \in Rows \ {r} : row'[x] = row[x]
      /\ row'[r].kis = row[r].kis /\ row'[r].qty = row[r].qty /\ row'[r].status = s
  BY <1>1, <1>3 DEF Row
<1>5. [x \in Rows |-> row'[x].qty] = [x \in Rows |-> row[x].qty]
  BY <1>4
<1> DEFINE close == IF s = "filled" THEN {r} ELSE {}
<1>6. {x \in Rows : row'[x].status = "filled"} = {x \in Rows : row[x].status = "filled"} \cup close
  BY <1>1, <1>3, <1>4
<1>7. close \in {{}, {r}} /\ m \in 0 .. MaxQty /\ fills[r] \in Nat
  BY <1>1, <1>2
<1> HIDE DEF close
<1>8. Ledger!Record(r, m, close)
  BY <1>1, <1>2, <1>5, <1>6 DEF Ledger!Record
<1>9. Ledger!Next
  BY <1>7, <1>8 DEF Ledger!Next
<1> QED BY <1>4, <1>9 DEF Simulates

\* A new row is an Order step.
LEMMA Orders ==
  ASSUME IInv, NEW r \in Rows, NEW q \in 1 .. MaxQty, Submitted(r, q), UNCHANGED fills
  PROVE  /\ Simulates
         /\ \A x \in Rows \ {r} : row'[x] = row[x]
         /\ row[r].status = "none" /\ row'[r].kis \in {r, NoOrder}
<1>1. row \in [Rows -> Row] /\ row[r] = NoRow
  BY DEF IInv, TypeInv, Submitted
<1>2. /\ \A x \in Rows \ {r} : row'[x] = row[x]
      /\ row'[r].qty = q /\ row'[r].status \in {"submitted", "uncertain"}
      /\ row'[r].kis \in {r, NoOrder}
  BY <1>1 DEF Submitted
<1>3. row[r].status = "none" /\ row[r].qty = 0
  BY <1>1 DEF NoRow
<1>4. [x \in Rows |-> row'[x].qty] = [[x \in Rows |-> row[x].qty] EXCEPT ![r] = q]
  BY <1>2
<1>5. {x \in Rows : row'[x].status = "filled"} = {x \in Rows : row[x].status = "filled"}
  BY <1>2, <1>3
<1>6. Ledger!Order(r, q)
  BY <1>3, <1>4, <1>5 DEF Ledger!Order
<1> QED BY <1>2, <1>3, <1>6 DEF Simulates, Ledger!Next

\* The poller's own step: it lets go of the row it closes.
LEMMA SoloKept ==
  ASSUME IInv, Alone, NEW p \in Pollers, NEW x, poller' = [poller EXCEPT ![p] = x],
         \A r \in x.todo : row'[r].status \in Polled,
         x.pc = "total" => row'[x.cur].status \in Polled
  PROVE  Solo'
<1>1. poller'[p] = x
  BY DEF IInv, TypeInv
<1>2. \A q \in Pollers : q = p
  BY DEF Alone
<1> QED BY <1>1, <1>2 DEF Solo, SoloPoll

\* The poller's rows, as IInv and Solo know them.
LEMMA SoloRow ==
  ASSUME IInv, Unreconciled, Solo, NEW p \in Pollers, NEW r \in Rows,
         r \in poller[p].todo \/ (poller[p].pc = "total" /\ poller[p].cur = r)
  PROVE  /\ row[r].status \in Polled /\ row[r].kis = r /\ fills[r] <= row[r].qty
         /\ poller[p].seen[r].kis = r
  BY RowsAssumption DEF IInv, RowInv, RowOk, PollInv, PollOk, Loaded, Solo, SoloPoll, Unreconciled,
     OwnNumbers, Foreign

\* Row r is recorded and done with.
LEMMA RecordsSolo ==
  ASSUME IInv, Alone, Unreconciled, Solo, NEW p \in Pollers, NEW r \in Rows, NEW n \in Nat,
         row[r].status \in Polled, row[r].kis = r, fills[r] <= row[r].qty,
         \/ Completes(p, r, n, row[r].kis)
         \/ n <= row[r].qty /\ \E rmn \in 0 .. MaxQty : Stalls(p, r, n, rmn)
  PROVE  Simulates /\ Solo'
<1>1. \/ MarkedFilled(r, n, row[r].kis)
      \/ MarkedPartial(r, n) /\ n <= row[r].qty
  BY DEF Completes, Stalls
<1>2. /\ Simulates
      /\ \A x \in Rows \ {r} : row'[x] = row[x]
      /\ row'[r].kis = row[r].kis
  BY <1>1, Records
<1>4. poller[p] \in Poll
  BY DEF IInv, TypeInv
<1>5. Done(p, r).todo = poller[p].todo \ {r} /\ Done(p, r).pc = "match"
  BY <1>4 DEF Done, Poll
<1>6. PICK x : poller' = [poller EXCEPT ![p] = x] /\ x.todo = poller[p].todo \ {r} /\ x.pc # "total"
  <2>1. CASE poller' = [poller EXCEPT ![p] = Done(p, r)]
    BY <1>5, <2>1
  <2>2. ASSUME NEW rmn, poller' = [poller EXCEPT ![p] = [Done(p, r) EXCEPT !.pc = "reorder", !.cur = r, !.rmn = rmn]]
        PROVE  \E x : poller' = [poller EXCEPT ![p] = x] /\ x.todo = poller[p].todo \ {r} /\ x.pc # "total"
    <3> DEFINE y == [Done(p, r) EXCEPT !.pc = "reorder", !.cur = r, !.rmn = rmn]
    <3>1. y.todo = poller[p].todo \ {r} /\ y.pc = "reorder"
      BY <1>4 DEF Done, Poll
    <3> QED BY <2>2, <3>1
  <2> QED BY <2>1, <2>2 DEF Completes, Stalls
<1>7. \A y \in x.todo : row'[y].status \in Polled
  BY <1>2, <1>4, <1>6 DEF Solo, SoloPoll, Poll
<1> QED BY <1>2, <1>6, <1>7, SoloKept

\* The steps of the poller that touch no row.
LEMMA PollReadsSolo ==
  ASSUME IInv, Alone, Unreconciled, Solo, NEW p \in Pollers, UNCHANGED <<row, fills>>,
         NEW x, poller' = [poller EXCEPT ![p] = x],
         \A r \in x.todo : r \in poller[p].todo \/ row[r].status \in Polled,
         x.pc = "total" => row[x.cur].status \in Polled
  PROVE  Simulates /\ Solo'
<1>2. \A r \in x.todo : row'[r].status \in Polled
  BY DEF Solo, SoloPoll
<1> QED BY <1>2, NothingRecorded, SoloKept

LEMMA PollLoadsSolo ==
  ASSUME IInv, Alone, Unreconciled, Solo, NEW p \in Pollers, PollStart(p) \/ PollListed(p) \/ PollFails(p) \/ PollEnd(p)
  PROVE  Simulates /\ Solo'
<1>1. UNCHANGED <<row, fills>> /\ poller[p] \in Poll
  BY DEF PollStart, PollListed, PollFails, PollEnd, ledger, IInv, TypeInv
<1>2. CASE PollStart(p)
  <2> DEFINE x == [IdlePoll EXCEPT !.pc = "list", !.seen = row,
                                   !.todo = {r \in Rows : row[r].status \in Polled}]
  <2>1. x.todo = {r \in Rows : row[r].status \in Polled} /\ x.pc = "list"
    BY DEF IdlePoll
  <2>2. poller' = [poller EXCEPT ![p] = x]
    BY <1>2 DEF PollStart
  <2> HIDE DEF x
  <2> QED BY <1>1, <2>1, <2>2, PollReadsSolo
<1>3. CASE PollListed(p)
  <2> DEFINE x == [poller[p] EXCEPT !.pc = "match", !.list = Listed]
  <2>1. x.todo = poller[p].todo /\ x.pc = "match"
    BY <1>1 DEF Poll
  <2>2. poller' = [poller EXCEPT ![p] = x]
    BY <1>1, <1>3 DEF PollListed, IInv, TypeInv, Poll
  <2> HIDE DEF x
  <2> QED BY <1>1, <2>1, <2>2, PollReadsSolo
<1>4. CASE PollFails(p) \/ PollEnd(p)
  <2>1. poller' = [poller EXCEPT ![p] = IdlePoll]
    BY <1>4 DEF PollFails, PollEnd
  <2>2. IdlePoll.todo = {} /\ IdlePoll.pc = "idle"
    BY DEF IdlePoll
  <2> QED BY <1>1, <2>1, <2>2, PollReadsSolo
<1> QED BY <1>2, <1>3, <1>4

\* A row that is let go.
LEMMA LetGoSolo ==
  ASSUME IInv, Alone, Unreconciled, Solo, NEW p \in Pollers, NEW r \in Rows, UNCHANGED <<row, fills>>,
         poller' = [poller EXCEPT ![p] = Done(p, r)]
  PROVE  Simulates /\ Solo'
<1>1. Done(p, r).todo = poller[p].todo \ {r} /\ Done(p, r).pc = "match"
  BY DEF IInv, TypeInv, Done, Poll
<1> QED BY <1>1, PollReadsSolo

\* An order of the list is recorded.
LEMMA PollMatchSolo ==
  ASSUME IInv, Alone, Unreconciled, Solo, NEW p \in Pollers, NEW r \in Rows, PollMatch(p, r)
  PROVE  Simulates /\ Solo'
<1> DEFINE order == ListedOrder(p, r)
<1>1. r \in poller[p].todo /\ order # Unsent /\ UNCHANGED kis
  BY DEF PollMatch, Unmatched, broker
<1>2. /\ row[r].status \in Polled /\ row[r].kis = r /\ fills[r] <= row[r].qty
      /\ poller[p].seen[r].kis = r
  BY <1>1, SoloRow
<1>3. order = poller[p].list[r]
  BY <1>2 DEF ListedOrder
<1>4. order.qty = row[r].qty /\ order.done \in 1 .. order.qty /\ order.qty \in 0 .. MaxQty
  <2>1. poller[p].list \in [Rows -> KisOrder] /\ Snapshot(poller[p].list)
    BY DEF IInv, PollInv, PollOk, TypeInv, Poll
  <2>2. Known(r)
    BY <1>2 DEF Known, Polled
  <2>3. order.qty \in 0 .. MaxQty
    BY <1>3, <2>1 DEF KisOrder
  <2> HIDE DEF order
  <2> QED BY <1>1, <1>3, <2>1, <2>2, <2>3 DEF Snapshot, IInv, RowInv, RowOk
<1> HIDE DEF order
<1>5. /\ order.done \in Nat /\ order.done <= row[r].qty
      /\ order.qty - order.done \in 0 .. MaxQty
  BY <1>4, QtyAssumption
<1>6. CASE UNCHANGED ledger /\ poller' = [poller EXCEPT ![p] = Done(p, r)]
  BY <1>1, <1>6, LetGoSolo DEF ledger
<1>7. CASE Completes(p, r, order.done, row[r].kis) \/ Stalls(p, r, order.done, order.qty - order.done)
  BY <1>1, <1>2, <1>5, <1>7, RecordsSolo
<1> QED BY <1>6, <1>7 DEF PollMatch, order

\* The total of the day is asked, answered, and recorded.
LEMMA TotalSolo ==
  ASSUME IInv, Alone, Unreconciled, Solo, NEW p \in Pollers,
         \/ \E r \in Rows : PollTotal(p, r)
         \/ TotalAnswer(p) \/ TotalApply(p) \/ TotalFails(p)
  PROVE  Simulates /\ Solo'
<1>0. poller[p] \in Poll
  BY DEF IInv, TypeInv
<1>1. ASSUME NEW r \in Rows, PollTotal(p, r) PROVE Simulates /\ Solo'
  <2>1. UNCHANGED <<row, fills>> /\ r \in poller[p].todo
    BY <1>1 DEF PollTotal, ledger
  <2>2. CASE poller' = [poller EXCEPT ![p] = Done(p, r)]
    BY <2>1, <2>2, LetGoSolo
  <2>3. CASE poller' = [poller EXCEPT ![p] = [poller[p] EXCEPT !.pc = "total", !.cur = r]]
    <3> DEFINE x == [poller[p] EXCEPT !.pc = "total", !.cur = r]
    <3>1. x.todo = poller[p].todo /\ x.cur = r
      BY <1>0 DEF Poll
    <3>2. row[r].status \in Polled
      BY <2>1, SoloRow
    <3> HIDE DEF x
    <3> QED BY <2>1, <2>3, <3>1, <3>2, PollReadsSolo DEF x
  <2> QED BY <1>1, <2>2, <2>3 DEF PollTotal
<1>2. CASE TotalAnswer(p)
  <2>1. PICK n \in 0 .. Holding : poller' = [poller EXCEPT ![p].total = n]
    BY <1>2 DEF TotalAnswer
  <2> DEFINE x == [poller[p] EXCEPT !.total = n]
  <2>2. poller' = [poller EXCEPT ![p] = x] /\ UNCHANGED <<row, fills>>
    BY <1>2, <2>1 DEF TotalAnswer, ledger, IInv, TypeInv
  <2>3. x.todo = poller[p].todo /\ x.pc = poller[p].pc /\ x.cur = poller[p].cur
    BY <1>0 DEF Poll
  <2>4. x.pc = "total" => row[x.cur].status \in Polled
    BY <2>3 DEF Solo, SoloPoll
  <2> HIDE DEF x
  <2> QED BY <2>2, <2>3, <2>4, PollReadsSolo
<1>3. CASE TotalFails(p)
  BY <1>3, LetGoSolo DEF TotalFails, ledger, IInv, PollInv, PollOk
<1>4. CASE TotalApply(p)
  <2> DEFINE r == poller[p].cur
  <2> DEFINE n == Isolated(r, poller[p].total)
  <2>1. r \in Rows /\ UNCHANGED kis /\ poller[p].pc = "total"
    BY <1>4 DEF TotalApply, IInv, PollInv, PollOk, broker
  <2>2. /\ row[r].status \in Polled /\ row[r].kis = r /\ fills[r] <= row[r].qty
    BY <2>1, SoloRow
  <2>3. row[r].qty \in Nat /\ row[r].qty <= MaxQty /\ MaxQty \in Nat
    BY <2>1, QtyAssumption DEF IInv, TypeInv, Row
  <2>4. CASE UNCHANGED ledger /\ poller' = [poller EXCEPT ![p] = Done(p, r)]
    BY <2>1, <2>4, LetGoSolo DEF ledger
  <2>5. CASE n = row[r].qty /\ Completes(p, r, n, row[r].kis)
    <3> HIDE DEF n, r
    <3> QED BY <2>1, <2>2, <2>3, <2>5, RecordsSolo
  <2>6. CASE n \in 1 .. (row[r].qty - 1) /\ Stalls(p, r, n, row[r].qty - n)
    <3> HIDE DEF n, r
    <3>1. n \in Nat /\ row[r].qty - n \in 0 .. MaxQty /\ n <= row[r].qty
      BY <2>3, <2>6
    <3> QED BY <2>1, <2>2, <2>6, <3>1, RecordsSolo
  <2> QED BY <1>4, <2>4, <2>5, <2>6 DEF TotalApply
<1> QED BY <1>1, <1>2, <1>3, <1>4

\* An order that leaves a row, from a sell or for a remainder.
LEMMA OrdersSolo ==
  ASSUME IInv, NEW r \in Rows, NEW q \in 1 .. MaxQty, Submitted(r, q), UNCHANGED fills
  PROVE  /\ Simulates
         /\ \A x \in Rows : row[x].status \in Polled => row'[x].status \in Polled
<1>1. /\ Simulates
      /\ \A x \in Rows \ {r} : row'[x] = row[x]
      /\ row[r].status = "none" /\ row'[r].kis \in {r, NoOrder}
  BY Orders
<1> QED BY <1>1 DEF Polled

LEMMA SubmitSolo ==
  ASSUME IInv, Alone, Unreconciled, Solo, NEW r \in Rows, Submit(r)
  PROVE  Simulates /\ Solo'
<1>1. PICK q \in 1 .. MaxQty : Submitted(r, q)
  BY DEF Submit
<1>2. UNCHANGED <<fills, poller>>
  BY DEF Submit
<1>3. /\ Simulates
      /\ \A x \in Rows : row[x].status \in Polled => row'[x].status \in Polled
  BY <1>1, <1>2, OrdersSolo
<1>4. \A p \in Pollers : poller[p].todo \subseteq Rows /\ (poller[p].pc = "total" => poller[p].cur \in Rows)
  BY DEF IInv, TypeInv, Poll, PollInv, PollOk
<1> QED BY <1>2, <1>3, <1>4 DEF Solo, SoloPoll

LEMMA ReorderSolo ==
  ASSUME IInv, Alone, Unreconciled, Solo, NEW p \in Pollers, Reorder(p)
  PROVE  Simulates /\ Solo'
<1> DEFINE x == [poller[p] EXCEPT !.pc = "match", !.cur = NoOrder, !.rmn = 0]
<1>1. /\ UNCHANGED fills /\ poller[p].rmn \in 1 .. MaxQty /\ poller[p] \in Poll
      /\ poller' = [poller EXCEPT ![p] = x]
  BY QtyAssumption DEF Reorder, IInv, TypeInv, PollInv, PollOk, Poll
<1>2. x.todo = poller[p].todo /\ x.pc = "match" /\ poller[p].todo \subseteq Rows
  BY <1>1 DEF Poll
<1> DEFINE Kept == /\ Simulates
                   /\ \A y \in Rows : row[y].status \in Polled => row'[y].status \in Polled
<1>3. Kept
  <2>1. CASE UNCHANGED row
    BY <1>1, <2>1, NothingRecorded
  <2>2. ASSUME NEW n \in Rows, Submitted(n, poller[p].rmn) PROVE Kept
    BY <1>1, <2>2, OrdersSolo
  <2> QED BY <2>1, <2>2 DEF Reorder
<1>4. \A y \in x.todo : row'[y].status \in Polled
  BY <1>2, <1>3 DEF Solo, SoloPoll
<1> HIDE DEF x
<1> QED BY <1>1, <1>2, <1>3, <1>4, SoloKept

\* KIS, and a restart, that forgets what the poller has loaded.
LEMMA OutsideSolo ==
  ASSUME IInv, Alone, Unreconciled, Solo, (\E k \in Rows : Execute(k) \/ Expire(k)) \/ Restart \/ UNCHANGED vars
  PROVE  Simulates /\ Solo'
<1>1. UNCHANGED <<row, fills>>
  BY DEF Execute, Expire, Restart, ledger, vars
<1>2. Simulates
  BY <1>1, NothingRecorded
<1>3. CASE Restart
  <2>1. \A p \in Pollers : poller'[p] = IdlePoll
    BY <1>3 DEF Restart
  <2> QED BY <1>2, <2>1 DEF Solo, SoloPoll, IdlePoll
<1>4. CASE UNCHANGED poller
  BY <1>1, <1>2, <1>4 DEF Solo, SoloPoll
<1>5. Restart \/ UNCHANGED poller
  BY DEF Execute, Expire, vars
<1> QED BY <1>3, <1>4, <1>5

\* With one poller and no reconciliation the ledger implements OrderLedger: executed
\* shares are only ever added to a row's fills, never beyond its order, and a row
\* reported filled stays closed with the fills it has, whatever polls fail, stall,
\* reorder or are cut by a restart.
THEOREM LedgerImplemented == ASSUME Alone PROVE Spec => LedgerSpec
<1>1. Init => Ledger!Init
  BY DEF Init, Ledger!Init, NoRow
<1>2. Init => Unreconciled /\ Solo
  BY DEF Init, Unreconciled, OwnNumbers, Solo, SoloPoll, Foreign, IdlePoll, NoRow
<1>3. IInv /\ Unreconciled /\ [Next]_vars => Unreconciled'
  BY NumbersOwn DEF Alone
<1>4. IInv /\ Unreconciled /\ Solo /\ [Next]_vars => Simulates /\ Solo'
  <2> SUFFICES ASSUME IInv, Unreconciled, Solo, [Next]_vars PROVE Simulates /\ Solo'
    OBVIOUS
  <2>1. ASSUME NEW p \in Pollers, PollStep(p) PROVE Simulates /\ Solo'
    BY <2>1, PollLoadsSolo, PollMatchSolo, TotalSolo, ReorderSolo DEF PollStep
  <2>2. ~EodStart /\ ~EodList /\ ~EodMatch
    BY DEF EodStart, EodList, EodMatch, Alone, Unreconciled, IdleEod
  <2> QED BY <2>1, <2>2, SubmitSolo, OutsideSolo DEF Next
<1>5. Simulates => [Ledger!Next]_(Ledger!vars)
  BY DEF Simulates
<1> QED BY <1>1, <1>2, <1>3, <1>4, <1>5, Invariance, PTL DEF Spec, LedgerSpec, Ledger!Spec

-------------------------------------------------------------------------------
(* What the promise of OrderLedger amounts to *)

\* No row records more than it ordered.
LedgerBounds ==
  /\ fills \in [Rows -> Nat]
  /\ \A r \in Rows : row[r].qty \in Nat /\ fills[r] <= row[r].qty

\* The rows reported filled.
Closed == {r \in Rows : row[r].status = "filled"}

\* What is recorded is recorded for good, and a row reported filled is done with.
LedgerOnlyGrows ==
  /\ \A r \in Rows : fills[r] <= fills'[r]
  /\ \A r \in Closed : r \in Closed' /\ fills'[r] = fills[r]

\* A step of OrderLedger records within the order, takes nothing back, and leaves closed
\* rows alone.
LEMMA LedgerStep ==
  ASSUME LedgerBounds, [Ledger!Next]_(Ledger!vars)
  PROVE  LedgerBounds' /\ LedgerOnlyGrows
<1> DEFINE ordered == [r \in Rows |-> row[r].qty]
<1>1. CASE UNCHANGED Ledger!vars
  <2>1. ordered' = ordered /\ fills' = fills /\ Closed' = Closed
    BY <1>1 DEF Ledger!vars, Closed
  <2>2. \A r \in Rows : row'[r].qty = row[r].qty
    <3>1. ASSUME NEW r \in Rows PROVE ordered'[r] = row'[r].qty /\ ordered[r] = row[r].qty
      OBVIOUS
    <3> HIDE DEF ordered
    <3> QED BY <2>1, <3>1
  <2> QED BY <2>1, <2>2 DEF LedgerBounds, LedgerOnlyGrows, Closed
<1>2. ASSUME NEW x \in Rows, NEW q \in 1 .. MaxQty, Ledger!Order(x, q)
      PROVE  LedgerBounds' /\ LedgerOnlyGrows
  <2>1. ordered[x] = 0 /\ ordered' = [ordered EXCEPT ![x] = q] /\ fills' = fills /\ Closed' = Closed
    BY <1>2 DEF Ledger!Order, Closed
  <2>2. \A r \in Rows : row'[r].qty = IF r = x THEN q ELSE row[r].qty
    <3>1. ASSUME NEW r \in Rows PROVE ordered'[r] = row'[r].qty /\ ordered[r] = row[r].qty
      OBVIOUS
    <3>2. DOMAIN ordered = Rows
      OBVIOUS
    <3> HIDE DEF ordered
    <3> QED BY <2>1, <3>1, <3>2
  <2>3. row[x].qty = 0 /\ q \in Nat
    BY <2>1, QtyAssumption
  <2> QED BY <2>1, <2>2, <2>3 DEF LedgerBounds, LedgerOnlyGrows, Closed
<1>3. ASSUME NEW x \in Rows, NEW n \in 0 .. MaxQty, NEW close \in {{}, {x}}, Ledger!Record(x, n, close)
      PROVE  LedgerBounds' /\ LedgerOnlyGrows
  <2>1. /\ x \notin Closed /\ n \in fills[x] .. ordered[x]
        /\ fills' = [fills EXCEPT ![x] = n] /\ Closed' = Closed \cup close /\ ordered' = ordered
    BY <1>3 DEF Ledger!Record, Closed
  <2>2. \A r \in Rows : row'[r].qty = row[r].qty
    <3>1. ASSUME NEW r \in Rows PROVE ordered'[r] = row'[r].qty /\ ordered[r] = row[r].qty
      OBVIOUS
    <3> HIDE DEF ordered
    <3> QED BY <2>1, <3>1
  <2>3. fills[x] <= n /\ n <= row[x].qty /\ n \in Nat
    BY <2>1, QtyAssumption DEF LedgerBounds
  <2>4. Closed \subseteq Rows
    BY DEF Closed
  <2> HIDE DEF ordered
  <2>5. LedgerBounds'
    BY <2>1, <2>2, <2>3 DEF LedgerBounds
  <2>6. LedgerOnlyGrows
    <3> USE <2>1, <2>3, <2>4 DEF LedgerBounds
    <3>1. \A r \in Rows : fills[r] <= fills'[r]
      OBVIOUS
    <3>2. \A r \in Closed : r \in Closed' /\ fills'[r] = fills[r]
      OBVIOUS
    <3> QED BY <3>1, <3>2 DEF LedgerOnlyGrows
  <2> QED BY <2>5, <2>6
<1> QED BY <1>1, <1>2, <1>3 DEF Ledger!Next

\* With one poller and no reconciliation fills are only ever added to a row, and a row
\* reported filled keeps its fills and its status: what was reported to the operator and
\* counted into the position is never taken back.
THEOREM RecordedForGood == ASSUME Alone PROVE Spec => [][LedgerOnlyGrows]_vars
<1>1. Init => LedgerBounds
  BY DEF Init, LedgerBounds, NoRow
<1>2. LedgerBounds /\ [Ledger!Next]_(Ledger!vars) => LedgerBounds' /\ LedgerOnlyGrows
  BY LedgerStep
<1>3. Spec => [][Ledger!Next]_(Ledger!vars)
  BY LedgerImplemented, PTL DEF LedgerSpec, Ledger!Spec
<1>4. LedgerOnlyGrows => [LedgerOnlyGrows]_vars
  OBVIOUS
<1> QED BY <1>1, <1>2, <1>3, <1>4, PTL DEF Spec

-------------------------------------------------------------------------------
(* What is executed is recorded in the end *)

\* A row with its own number has an order and is open or filled; as submitted it has
\* recorded nothing, as filled all there will ever be.
RecordOk(r) == row[r].kis = r =>
  /\ kis[r] # Unsent
  /\ row[r].status \in {"submitted", "partial", "filled"}
  /\ row[r].status = "submitted" => fills[r] = 0
  /\ account = "real" /\ row[r].status = "filled" => fills[r] >= kis[r].done /\ ~kis[r].live

\* An order that had ended when a list was read is as the list says.
EndsKnown(list) == \A k \in Rows :
  list[k] # Unsent /\ ~list[k].live => ~kis[k].live /\ kis[k].done = list[k].done

FullInv == /\ \A r \in Rows : RecordOk(r)
           /\ \A p \in Pollers : EndsKnown(poller[p].list)

\* What holds without the reconciliation.
PollsOnly == IInv /\ ReadInv /\ Unreconciled /\ FullInv

\* An order that has ended stays as it is.
LEMMA EndedStays ==
  ASSUME IInv, [Next]_vars, NEW k \in Rows, kis[k] # Unsent, ~kis[k].live
  PROVE  kis'[k] = kis[k]
<1>1. ASSUME NEW x \in Rows, NEW q, Accept(x, q) PROVE kis'[k] = kis[k]
  BY <1>1 DEF Accept, IInv, TypeInv
<1>2. ASSUME NEW x \in Rows, NEW q, Submitted(x, q) PROVE kis'[k] = kis[k]
  BY <1>1, <1>2 DEF Submitted
<1>3. ASSUME NEW x \in Rows, Execute(x) \/ Expire(x) PROVE kis'[k] = kis[k]
  <2>1. x # k
    BY <1>3 DEF Execute, Expire
  <2> QED BY <1>3, <2>1 DEF Execute, Expire, IInv, TypeInv
<1>4. ASSUME NEW p \in Pollers, PollStep(p) PROVE kis'[k] = kis[k]
  <2>1. CASE Reorder(p)
    BY <1>1, <1>2, <2>1 DEF Reorder
  <2>2. CASE ~Reorder(p)
    BY <1>4, <2>2 DEF PollStep, PollStart, PollListed, PollFails, PollMatch, PollTotal,
       TotalAnswer, TotalApply, TotalFails, PollEnd, broker
  <2> QED BY <2>1, <2>2
<1>5. CASE EodStart \/ EodList \/ EodMatch \/ Restart \/ UNCHANGED vars
  BY <1>5 DEF EodStart, EodList, EodMatch, Restart, broker, vars
<1>6. ASSUME NEW x \in Rows, Submit(x) PROVE kis'[k] = kis[k]
  BY <1>2, <1>6 DEF Submit
<1> QED BY <1>3, <1>4, <1>5, <1>6 DEF Next
\* An order that was accepted is not taken back.
LEMMA AcceptedStays ==
  ASSUME IInv, [Next]_vars, NEW k \in Rows, kis[k] # Unsent
  PROVE  kis'[k] # Unsent
<1>1. CASE ~kis[k].live
  BY <1>1, EndedStays
<1>2. CASE kis[k].live
  <2>1. kis[k] \in KisOrder /\ kis[k].qty # 0
    BY <1>2, QtyAssumption DEF IInv, TypeInv, OrderInv, KisOrder
  <2>2. ASSUME NEW x \in Rows, NEW q, Accept(x, q) PROVE kis'[k] = kis[k]
    BY <2>2 DEF Accept, IInv, TypeInv
  <2>3. ASSUME NEW x \in Rows, NEW q, Submitted(x, q) PROVE kis'[k] = kis[k]
    BY <2>2, <2>3 DEF Submitted
  <2>4. ASSUME NEW x \in Rows, Execute(x) \/ Expire(x) PROVE kis'[k].qty = kis[k].qty
    <3>1. PICK n, b : \/ kis' = [kis EXCEPT ![x].done = n, ![x].live = b]
                      \/ kis' = [kis EXCEPT ![x].live = b]
      BY <2>4 DEF Execute, Expire
    <3> QED BY <3>1 DEF IInv, TypeInv, KisOrder
  <2>5. ASSUME NEW p \in Pollers, PollStep(p) PROVE kis'[k] = kis[k]
    <3>1. CASE Reorder(p)
      BY <2>2, <2>3, <3>1 DEF Reorder
    <3>2. CASE ~Reorder(p)
      BY <2>5, <3>2 DEF PollStep, PollStart, PollListed, PollFails, PollMatch, PollTotal,
         TotalAnswer, TotalApply, TotalFails, PollEnd, broker
    <3> QED BY <3>1, <3>2
  <2>6. ASSUME EodStart \/ EodList \/ EodMatch \/ Restart \/ UNCHANGED vars
        PROVE  kis'[k] = kis[k]
    BY <2>6 DEF EodStart, EodList, EodMatch, Restart, broker, vars
  <2>7. ASSUME NEW x \in Rows, Submit(x) PROVE kis'[k] = kis[k]
    BY <2>3, <2>7 DEF Submit
  <2>8. kis'[k] = kis[k] \/ kis'[k].qty = kis[k].qty
    BY <2>4, <2>5, <2>6, <2>7 DEF Next
  <2> QED BY <2>1, <2>8 DEF Unsent
<1> QED BY <1>1, <1>2

\* A poll has the list it had, none, or the one KIS answers with.
LEMMA ListsOf ==
  ASSUME IInv, ReadInv, [Next]_vars, NEW p \in Pollers
  PROVE  poller'[p].list \in {poller[p].list, NoList, Listed}
<1>1. ASSUME NEW q \in Pollers, PollStep(q), ~TotalAnswer(q)
      PROVE  poller'[p].list \in {poller[p].list, NoList, Listed}
  <2>1. PICK x : Onward(q, x)
    BY <1>1, PollMoves
  <2>2. CASE p = q
    BY <2>1, <2>2 DEF Onward, IInv, TypeInv
  <2>3. CASE p # q
    BY <2>1, <2>3 DEF Onward, IInv, TypeInv
  <2> QED BY <2>2, <2>3
<1>2. ASSUME NEW q \in Pollers, TotalAnswer(q) PROVE poller'[p].list = poller[p].list
  <2>1. PICK n : poller' = [poller EXCEPT ![q].total = n]
    BY <1>2 DEF TotalAnswer
  <2>2. poller[q] \in Poll
    BY DEF IInv, TypeInv
  <2>3. [poller[q] EXCEPT !.total = n].list = poller[q].list
    BY <2>2 DEF Poll
  <2> QED BY <2>1, <2>3 DEF IInv, TypeInv
<1>3. CASE Restart
  BY <1>3 DEF Restart, IdlePoll
<1>4. CASE \/ \E r \in Rows : Submit(r) \/ Execute(r) \/ Expire(r)
           \/ EodStart \/ EodList \/ EodMatch \/ UNCHANGED vars
  BY <1>4 DEF Submit, Execute, Expire, EodStart, EodList, EodMatch, vars
<1> QED BY <1>1, <1>2, <1>3, <1>4 DEF Next

\* What a list says of ended orders stays true.
LEMMA EndsStay ==
  ASSUME IInv, ReadInv, FullInv, [Next]_vars, NEW p \in Pollers
  PROVE  EndsKnown(poller[p].list)'
<1> SUFFICES ASSUME NEW k \in Rows, poller'[p].list[k] # Unsent, ~poller'[p].list[k].live
             PROVE  ~kis'[k].live /\ kis'[k].done = poller'[p].list[k].done
  BY DEF EndsKnown
<1>1. poller'[p].list \in {poller[p].list, Listed}
  BY ListsOf DEF NoList
<1>2. CASE poller'[p].list = poller[p].list
  <2>1. kis[k] # Unsent
    BY <1>2 DEF IInv, PollInv, PollOk, Snapshot
  <2>2. ~kis[k].live /\ kis[k].done = poller[p].list[k].done
    BY <1>2 DEF FullInv, EndsKnown
  <2> QED BY <1>2, <2>1, <2>2, EndedStays
<1>3. CASE poller'[p].list = Listed
  <2>1. poller'[p].list[k] = kis[k]
    BY <1>3 DEF Listed
  <2> QED BY <2>1, EndedStays
<1> QED BY <1>1, <1>2, <1>3

\* Row r takes n executed shares and gets status s; the other rows stay.
Enters(r, n, s) ==
  /\ \A x \in Rows \ {r} : row'[x] = row[x] /\ fills'[x] = fills[x]
  /\ row'[r].kis = row[r].kis
  /\ row'[r].status = s
  /\ fills'[r] >= fills[r] /\ fills'[r] >= n

LEMMA Entering ==
  ASSUME IInv, NEW r \in Rows, NEW n \in 1 .. row[r].qty
  PROVE  /\ MarkedFilled(r, n, row[r].kis) => Enters(r, n, "filled")
         /\ MarkedPartial(r, n) => Enters(r, n, "partial")
<1>1. /\ row[r] \in Row /\ row[r].qty \in Nat /\ fills[r] \in Nat /\ n \in Nat
      /\ row \in [Rows -> Row] /\ fills \in [Rows -> Nat]
  BY QtyAssumption DEF IInv, TypeInv, Row
<1>2. AtMost(row[r].qty, n) = n
  BY <1>1 DEF AtMost
<1>3. ASSUME MarkedFilled(r, n, row[r].kis) PROVE Enters(r, n, "filled")
  <2>1. /\ fills' = [fills EXCEPT ![r] = IF n > @ THEN n ELSE @]
        /\ row' = [row EXCEPT ![r].status = "filled", ![r].kis = row[r].kis]
    BY <1>2, <1>3 DEF MarkedFilled
  <2>2. row'[r].kis = row[r].kis /\ row'[r].status = "filled"
    BY <1>1, <2>1 DEF Row
  <2> QED BY <1>1, <2>1, <2>2 DEF Enters
<1>4. ASSUME MarkedPartial(r, n) PROVE Enters(r, n, "partial")
  <2>1. row'[r].kis = row[r].kis /\ row'[r].status = "partial"
    BY <1>1, <1>4 DEF MarkedPartial, Row
  <2> QED BY <1>1, <1>4, <2>1 DEF MarkedPartial, Enters
<1> QED BY <1>3, <1>4

\* The row of a poll.
LEMMA LoadedRow ==
  ASSUME IInv, Unreconciled, NEW p \in Pollers, NEW r \in Rows,
         r \in poller[p].todo \/ (poller[p].pc = "total" /\ poller[p].cur = r)
  PROVE  /\ row[r].kis = r /\ poller[p].seen[r].kis = r /\ Known(r)
         /\ kis[r] # Unsent => kis[r].qty = row[r].qty
  BY DEF IInv, RowInv, RowOk, PollInv, PollOk, Loaded, Unreconciled, OwnNumbers, Foreign

\* Stage 1 of a poll lets a row go, or enters what the list says.
LEMMA MatchEnters ==
  ASSUME PollsOnly, NEW p \in Pollers, NEW r \in Rows, PollMatch(p, r)
  PROVE  LET order == poller[p].list[r]
         IN  /\ UNCHANGED kis /\ order # Unsent /\ order.done \in 1 .. row[r].qty
             /\ \/ Skip(p, r) /\ UNCHANGED ledger
                \/ /\ ~Skip(p, r)
                   /\ \/ Enters(r, order.done, "partial")
                      \/ /\ Enters(r, order.done, "filled")
                         /\ ~kis[r].live /\ kis[r].done = order.done
<1> DEFINE order == poller[p].list[r]
<1>1. r \in poller[p].todo /\ UNCHANGED kis /\ ListedOrder(p, r) # Unsent
  BY DEF PollMatch, Unmatched, broker
<1>2. /\ row[r].kis = r /\ Known(r) /\ ListedOrder(p, r) = order
      /\ kis[r] # Unsent => kis[r].qty = row[r].qty
  BY <1>1, LoadedRow DEF PollsOnly, ListedOrder
<1>3. /\ order \in KisOrder /\ kis[r] \in KisOrder /\ order # Unsent
      /\ kis[r] # Unsent /\ order.qty = kis[r].qty
      /\ order.done \in 1 .. order.qty
      /\ order.done <= kis[r].done
      /\ kis[r].done <= kis[r].qty /\ (kis[r].live => kis[r].done < kis[r].qty)
      /\ ~order.live => ~kis[r].live /\ kis[r].done = order.done
  BY <1>1, <1>2 DEF PollsOnly, IInv, TypeInv, Poll, PollInv, PollOk, Snapshot, OrderInv, ReadInv, Reads,
     FullInv, EndsKnown
<1> HIDE DEF order
<1>4. order.done \in 1 .. row[r].qty
  BY <1>2, <1>3
<1>5. order.done = order.qty \/ ~order.live => ~kis[r].live /\ kis[r].done = order.done
  BY <1>3, QtyAssumption DEF KisOrder
<1>6. \/ Skip(p, r) /\ UNCHANGED ledger
      \/ /\ ~Skip(p, r)
         /\ \/ MarkedPartial(r, order.done)
            \/ /\ MarkedFilled(r, order.done, row[r].kis)
               /\ order.done = order.qty \/ ~order.live
  BY <1>2 DEF PollMatch, Completes, Stalls, ledger
<1>7. /\ MarkedFilled(r, order.done, row[r].kis) => Enters(r, order.done, "filled")
      /\ MarkedPartial(r, order.done) => Enters(r, order.done, "partial")
  BY <1>4, Entering DEF PollsOnly
<1>8. /\ UNCHANGED kis /\ order # Unsent /\ order.done \in 1 .. row[r].qty
      /\ \/ Skip(p, r) /\ UNCHANGED ledger
         \/ /\ ~Skip(p, r)
            /\ \/ Enters(r, order.done, "partial")
               \/ /\ Enters(r, order.done, "filled")
                  /\ ~kis[r].live /\ kis[r].done = order.done
  BY <1>1, <1>3, <1>4, <1>5, <1>6, <1>7
<1> QED BY <1>8 DEF order

\* Stage 2 enters a share of the total, the whole order only when all of it is executed.
LEMMA TotalEnters ==
  ASSUME PollsOnly, NEW p \in Pollers, TotalApply(p), ~ UNCHANGED ledger
  PROVE  LET r == poller[p].cur
         IN  /\ UNCHANGED kis /\ r \in Rows /\ row[r].kis = r
             /\ \E n \in 1 .. row[r].qty :
                  \/ Enters(r, n, "partial")
                  \/ /\ Enters(r, n, "filled")
                     /\ account = "real" => ~kis[r].live /\ kis[r].done <= n
<1> DEFINE r == poller[p].cur
<1> DEFINE n == Isolated(r, poller[p].total)
<1>1. r \in Rows /\ UNCHANGED kis /\ poller[p].pc = "total" /\ poller[p].total \in Int
  BY QtyAssumption DEF PollsOnly, TotalApply, IInv, TypeInv, Poll, PollInv, PollOk, broker
<1>2. /\ row[r].kis = r /\ poller[p].seen[r].kis = r /\ Known(r)
      /\ kis[r] # Unsent => kis[r].qty = row[r].qty
  BY <1>1, LoadedRow DEF PollsOnly
<1>3. /\ row[r].qty \in Nat /\ row[r].qty >= 1 /\ kis[r] # Unsent
      /\ kis[r].done \in Nat /\ kis[r].qty = row[r].qty
      /\ kis[r].done <= kis[r].qty /\ (kis[r].live => kis[r].done < kis[r].qty)
  BY <1>1, <1>2, QtyAssumption DEF PollsOnly, IInv, TypeInv, Row, KisOrder, RowInv, RowOk, OrderInv,
     FullInv, RecordOk
<1>4. account = "real" => poller[p].total <= kis[r].done
  BY <1>1, <1>2 DEF PollsOnly, ReadInv, Reads
<1>5. Total(fills, Rows \ {r}) \in Nat
  BY SumsNat DEF PollsOnly, IInv
<1>6. n = AtMost(row[r].qty, poller[p].total - Total(fills, Rows \ {r}))
  BY Sums DEF Isolated
<1>7. n \in Int /\ n <= row[r].qty /\ n <= poller[p].total
  BY <1>1, <1>3, <1>5, <1>6 DEF AtMost
<1>8. \/ n = row[r].qty /\ MarkedFilled(r, n, row[r].kis)
      \/ n \in 1 .. (row[r].qty - 1) /\ MarkedPartial(r, n)
  BY DEF TotalApply, Completes, Stalls, ledger
<1> HIDE DEF n, r
<1>9. n \in 1 .. row[r].qty
  BY <1>3, <1>8
<1>10. /\ MarkedFilled(r, n, row[r].kis) => Enters(r, n, "filled")
       /\ MarkedPartial(r, n) => Enters(r, n, "partial")
  BY <1>1, <1>9, Entering DEF PollsOnly
<1>11. n = row[r].qty /\ account = "real" => ~kis[r].live /\ kis[r].done <= n
  BY <1>3, <1>4, <1>7, <1>1
<1>12. /\ UNCHANGED kis /\ r \in Rows /\ row[r].kis = r
       /\ \E m \in 1 .. row[r].qty :
            \/ Enters(r, m, "partial")
            \/ /\ Enters(r, m, "filled")
               /\ account = "real" => ~kis[r].live /\ kis[r].done <= m
  BY <1>1, <1>2, <1>8, <1>9, <1>10, <1>11
<1> QED BY <1>12 DEF r

\* What becomes of row x in a step without the reconciliation: nothing, a new order, or an entry.
Sent(x) == /\ row[x] = NoRow /\ fills'[x] = fills[x]
           /\ row'[x].kis = x => row'[x].status = "submitted" /\ kis'[x] # Unsent

Entered(x) ==
  /\ UNCHANGED kis /\ row'[x].kis = row[x].kis /\ row[x].kis = x
  /\ fills'[x] >= fills[x] /\ fills'[x] >= 1
  /\ \/ row'[x].status = "partial"
     \/ /\ row'[x].status = "filled"
        /\ account = "real" => ~kis[x].live /\ kis[x].done <= fills'[x]

RowSteps(x) == (row'[x] = row[x] /\ fills'[x] = fills[x]) \/ Sent(x) \/ Entered(x)

LEMMA EntersRow ==
  ASSUME IInv, IInv', NEW r \in Rows, NEW n \in 1 .. row[r].qty, NEW x \in Rows, UNCHANGED kis, row[r].kis = r,
         \/ Enters(r, n, "partial")
         \/ Enters(r, n, "filled") /\ (account = "real" => ~kis[r].live /\ kis[r].done <= n)
  PROVE  RowSteps(x)
<1>1. CASE x # r
  BY <1>1 DEF Enters, RowSteps
<1>2. CASE x = r
  <2>1. fills'[r] \in Nat /\ kis[r].done \in Nat /\ n \in Nat /\ n >= 1
    BY QtyAssumption DEF IInv, TypeInv, KisOrder, Row
  <2> QED BY <1>2, <2>1 DEF Enters, RowSteps, Entered
<1> QED BY <1>1, <1>2

LEMMA SendsRow ==
  ASSUME IInv, NEW r \in Rows, NEW q \in 1 .. MaxQty, Submitted(r, q), UNCHANGED fills, NEW x \in Rows
  PROVE  RowSteps(x)
<1>1. CASE x # r
  BY <1>1 DEF Submitted, RowSteps, IInv, TypeInv
<1>2. CASE x = r
  <2>1. CASE row' = [row EXCEPT ![r] = [status |-> "submitted", qty |-> q, kis |-> r]] /\ Accept(r, q)
    <3>1. row'[r].status = "submitted"
      BY <2>1 DEF IInv, TypeInv
    <3>2. kis'[r].live
      BY <2>1 DEF Accept, IInv, TypeInv
    <3> QED BY <1>2, <3>1, <3>2 DEF Submitted, RowSteps, Sent, Unsent
  <2>2. CASE row' = [row EXCEPT ![r] = [status |-> "uncertain", qty |-> q, kis |-> NoOrder]]
    <3>1. row'[r].kis = NoOrder
      BY <2>2 DEF IInv, TypeInv
    <3> QED BY <1>2, <3>1, RowsAssumption DEF Submitted, RowSteps, Sent
  <2> QED BY <2>1, <2>2 DEF Submitted
<1> QED BY <1>1, <1>2

LEMMA RowStep ==
  ASSUME PollsOnly, IInv', ~Reconciles, [Next]_vars, NEW x \in Rows
  PROVE  RowSteps(x)
<1>1. CASE UNCHANGED ledger
  BY <1>1 DEF RowSteps, ledger
<1>2. ~EodStart /\ ~EodList /\ ~EodMatch
  BY DEF EodStart, EodList, EodMatch, PollsOnly, Unreconciled, IdleEod
<1>3. ASSUME NEW r \in Rows, Submit(r) PROVE RowSteps(x)
  BY <1>3, SendsRow DEF Submit, PollsOnly
<1>4. ASSUME NEW p \in Pollers, NEW r \in Rows, PollMatch(p, r) PROVE RowSteps(x)
  <2>1. r \in poller[p].todo
    BY <1>4 DEF PollMatch
  <2>2. row[r].kis = r
    BY <2>1, LoadedRow DEF PollsOnly
  <2>3. kis[r].done \in Nat /\ row[r].qty \in Nat
    BY QtyAssumption DEF PollsOnly, IInv, TypeInv, KisOrder, Row
  <2>4. CASE UNCHANGED ledger
    BY <1>1, <2>4
  <2>5. CASE ~ UNCHANGED ledger
    <3>1. PICK n \in 1 .. row[r].qty :
             /\ UNCHANGED kis
             /\ \/ Enters(r, n, "partial")
                \/ Enters(r, n, "filled") /\ ~kis[r].live /\ kis[r].done = n
      BY <1>4, <2>5, MatchEnters
    <3> QED BY <2>2, <2>3, <3>1, EntersRow DEF PollsOnly
  <2> QED BY <2>4, <2>5
<1>5. ASSUME NEW p \in Pollers, TotalApply(p) PROVE RowSteps(x)
  <2>1. CASE UNCHANGED ledger
    BY <1>1, <2>1
  <2>2. CASE ~ UNCHANGED ledger
    <3>1. PICK r \in Rows, n \in Int :
             /\ UNCHANGED kis /\ row[r].kis = r /\ n \in 1 .. row[r].qty
             /\ \/ Enters(r, n, "partial")
                \/ /\ Enters(r, n, "filled")
                   /\ account = "real" => ~kis[r].live /\ kis[r].done <= n
      BY <1>5, <2>2, TotalEnters
    <3> QED BY <3>1, EntersRow DEF PollsOnly
  <2> QED BY <2>1, <2>2
<1>6. ASSUME NEW p \in Pollers, Reorder(p) PROVE RowSteps(x)
  <2>1. poller[p].rmn \in 1 .. MaxQty /\ UNCHANGED fills
    BY <1>6, QtyAssumption DEF Reorder, PollsOnly, IInv, TypeInv, PollInv, PollOk, Poll
  <2>2. ASSUME NEW m \in Rows, Submitted(m, poller[p].rmn) PROVE RowSteps(x)
    BY <2>1, <2>2, SendsRow DEF PollsOnly
  <2>3. CASE UNCHANGED row
    BY <2>1, <2>3 DEF RowSteps
  <2> QED BY <1>6, <2>2, <2>3 DEF Reorder
<1>7. ASSUME NEW p \in Pollers, PollStep(p), ~TotalApply(p), ~Reorder(p), \A r \in Rows : ~PollMatch(p, r)
      PROVE  UNCHANGED ledger
  BY <1>7 DEF PollStep, PollStart, PollListed, PollFails, PollTotal, TotalAnswer, TotalFails, PollEnd
<1>8. CASE (\E r \in Rows : Execute(r) \/ Expire(r)) \/ Restart \/ UNCHANGED vars
  BY <1>1, <1>8 DEF Execute, Expire, Restart, ledger, vars
<1> QED BY <1>1, <1>2, <1>3, <1>4, <1>5, <1>6, <1>7, <1>8 DEF Next

\* The ledger stays complete.
LEMMA FullKept ==
  ASSUME PollsOnly, IInv', ~Reconciles, [Next]_vars
  PROVE  FullInv'
<1>1. ASSUME NEW x \in Rows, (row[x].kis = x => kis[x] # Unsent) PROVE RecordOk(x)'
  <2>1. row \in [Rows -> Row] /\ RecordOk(x) /\ account' = account /\ fills[x] \in Nat /\ fills'[x] \in Nat
    BY StepsExecuteOnly DEF PollsOnly, IInv, TypeInv, FullInv
  <2>2. CASE row'[x] = row[x] /\ fills'[x] = fills[x]
    <3>1. row[x].kis = x => kis'[x] # Unsent /\ (~kis[x].live => kis'[x] = kis[x])
      BY <1>1, AcceptedStays, EndedStays DEF PollsOnly
    <3> QED BY <2>1, <2>2, <3>1 DEF RecordOk
  <2>3. CASE Sent(x)
    <3>1. fills'[x] = 0
      BY <2>1, <2>3, QtyAssumption, RowsAssumption DEF Sent, PollsOnly, IInv, RowInv, RowOk, NoRow, Foreign
    <3> QED BY <2>3, <3>1 DEF Sent, RecordOk
  <2>4. CASE Entered(x)
    BY <1>1, <2>1, <2>4 DEF Entered, RecordOk
  <2> QED BY <2>2, <2>3, <2>4, RowStep DEF RowSteps
<1>2. \A x \in Rows : row[x].kis = x => kis[x] # Unsent
  BY DEF PollsOnly, FullInv, RecordOk
<1>3. \A p \in Pollers : EndsKnown(poller[p].list)'
  BY EndsStay DEF PollsOnly
<1> QED BY <1>1, <1>2, <1>3 DEF FullInv

\* Without the reconciliation, what a poll closes is complete.
LEMMA PollsInvariance == ASSUME ~Reconciles PROVE Spec => []PollsOnly
<1>1. Init => Unreconciled /\ FullInv
  BY RowsAssumption DEF Init, Unreconciled, OwnNumbers, Foreign, NoRow, FullInv, RecordOk, EndsKnown,
     IdlePoll, NoList
<1>2. IInv /\ Unreconciled /\ [Next]_vars => Unreconciled'
  BY NumbersOwn
<1>3. PollsOnly /\ IInv' /\ [Next]_vars => FullInv'
  BY FullKept
<1>4. PollsOnly <=> IInv /\ ReadInv /\ Unreconciled /\ FullInv
  BY DEF PollsOnly
<1> QED BY <1>1, <1>2, <1>3, <1>4, Invariance, ReadsInvariance, PTL DEF Spec

\* n shares of row r are executed; they are not recorded yet, with something recorded of
\* the row or nothing (z); what comes of it: all of them are, or the first share is.
Marks           == {"none", "some"}
Owed(r, n)      == account = "real" /\ row[r].kis = r /\ kis[r].done >= n
Short(r, n, z)  == Owed(r, n) /\ fills[r] < n /\ (z = "some" <=> fills[r] > 0)
Gained(r, n, z) == fills[r] >= n \/ (z = "none" /\ Short(r, n, "some"))
Gains(r, n, z)  == Short(r, n, z) ~> Gained(r, n, z)

\* While row r is short, poller p is idle, asks for the orders with r among its rows, or has
\* an answer that shows the n shares. It does not skip r.
Holds(p, r, z)      == r \in poller[p].todo /\ (z = "some" => poller[p].seen[r].status = "partial")
Unasked(p, r, n, z) == Short(r, n, z) /\ poller[p].pc = "idle"
Asking(p, r, n, z)  == Short(r, n, z) /\ poller[p].pc = "list" /\ Holds(p, r, z)
Hearing(p, r, n, z) ==
  /\ Short(r, n, z) /\ poller[p].pc \in {"match", "reorder"} /\ Holds(p, r, z)
  /\ poller[p].list[r] # Unsent /\ poller[p].list[r].done >= n

\* A row that is short stays so until something is recorded.
LEMMA ShortStays ==
  ASSUME PollsOnly, IInv', ~Reconciles, [Next]_vars, NEW r \in Rows, NEW n \in 1 .. MaxQty,
         NEW z \in Marks, Short(r, n, z)
  PROVE  Short(r, n, z)' \/ Gained(r, n, z)'
<1>1. /\ fills[r] \in Nat /\ fills'[r] \in Nat /\ n \in Nat
      /\ kis[r].done \in Nat /\ kis'[r].done \in Nat
  BY QtyAssumption DEF PollsOnly, IInv, TypeInv, KisOrder
<1>2. account' = account /\ kis'[r].done >= kis[r].done
  BY <1>1, StepsExecuteOnly DEF PollsOnly, ExecutedOnly
<1>3. row[r] # NoRow
  BY RowsAssumption DEF Short, Owed, NoRow
<1>4. row'[r].kis = r /\ fills'[r] >= fills[r]
  BY <1>1, <1>3, RowStep DEF RowSteps, Sent, Entered, Short, Owed
<1>5. Owed(r, n)'
  BY <1>1, <1>2, <1>4 DEF Short, Owed
<1> QED BY <1>1, <1>4, <1>5 DEF Short, Gained, Marks

\* It is open; once something is recorded it is no longer as submitted.
LEMMA ShortIsOpen ==
  ASSUME PollsOnly, NEW r \in Rows, NEW n \in 1 .. MaxQty, NEW z \in Marks, Short(r, n, z)
  PROVE  row[r].status \in Polled /\ (z = "some" => row[r].status = "partial")
<1>1. fills[r] \in Nat /\ n \in Nat /\ kis[r].done \in Nat
  BY QtyAssumption DEF PollsOnly, IInv, TypeInv, KisOrder
<1> QED BY <1>1 DEF PollsOnly, FullInv, RecordOk, Short, Owed, Polled

\* Only its own steps and restarts move a poller.
LEMMA PollerStays ==
  ASSUME IInv, [Next]_vars, [~Restart]_vars, NEW p \in Pollers
  PROVE  PollStep(p) \/ poller'[p] = poller[p]
<1>1. ASSUME NEW q \in Pollers, PollStep(q), q # p PROVE poller'[p] = poller[p]
  <2>1. PICK x : poller' = [poller EXCEPT ![q] = x]
    <3>1. CASE TotalAnswer(q)
      BY <3>1 DEF TotalAnswer, IInv, TypeInv
    <3>2. CASE PollStart(q) \/ PollFails(q) \/ PollEnd(q) \/ TotalFails(q) \/ \E r \in Rows : PollTotal(q, r)
      BY <3>2 DEF PollStart, PollFails, PollEnd, TotalFails, PollTotal
    <3>3. CASE PollListed(q) \/ Reorder(q)
      BY <3>3 DEF PollListed, Reorder, IInv, TypeInv
    <3>4. CASE TotalApply(q) \/ \E r \in Rows : PollMatch(q, r)
      BY <3>4 DEF TotalApply, PollMatch, Completes, Stalls
    <3> QED BY <1>1, <3>1, <3>2, <3>3, <3>4 DEF PollStep
  <2> QED BY <1>1, <2>1 DEF IInv, TypeInv
<1>2. ASSUME ~ \E q \in Pollers : PollStep(q) PROVE UNCHANGED poller
  BY <1>2 DEF Next, Submit, Execute, Expire, EodStart, EodList, EodMatch, vars
<1> QED BY <1>1, <1>2

\* An idle poller takes the row up with its next step.
LEMMA TakesUp ==
  ASSUME PollsOnly, IInv', ~Reconciles, [Next]_vars, [~Restart]_vars, NEW p \in Pollers,
         NEW r \in Rows, NEW n \in 1 .. MaxQty, NEW z \in Marks, Unasked(p, r, n, z)
  PROVE  /\ PollStep(p) => Asking(p, r, n, z)' \/ Gained(r, n, z)'
         /\ Unasked(p, r, n, z)' \/ Asking(p, r, n, z)' \/ Gained(r, n, z)'
<1>1. Short(r, n, z)' \/ Gained(r, n, z)'
  BY ShortStays DEF Unasked
<1>2. ASSUME PollStep(p) PROVE poller'[p].pc = "list" /\ Holds(p, r, z)'
  <2>1. PollStart(p)
    BY <1>2 DEF Unasked, PollStep, PollListed, PollFails, PollMatch, PollTotal, TotalAnswer, TotalApply,
       TotalFails, Reorder, PollEnd
  <2> DEFINE x == [IdlePoll EXCEPT !.pc = "list", !.seen = row,
                                   !.todo = {y \in Rows : row[y].status \in Polled}]
  <2>2. x.pc = "list" /\ x.seen = row /\ x.todo = {y \in Rows : row[y].status \in Polled}
    BY DEF IdlePoll
  <2>3. poller'[p] = x
    BY <2>1 DEF PollStart, PollsOnly, IInv, TypeInv
  <2>4. row[r].status \in Polled /\ (z = "some" => row[r].status = "partial")
    BY ShortIsOpen DEF Unasked
  <2> HIDE DEF x
  <2> QED BY <2>2, <2>3, <2>4 DEF Holds
<1>3. PollStep(p) \/ poller'[p] = poller[p]
  BY PollerStays DEF PollsOnly
<1> QED BY <1>1, <1>2, <1>3 DEF Unasked, Asking

\* The list, when KIS answers, shows the shares; an error ends the poll.
LEMMA AsksFor ==
  ASSUME PollsOnly, IInv', ~Reconciles, [Next]_vars, [~Restart]_vars, NEW p \in Pollers,
         NEW r \in Rows, NEW n \in 1 .. MaxQty, NEW z \in Marks, Asking(p, r, n, z)
  PROVE  /\ PollListed(p) => Hearing(p, r, n, z)' \/ Gained(r, n, z)'
         /\ \/ Asking(p, r, n, z)' \/ Hearing(p, r, n, z)'
            \/ Unasked(p, r, n, z)' \/ Gained(r, n, z)'
<1>1. Short(r, n, z)' \/ Gained(r, n, z)'
  BY ShortStays DEF Asking
<1>2. poller \in [Pollers -> Poll] /\ poller[p] \in Poll
  BY DEF PollsOnly, IInv, TypeInv
<1>3. ASSUME PollListed(p)
      PROVE  /\ poller'[p].pc = "match" /\ Holds(p, r, z)'
             /\ poller'[p].list[r] # Unsent /\ poller'[p].list[r].done >= n
  <2>1. /\ poller'[p].pc = "match" /\ poller'[p].list = Listed
        /\ poller'[p].todo = poller[p].todo /\ poller'[p].seen = poller[p].seen
    BY <1>2, <1>3 DEF PollListed, Poll
  <2>2. account = "real" /\ kis[r].done >= n /\ kis[r].done \in Nat /\ n \in Nat /\ n >= 1
    BY QtyAssumption DEF Asking, Short, Owed, PollsOnly, IInv, TypeInv, KisOrder
  <2>3. Listed[r] = kis[r] /\ kis[r] # Unsent
    BY <2>2 DEF Listed, Unsent
  <2> QED BY <2>1, <2>2, <2>3 DEF Holds, Asking
<1>4. ASSUME PollFails(p) PROVE poller'[p].pc = "idle"
  BY <1>2, <1>4 DEF PollFails, IdlePoll
<1>5. PollListed(p) \/ PollFails(p) \/ poller'[p] = poller[p]
  BY PollerStays DEF PollsOnly, Asking, PollStep, PollStart, PollMatch, PollTotal, TotalAnswer, TotalApply,
     TotalFails, Reorder, PollEnd
<1>6. poller'[p] = poller[p] => poller'[p].pc = "list" /\ Holds(p, r, z)'
  BY DEF Asking, Holds
<1> QED BY <1>1, <1>3, <1>4, <1>5, <1>6 DEF Unasked, Asking, Hearing

\* A poll that has heard of the shares does not let the row go without recording them.
LEMMA HearsOf ==
  ASSUME PollsOnly, IInv', ~Reconciles, [Next]_vars, [~Restart]_vars, NEW p \in Pollers,
         NEW r \in Rows, NEW n \in 1 .. MaxQty, NEW z \in Marks, Hearing(p, r, n, z)
  PROVE  Hearing(p, r, n, z)' \/ Gained(r, n, z)'
<1> DEFINE Stays == /\ poller'[p].pc \in {"match", "reorder"} /\ r \in poller'[p].todo
                    /\ poller'[p].seen = poller[p].seen /\ poller'[p].list = poller[p].list
<1>1. Short(r, n, z)' \/ Gained(r, n, z)'
  BY ShortStays DEF Hearing
<1>2. poller \in [Pollers -> Poll] /\ poller[p] \in Poll /\ r \in poller[p].todo
  BY DEF PollsOnly, IInv, TypeInv, Hearing, Holds
<1>3. Stays => Hearing(p, r, n, z)' \/ Gained(r, n, z)'
  BY <1>1 DEF Hearing, Holds
<1>4. CASE poller'[p] = poller[p]
  <2>1. Stays
    BY <1>4 DEF Hearing, Holds
  <2> QED BY <1>3, <2>1
<1>5. CASE PollMatch(p, r)
  <2>1. ~Skip(p, r)
    BY QtyAssumption DEF Skip, Hearing, Holds, Short
  <2>2. Enters(r, poller[p].list[r].done, "partial") \/ Enters(r, poller[p].list[r].done, "filled")
    BY <1>5, <2>1, MatchEnters
  <2>3. poller[p].list[r].done >= n /\ poller[p].list[r].done \in Nat /\ fills'[r] \in Nat /\ n \in Nat
    BY <1>2, QtyAssumption DEF Hearing, PollsOnly, IInv, TypeInv, Poll, KisOrder
  <2>4. fills'[r] >= n
    BY <2>2, <2>3 DEF Enters
  <2> QED BY <2>4 DEF Gained
<1>6. ASSUME NEW x \in Rows, x # r, PollMatch(p, x) PROVE Stays
  <2>1. \/ poller'[p] = Done(p, x)
        \/ \E m : poller'[p] = [Done(p, x) EXCEPT !.pc = "reorder", !.cur = x, !.rmn = m]
    BY <1>2, <1>6 DEF PollMatch, Completes, Stalls
  <2> DEFINE d == Done(p, x)
  <2>2. /\ d.pc = "match" /\ d.todo = poller[p].todo \ {x} /\ d.seen = poller[p].seen
        /\ d.list = poller[p].list
    BY <1>2 DEF Done, Poll
  <2>3. CASE poller'[p] = d
    BY <1>2, <1>6, <2>2, <2>3
  <2>4. ASSUME NEW m, poller'[p] = [d EXCEPT !.pc = "reorder", !.cur = x, !.rmn = m] PROVE Stays
    <3>1. /\ poller'[p].pc = "reorder" /\ poller'[p].todo = poller[p].todo \ {x}
          /\ poller'[p].seen = poller[p].seen /\ poller'[p].list = poller[p].list
      BY <1>2, <2>4 DEF Done, Poll
    <3> QED BY <1>2, <1>6, <3>1
  <2> QED BY <2>1, <2>3, <2>4
<1>7. ASSUME NEW x \in Rows, PollTotal(p, x) PROVE FALSE
  <2>1. r \in Unmatched(p)
    BY <1>2, <1>7 DEF PollTotal
  <2>2. poller[p].seen[r].kis = r
    BY <1>2, LoadedRow DEF PollsOnly
  <2> QED BY <2>1, <2>2 DEF Unmatched, ListedOrder, Hearing
<1>8. ASSUME Reorder(p) PROVE Stays
  BY <1>2, <1>8 DEF Reorder, Poll
<1>9. ~ \/ PollStart(p) \/ PollListed(p) \/ PollFails(p) \/ TotalAnswer(p)
        \/ TotalApply(p) \/ TotalFails(p) \/ PollEnd(p)
  BY <1>2 DEF Hearing, PollStart, PollListed, PollFails, TotalAnswer, TotalApply, TotalFails, PollEnd
<1>10. PollStep(p) \/ poller'[p] = poller[p]
  BY PollerStays DEF PollsOnly
<1> HIDE DEF Stays
<1> QED BY <1>3, <1>4, <1>5, <1>6, <1>7, <1>8, <1>9, <1>10 DEF PollStep

\* The fairness of the pollers is that of each, and so is the end of their polls.
LEMMA PollerRunsOn == ASSUME NEW p \in Pollers PROVE PollersRun => PollerRuns(p)
  BY DEF PollersRun

LEMMA PollerEnds == ASSUME NEW p \in Pollers PROVE PollsOver => PollEnds(p)
  BY DEF PollsOver

\* A row that is short gains: polls that end begin again, so the list is asked for again and
\* again, KIS answers at some time, and the poll that hears of the shares records them.
LEMMA ShortGains ==
  ASSUME ~Reconciles, NEW p \in Pollers, NEW r \in Rows, NEW n \in 1 .. MaxQty, NEW z \in Marks
  PROVE  FairSpec /\ []PollsCanRun /\ PollsOver /\ <>[][~Restart]_vars => Gains(r, n, z)
<1>1. PollsOnly /\ PollsOnly' /\ [Next]_vars /\ Short(r, n, z) => Short(r, n, z)' \/ Gained(r, n, z)'
  BY ShortStays DEF PollsOnly
<1>2. PollsOnly /\ PollsOnly' /\ [Next]_vars /\ [~Restart]_vars /\ Unasked(p, r, n, z) =>
        Unasked(p, r, n, z)' \/ Asking(p, r, n, z)' \/ Gained(r, n, z)'
  BY TakesUp DEF PollsOnly
<1>3. PollsOnly /\ PollsOnly' /\ [Next]_vars /\ [~Restart]_vars /\ Unasked(p, r, n, z) /\ <<PollStep(p)>>_vars =>
        Asking(p, r, n, z)' \/ Gained(r, n, z)'
  BY TakesUp DEF PollsOnly
<1>4. PollsOnly /\ PollsOnly' /\ [Next]_vars /\ [~Restart]_vars /\ Asking(p, r, n, z) =>
        Asking(p, r, n, z)' \/ Hearing(p, r, n, z)' \/ Unasked(p, r, n, z)' \/ Gained(r, n, z)'
  BY AsksFor DEF PollsOnly
<1>5. PollsOnly /\ PollsOnly' /\ [Next]_vars /\ [~Restart]_vars /\ Asking(p, r, n, z) /\ <<PollListed(p)>>_vars =>
        Hearing(p, r, n, z)' \/ Gained(r, n, z)'
  BY AsksFor DEF PollsOnly
<1>6. PollsOnly /\ PollsOnly' /\ [Next]_vars /\ [~Restart]_vars /\ Hearing(p, r, n, z) =>
        Hearing(p, r, n, z)' \/ Gained(r, n, z)'
  BY HearsOf DEF PollsOnly
<1>7. /\ PollsOnly /\ PollsCanRun /\ Unasked(p, r, n, z) => ENABLED <<PollStep(p)>>_vars
      /\ PollsCanRun /\ Asking(p, r, n, z) => ENABLED <<PollListed(p)>>_vars
  BY ShortIsOpen DEF PollsCanRun, Unasked, Asking
<1>8. /\ Unasked(p, r, n, z) <=> Short(r, n, z) /\ poller[p].pc = "idle"
      /\ Asking(p, r, n, z) => Short(r, n, z)
      /\ Hearing(p, r, n, z) => Short(r, n, z) /\ poller[p].pc # "idle"
      /\ poller[p].pc # "idle" <=> ~(poller[p].pc = "idle")
      /\ Unasked(p, r, n, z) => ~ <<PollListed(p)>>_vars
  BY DEF Unasked, Asking, Hearing, PollListed
<1>9. FairSpec => Spec /\ WF_vars(PollStep(p)) /\ SF_vars(PollListed(p))
  BY PollerRunsOn, PTL DEF FairSpec, PollerRuns
<1>10. FairSpec => []PollsOnly /\ [][Next]_vars
  BY PollsInvariance, PTL DEF FairSpec, Spec
<1>11. PollsOver => (poller[p].pc # "idle" ~> poller[p].pc = "idle")
  BY PollerEnds, PTL DEF PollEnds
<1>12. FairSpec /\ PollsOver /\ <>[][~Restart]_vars =>
         (Short(r, n, z) ~> Unasked(p, r, n, z) \/ Gained(r, n, z))
  BY <1>1, <1>8, <1>10, <1>11, PTL
<1>13. FairSpec /\ []PollsCanRun /\ PollsOver /\ <>[][~Restart]_vars =>
         (Unasked(p, r, n, z) ~> Gained(r, n, z))
  BY <1>2, <1>3, <1>4, <1>5, <1>6, <1>7, <1>8, <1>9, <1>10, <1>11, <1>12, <1>1, PTL
<1> QED BY <1>12, <1>13, PTL DEF Gains

\* What a real account executed of an order with a known number is recorded in the end,
\* whatever polls fail, stall, reorder or overlap, while the reconciliation does not run - if
\* a poll, once begun, comes to its end, and the process no longer restarts at some time.
\* That a poller has a step to take (PollsCanRun) is of ENABLED, that a poll ends (PollsOver) an
\* induction on its rows: TLC evaluates both.
THEOREM RecordedInTheEnd ==
  ASSUME ~Reconciles, NEW p \in Pollers
  PROVE  FairSpec /\ []PollsCanRun /\ PollsOver /\ <>[][~Restart]_vars => ExecutionsRecorded
<1>1. ASSUME NEW r \in Rows, NEW n \in 1 .. MaxQty
      PROVE  FairSpec /\ []PollsCanRun /\ PollsOver /\ <>[][~Restart]_vars =>
               (account = "real" /\ row[r].kis = r /\ kis[r].done >= n ~> fills[r] >= n)
  <2>1. FairSpec /\ []PollsCanRun /\ PollsOver /\ <>[][~Restart]_vars =>
          Gains(r, n, "none") /\ Gains(r, n, "some")
    BY ShortGains DEF Marks
  <2>2. PollsOnly /\ account = "real" /\ row[r].kis = r /\ kis[r].done >= n =>
          fills[r] >= n \/ Short(r, n, "none") \/ Short(r, n, "some")
    BY QtyAssumption DEF PollsOnly, IInv, TypeInv, Short, Owed
  <2>3. /\ Gained(r, n, "none") => fills[r] >= n \/ Short(r, n, "some")
        /\ Gained(r, n, "some") => fills[r] >= n
    BY DEF Gained
  <2>4. FairSpec => []PollsOnly
    BY PollsInvariance, PTL DEF FairSpec
  <2> QED BY <2>1, <2>2, <2>3, <2>4, PTL DEF Gains
<1> QED BY <1>1 DEF ExecutionsRecorded
===============================================================================

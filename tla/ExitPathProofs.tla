---------------------------- MODULE ExitPathProofs ----------------------------
(***************************************************************************)
(* Proofs about ExitPath for every set of tasks, rows and orders, every    *)
(* lot and both settings: its types, that unverified sells only exist side *)
(* by side when their guards overlapped, that no step leaves shares behind *)
(* unwatched without a sell order row, and, when execute_sell is never     *)
(* entered by two tasks, that there is at most one unverified sell and at  *)
(* most one sell of a part for profit.                                     *)
(***************************************************************************)
EXTENDS ExitPath, FiniteSetTheorems, TLAPS

-------------------------------------------------------------------------------
(* The inductive invariant *)

\* A row that is verified or given up never becomes an unverified sell again.
Settled(r) == rows[r].status \in {"filled", "partial", "cancelled"}

\* A task attached to the managed position has one to be attached to; a sell of
\* a part leaves a part.
TaskInv == \A t \in Tasks :
  /\ task[t].attached => Managed
  /\ task[t].kind = "harvest" /\ PastGuards(t) => task[t].left >= 1

\* The rows a sell found at its guards were settled then, and stay so.
TaskGuards == \A t \in Tasks : \A r \in task[t].older : Settled(r)
RowGuards  == \A s \in Rows : \A r \in rows[s].older : Settled(r)

IInv == TypeOK /\ TaskInv /\ TaskGuards /\ RowGuards

\* With one task the guards of a sell still hold when its row is saved.
SerialInv ==
  /\ \A t \in Tasks : PastGuards(t) => ActiveSells = {}
  /\ \A r, s \in ActiveSells : r = s

OneTask == \A s, t \in Tasks : s = t

-------------------------------------------------------------------------------
(* What the operators of execute_sell make of position and tasks *)

MaybePosition == Position \cup {NoPosition}

\* The part of IInv that a call of execute_sell may touch.
Core == /\ pos \in MaybePosition
        /\ closing \in BOOLEAN
        /\ task \in [Tasks -> Task]
        /\ TaskInv
        /\ TaskGuards

\* What every step does to settled rows.
StillSettled == \A r \in Rows : Settled(r) => Settled(r)'

\* A task record that may stand beside the position p.
Fits(x, p) ==
  /\ x \in Task
  /\ x.attached => p # NoPosition
  /\ x.kind = "harvest" => x.left >= 1
  /\ \A r \in x.older : Settled(r)

\* Arithmetic of the lot, and "no position" is not a position.
LEMMA Numbers ==
  /\ Lot \in Nat \ {0} /\ 0 \in 0 .. Lot /\ Lot \in 1 .. Lot
  /\ NoPosition \notin Position
  BY LotAssumption DEF NoPosition, Position

\* A task that does nothing is a task of the right type, attached to nothing.
LEMMA IdleTask == Idle \in Task /\ ~Idle.attached /\ Idle.kind = "direct" /\ Idle.older = {}
                  /\ Idle.pc = "idle"
  BY Numbers DEF Idle, Task, Kinds

\* The harvest mark may be set or cleared on any position.
LEMMA MarkPosition ==
  ASSUME NEW p \in Position, NEW b \in BOOLEAN
  PROVE  [p EXCEPT !.harvested = b] \in Position
  BY DEF Position

\* Taking the harvest mark back neither makes nor removes a position.
LEMMA UnharvestedPosition ==
  ASSUME NEW t \in Tasks, NEW kind, NEW p \in MaybePosition, task[t].attached => p # NoPosition
  PROVE  Unharvested(t, kind, p) \in MaybePosition
         /\ (Unharvested(t, kind, p) = NoPosition <=> p = NoPosition)
<1>1. CASE kind \in Harvests /\ task[t].attached
  <2>1. [p EXCEPT !.harvested = FALSE] \in Position
    BY <1>1, MarkPosition DEF MaybePosition
  <2>2. Unharvested(t, kind, p) = [p EXCEPT !.harvested = FALSE]
    BY <1>1 DEF Unharvested
  <2> QED BY <1>1, <2>1, <2>2, Numbers DEF MaybePosition
<1>2. CASE ~(kind \in Harvests /\ task[t].attached)
  BY <1>2 DEF Unharvested
<1> QED BY <1>1, <1>2

\* remove_position changes only what tasks believe of their dict.
LEMMA DetachedTasks ==
  ASSUME NEW tasks \in [Tasks -> Task], NEW p \in MaybePosition
  PROVE  /\ Detached(tasks, p) \in [Tasks -> Task]
         /\ \A t \in Tasks : /\ ~Detached(tasks, p)[t].attached
                             /\ Detached(tasks, p)[t].pc = tasks[t].pc
                             /\ Detached(tasks, p)[t].kind = tasks[t].kind
                             /\ Detached(tasks, p)[t].left = tasks[t].left
                             /\ Detached(tasks, p)[t].older = tasks[t].older
<1> SUFFICES ASSUME NEW t \in Tasks
             PROVE  LET x == IF tasks[t].attached
                               THEN [tasks[t] EXCEPT !.attached = FALSE,
                                       !.ref = IF tasks[t].pc = "price" THEN p ELSE NoPosition]
                               ELSE tasks[t]
                    IN  /\ x \in Task /\ ~x.attached
                        /\ x.pc = tasks[t].pc /\ x.kind = tasks[t].kind
                        /\ x.left = tasks[t].left /\ x.older = tasks[t].older
  BY DEF Detached
<1>1. tasks[t] \in Task
  OBVIOUS
<1>2. (IF tasks[t].pc = "price" THEN p ELSE NoPosition) \in Position \cup {NoPosition}
  BY DEF MaybePosition
<1> QED BY <1>1, <1>2 DEF Task

\* One task's record is replaced by one that fits; the managed position stays
\* managed.
LEMMA CoreWith ==
  ASSUME IInv, StillSettled, NEW t \in Tasks, NEW x, Fits(x, pos'),
         pos' \in MaybePosition, closing' \in BOOLEAN, Managed => pos' # NoPosition,
         task' = [task EXCEPT ![t] = x]
  PROVE  Core'
<1>1. task' \in [Tasks -> Task] /\ task'[t] = x /\ \A s \in Tasks : s # t => task'[s] = task[s]
  BY DEF IInv, TypeOK, Fits
<1>2. TaskInv'
  BY <1>1 DEF TaskInv, IInv, Managed, Fits, PastGuards
<1>3. TaskGuards'
  BY <1>1 DEF TaskGuards, IInv, TypeOK, Task, Fits, StillSettled
<1> QED BY <1>1, <1>2, <1>3 DEF Core

\* The same when the position is dropped.
LEMMA CoreDropped ==
  ASSUME IInv, StillSettled, NEW t \in Tasks, NEW p \in MaybePosition,
         pos' = NoPosition, closing' \in BOOLEAN,
         task' = Detached([task EXCEPT ![t] = Idle], p)
  PROVE  Core'
<1> DEFINE tasks == [task EXCEPT ![t] = Idle]
<1>1. tasks \in [Tasks -> Task] /\ tasks[t] = Idle /\ \A s \in Tasks : s # t => tasks[s] = task[s]
  BY IdleTask DEF IInv, TypeOK
<1>2. /\ task' \in [Tasks -> Task]
      /\ \A s \in Tasks : /\ ~task'[s].attached
                          /\ task'[s].pc = tasks[s].pc /\ task'[s].kind = tasks[s].kind
                          /\ task'[s].left = tasks[s].left /\ task'[s].older = tasks[s].older
  <2> HIDE DEF tasks
  <2>1. task' = Detached(tasks, p)
    BY DEF tasks
  <2>2. tasks \in [Tasks -> Task]
    BY <1>1
  <2>3. /\ Detached(tasks, p) \in [Tasks -> Task]
        /\ \A s \in Tasks : /\ ~Detached(tasks, p)[s].attached
                            /\ Detached(tasks, p)[s].pc = tasks[s].pc
                            /\ Detached(tasks, p)[s].kind = tasks[s].kind
                            /\ Detached(tasks, p)[s].left = tasks[s].left
                            /\ Detached(tasks, p)[s].older = tasks[s].older
    BY <2>2, DetachedTasks, Zenon
  <2> QED BY <2>1, <2>3
<1> HIDE DEF tasks
<1>3. ASSUME NEW s \in Tasks
      PROVE  /\ ~task'[s].attached
             /\ \/ task'[s].kind = "direct" /\ task'[s].older = {}
                \/ /\ task'[s].kind = task[s].kind /\ task'[s].pc = task[s].pc
                   /\ task'[s].left = task[s].left /\ task'[s].older = task[s].older
  <2>1. CASE s = t
    BY <1>1, <1>2, <2>1, IdleTask
  <2>2. CASE s # t
    BY <1>1, <1>2, <2>2
  <2> QED BY <2>1, <2>2
<1>4. TaskInv'
  BY <1>3 DEF TaskInv, IInv, PastGuards
<1>5. TaskGuards'
  BY <1>3 DEF TaskGuards, IInv, TypeOK, Task, StillSettled
<1> QED BY <1>2, <1>4, <1>5 DEF Core, MaybePosition

\* A sell that came back neither ok nor uncertain keeps the invariant.
LEMMA RefusedCore ==
  ASSUME IInv, StillSettled, NEW t \in Tasks, NEW kind, NEW p \in MaybePosition,
         NEW c \in BOOLEAN, Managed => p # NoPosition, Refused(t, kind, p, c)
  PROVE  Core'
<1>1. pos' \in MaybePosition /\ (Managed => pos' # NoPosition)
  BY UnharvestedPosition DEF Refused, IInv, TaskInv
<1>2. Fits(Idle, pos')
  BY IdleTask DEF Fits
<1>3. closing' \in BOOLEAN /\ task' = [task EXCEPT ![t] = Idle]
  BY DEF Refused
<1> QED BY <1>1, <1>2, <1>3, CoreWith

\* The clamp to the KIS holding keeps the invariant, whether it sells or drops.
LEMMA ClampedCore ==
  ASSUME IInv, StillSettled, NEW t \in Tasks, NEW job, NEW p \in MaybePosition, Fits(job, p),
         NEW c \in BOOLEAN, NEW h \in 0 .. Lot, Managed => p # NoPosition,
         Clamped(t, job, p, c, h)
  PROVE  Core'
<1>1. CASE h = 0
  <2>1. Unharvested(t, job.kind, p) \in MaybePosition
    BY UnharvestedPosition DEF IInv, TaskInv
  <2> QED BY <1>1, <2>1, CoreDropped DEF Clamped
<1>2. CASE h # 0
  <2> DEFINE x == [job EXCEPT !.pc = "submit", !.qty = IF h < @ THEN h ELSE @]
  <2>1. pos' = p /\ closing' = c /\ task' = [task EXCEPT ![t] = x]
    BY <1>2 DEF Clamped
  <2>2. Fits(x, pos')
    <3>1. job \in Task /\ (IF h < job.qty THEN h ELSE job.qty) \in 0 .. Lot
      BY Numbers DEF Fits, Task
    <3>2. x \in Task /\ x.attached = job.attached /\ x.kind = job.kind
          /\ x.left = job.left /\ x.older = job.older
      BY <3>1 DEF Task
    <3> QED BY <2>1, <3>2 DEF Fits
  <2> HIDE DEF x
  <2> QED BY <2>1, <2>2, CoreWith
<1> QED BY <1>1, <1>2

\* A step that writes no row leaves settled rows settled.
LEMMA RowsStill == ASSUME UNCHANGED rows PROVE StillSettled
  BY DEF StillSettled, Settled

\* The rest of IInv when no row changes.
LEMMA CoreKeeps ==
  ASSUME IInv, Core', UNCHANGED <<rows, restarts>>,
         cooldown' \in BOOLEAN, clamp' \in 0 .. Lot \cup {Unknown}, sync' \in 0 .. Lot \cup {Unknown},
         harvestDb' \in [own : BOOLEAN, other : BOOLEAN],
         kis' \in [Orders -> KisOrder], held' \in 0 .. Lot
  PROVE  IInv'
  BY DEF IInv, TypeOK, Core, MaybePosition, RowGuards, Settled

\* execute_sell up to its first await keeps the invariant, for any caller.
LEMMA StartSellKeeps ==
  ASSUME IInv, NEW t \in Tasks, NEW job, NEW p \in MaybePosition, NEW c \in BOOLEAN,
         Fits(job, p), Managed => p # NoPosition,
         harvestDb' \in [own : BOOLEAN, other : BOOLEAN],
         StartSell(t, job, p, c)
  PROVE  IInv'
<1> DEFINE guarded == [job EXCEPT !.older = Existing]
<1>1. StillSettled /\ UNCHANGED <<cooldown, clamp, sync, rows, kis, held, restarts>>
  BY RowsStill DEF StartSell, broker
<1>2. ASSUME Refused(t, job.kind, p, FALSE) \/ Refused(t, job.kind, p, c) PROVE Core'
  BY <1>1, <1>2, RefusedCore
<1>3. ~DuplicateSell => Fits(guarded, p)
  <2>1. SUFFICES ASSUME ~DuplicateSell PROVE Fits(guarded, p)
    OBVIOUS
  <2>2. /\ guarded \in Task /\ guarded.attached = job.attached /\ guarded.kind = job.kind
        /\ guarded.left = job.left /\ guarded.older = Existing
    BY DEF Fits, Task, Existing
  <2>3. \A r \in Existing : Settled(r)
    BY <2>1 DEF DuplicateSell, ActiveSells, Existing, Settled, Statuses, Unverified, IInv,
                TypeOK, Row
  <2> QED BY <2>2, <2>3 DEF Fits
<1>4. ASSUME ~DuplicateSell, clamp # Unknown, Clamped(t, guarded, p, c, clamp) PROVE Core'
  <2>1. clamp \in 0 .. Lot
    BY <1>4 DEF IInv, TypeOK
  <2> HIDE DEF guarded
  <2> QED BY <1>1, <1>3, <1>4, <2>1, ClampedCore
<1>5. ASSUME ~DuplicateSell, NEW pc \in {"clamp", "submit"},
             task' = [task EXCEPT ![t] = [guarded EXCEPT !.pc = pc]], pos' = p, closing' = c
      PROVE  Core'
  <2> DEFINE x == [guarded EXCEPT !.pc = pc]
  <2>1. Fits(guarded, p)
    BY <1>3, <1>5
  <2> HIDE DEF guarded
  <2>2. Fits(x, p)
    BY <2>1 DEF Fits, Task
  <2> HIDE DEF x
  <2>3. task' = [task EXCEPT ![t] = x]
    BY <1>5 DEF x
  <2> QED BY <1>1, <1>5, <2>2, <2>3, CoreWith
<1>6. ASSUME ~cooldown, ~DuplicateSell, ~NetClosed PROVE Core'
  <2>1. IF ClampEnabled /\ clamp # Unknown
          THEN Clamped(t, guarded, p, c, clamp)
          ELSE /\ task' = [task EXCEPT ![t] = [guarded EXCEPT
                    !.pc = IF ClampEnabled THEN "clamp" ELSE "submit"]]
               /\ pos' = p
               /\ closing' = c
    BY <1>6 DEF StartSell
  <2> HIDE DEF guarded
  <2>2. CASE ClampEnabled /\ clamp # Unknown
    BY <1>4, <1>6, <2>1, <2>2
  <2>3. CASE ~(ClampEnabled /\ clamp # Unknown)
    BY <1>5, <1>6, <2>1, <2>3
  <2> QED BY <2>2, <2>3
<1>7. Core'
  BY <1>2, <1>6 DEF StartSell
<1> QED BY <1>1, <1>7, CoreKeeps DEF IInv, TypeOK

-------------------------------------------------------------------------------
(* The steps: the callers of execute_sell *)

\* Saving the row of a position keeps the type of the saved harvest marks.
LEMMA HarvestDbType ==
  ASSUME IInv, NEW ref \in MaybePosition, NEW attached \in BOOLEAN, Tracked(ref, attached)
  PROVE  harvestDb' \in [own : BOOLEAN, other : BOOLEAN]
<1>1. harvestDb \in [own : BOOLEAN, other : BOOLEAN] /\ ref.harvested \in BOOLEAN
  <2>1. CASE ref \in Position
    BY <2>1 DEF Position, IInv, TypeOK
  <2>2. CASE ref = NoPosition
    <3>1. ref.harvested = FALSE
      BY <2>2 DEF NoPosition
    <3> QED BY <3>1 DEF IInv, TypeOK
  <2> QED BY <2>1, <2>2 DEF MaybePosition
<1> DEFINE other == harvestDb.other \/ ref.harvested
<1>2. \/ harvestDb' = harvestDb
      \/ harvestDb' = [harvestDb EXCEPT !.own = ref.harvested]
      \/ harvestDb' = [harvestDb EXCEPT !.other = other]
  BY DEF Tracked
<1> HIDE DEF other
<1>3. other \in BOOLEAN
  BY Zenon DEF other
<1> QED BY <1>1, <1>2, <1>3

\* _process_price keeps the invariant, whatever it decides.
LEMMA JudgedKeeps ==
  ASSUME IInv, NEW t \in Tasks, NEW ref \in MaybePosition, NEW attached \in BOOLEAN,
         attached => Managed, Judged(t, ref, attached)
  PROVE  IInv'
<1>0. ref.qty \in 0 .. Lot /\ pos \in MaybePosition /\ closing \in BOOLEAN
  BY Numbers DEF MaybePosition, Position, NoPosition, IInv, TypeOK
<1>1. harvestDb' \in [own : BOOLEAN, other : BOOLEAN]
  BY HarvestDbType DEF Judged
<1>2. CASE ExitSignal(t, ref, attached)
  <2> DEFINE x == [Idle EXCEPT !.kind = "exit", !.qty = ref.qty, !.attached = attached]
  <2>1. Fits(x, pos)
    BY <1>0, IdleTask DEF Fits, Task, Kinds, Managed
  <2>2. StartSell(t, x, pos, TRUE)
    BY <1>2 DEF ExitSignal
  <2> HIDE DEF x
  <2> QED BY <1>0, <1>1, <2>1, <2>2, StartSellKeeps DEF Managed
<1>3. CASE TargetSignal(t, ref, attached)
  <2> DEFINE x == [Idle EXCEPT !.pc = "target", !.qty = ref.qty, !.attached = attached]
  <2>1. Fits(x, pos)
    BY <1>0, IdleTask DEF Fits, Task, Managed
  <2>2. task' = [task EXCEPT ![t] = x] /\ UNCHANGED <<pos, closing, cooldown, clamp, sync, rows,
                                                      kis, held, restarts>>
    BY <1>3 DEF TargetSignal, broker
  <2> HIDE DEF x
  <2>3. Core'
    BY <1>0, <2>1, <2>2, CoreWith, RowsStill DEF Managed
  <2> QED BY <1>1, <2>2, <2>3, CoreKeeps DEF IInv, TypeOK
<1>4. CASE NoSignal(t)
  <2>1. task' = [task EXCEPT ![t] = Idle] /\ UNCHANGED <<pos, closing, cooldown, clamp, sync, rows,
                                                         kis, held, restarts>>
    BY <1>4 DEF NoSignal, broker
  <2>2. Core'
    BY <1>0, <2>1, CoreWith, RowsStill, IdleTask DEF Managed, Fits
  <2> QED BY <1>1, <2>1, <2>2, CoreKeeps DEF IInv, TypeOK
<1> QED BY <1>2, <1>3, <1>4 DEF Judged

\* on_tick keeps the invariant.
LEMMA OnTickKeeps == ASSUME IInv, NEW t \in Tasks, OnTick(t) PROVE IInv'
  BY JudgedKeeps DEF OnTick, IInv, TypeOK, MaybePosition

\* check_exits_via_rest picking a symbol keeps the invariant.
LEMMA RestPickKeeps == ASSUME IInv, NEW t \in Tasks, RestPick(t) PROVE IInv'
<1> DEFINE x == [Idle EXCEPT !.pc = "price", !.attached = TRUE]
<1>1. Fits(x, pos) /\ pos \in MaybePosition /\ closing \in BOOLEAN
  BY IdleTask DEF RestPick, Fits, Task, Managed, IInv, TypeOK, MaybePosition
<1>2. task' = [task EXCEPT ![t] = x] /\ UNCHANGED <<pos, closing, cooldown, clamp, sync, rows,
                                                    harvestDb, kis, held, restarts>>
  BY DEF RestPick, broker, database
<1> HIDE DEF x
<1>3. Core'
  BY <1>1, <1>2, CoreWith, RowsStill DEF Managed
<1> QED BY <1>2, <1>3, CoreKeeps DEF IInv, TypeOK

\* check_exits_via_rest judging a price keeps the invariant, on a stale dict too.
LEMMA RestPriceKeeps == ASSUME IInv, NEW t \in Tasks, RestPrice(t) PROVE IInv'
<1>1. Ref(t) \in MaybePosition /\ task[t].attached \in BOOLEAN
  BY DEF Ref, IInv, TypeOK, Task, MaybePosition
<1>2. task[t].attached => Managed
  BY DEF IInv, TaskInv
<1> QED BY <1>1, <1>2, JudgedKeeps DEF RestPrice

\* The scale-out after its account target keeps the invariant.
LEMMA HarvestKeeps == ASSUME IInv, NEW t \in Tasks, Harvest(t) PROVE IInv'
<1>0. /\ task[t] \in Task /\ pos \in MaybePosition /\ closing \in BOOLEAN /\ harvestDb' = harvestDb
      /\ task[t].attached => pos # NoPosition
      /\ \A r \in task[t].older : Settled(r)
  BY DEF Harvest, IInv, TypeOK, MaybePosition, TaskInv, TaskGuards, Managed
<1>1. ASSUME NEW q \in 1 .. task[t].qty,
             LET all == q = task[t].qty
             IN  StartSell(t, [task[t] EXCEPT !.kind = IF all THEN "harvest_all" ELSE "harvest",
                                              !.qty = q, !.left = task[t].qty - q],
                           IF task[t].attached THEN [pos EXCEPT !.harvested = TRUE] ELSE pos,
                           closing \/ all)
      PROVE  IInv'
  <2> DEFINE all  == q = task[t].qty
             kind == IF all THEN "harvest_all" ELSE "harvest"
             left == task[t].qty - q
             x    == [task[t] EXCEPT !.kind = kind, !.qty = q, !.left = left]
             p    == IF task[t].attached THEN [pos EXCEPT !.harvested = TRUE] ELSE pos
             c    == closing \/ all
  <2>1. StartSell(t, x, p, c)
    BY <1>1
  <2>2. /\ kind \in Kinds /\ q \in 0 .. Lot /\ left \in 0 .. Lot
        /\ kind = "harvest" => left >= 1
    BY <1>0, <1>1, LotAssumption DEF Task, Kinds
  <2>3. c \in BOOLEAN
    BY <1>0, Zenon
  <2>4. p \in MaybePosition /\ (pos # NoPosition => p # NoPosition)
        /\ (task[t].attached => p # NoPosition)
    BY <1>0, MarkPosition, Numbers DEF MaybePosition
  <2> HIDE DEF kind, left, p, c
  <2>5. Fits(x, p)
    BY <1>0, <2>2, <2>4 DEF Fits, Task
  <2> HIDE DEF x
  <2> QED BY <1>0, <2>1, <2>3, <2>4, <2>5, StartSellKeeps DEF Managed, IInv, TypeOK
<1>2. CASE NoSignal(t)
  <2>1. task' = [task EXCEPT ![t] = Idle] /\ UNCHANGED <<pos, closing, cooldown, clamp, sync, rows,
                                                         kis, held, restarts>>
    BY <1>2 DEF NoSignal, broker
  <2>2. Core'
    BY <1>0, <2>1, CoreWith, RowsStill, IdleTask DEF Managed, Fits
  <2> QED BY <1>0, <2>1, <2>2, CoreKeeps DEF IInv, TypeOK
<1> QED BY <1>1, <1>2 DEF Harvest

\* A sell of S9, the API or a replacement keeps the invariant.
LEMMA DirectSellKeeps == ASSUME IInv, NEW t \in Tasks, DirectSell(t) PROVE IInv'
<1>1. PICK q \in 1 .. Lot : StartSell(t, [Idle EXCEPT !.kind = "direct", !.qty = q], pos, closing)
  BY DEF DirectSell
<1> DEFINE x == [Idle EXCEPT !.kind = "direct", !.qty = q]
<1>2. Fits(x, pos) /\ pos \in MaybePosition /\ closing \in BOOLEAN
  <2>1. q \in 0 .. Lot /\ Idle \in Task
    BY <1>1, IdleTask, LotAssumption
  <2>2. x \in Task /\ ~x.attached /\ x.kind = "direct" /\ x.older = {}
    BY <2>1, IdleTask DEF Task, Kinds
  <2> QED BY <2>2 DEF Fits, IInv, TypeOK, MaybePosition
<1>3. StartSell(t, x, pos, closing) /\ harvestDb' = harvestDb
  BY <1>1 DEF DirectSell
<1> HIDE DEF x
<1> QED BY <1>2, <1>3, StartSellKeeps DEF Managed, IInv, TypeOK

-------------------------------------------------------------------------------
(* The steps: inside execute_sell *)

\* A task between two awaits fits the position there is.
LEMMA TaskFits ==
  ASSUME IInv, NEW t \in Tasks, PastGuards(t)
  PROVE  Fits(task[t], pos) /\ pos \in MaybePosition /\ closing \in BOOLEAN
  BY DEF Fits, IInv, TypeOK, TaskInv, TaskGuards, Managed, MaybePosition

\* The answer of the balance query keeps the invariant.
LEMMA ClampReplyKeeps == ASSUME IInv, NEW t \in Tasks, ClampReply(t) PROVE IInv'
<1>0. /\ Fits(task[t], pos) /\ pos \in MaybePosition /\ closing \in BOOLEAN /\ StillSettled
      /\ held \in 0 .. Lot
  BY TaskFits, RowsStill DEF ClampReply, PastGuards, database, IInv, TypeOK
<1>1. UNCHANGED <<cooldown, sync, rows, harvestDb, kis, held, restarts>>
  BY DEF ClampReply, database, broker
<1>2. ASSUME clamp' = held, Clamped(t, task[t], pos, closing, held) PROVE Core'
  BY <1>0, <1>2, ClampedCore DEF Managed
<1>3. ASSUME task' = [task EXCEPT ![t].pc = "submit"], UNCHANGED <<pos, closing>> PROVE Core'
  <2> DEFINE x == [task[t] EXCEPT !.pc = "submit"]
  <2>1. Fits(x, pos) /\ task' = [task EXCEPT ![t] = x]
    BY <1>0, <1>3 DEF Fits, Task
  <2> HIDE DEF x
  <2> QED BY <1>0, <1>3, <2>1, CoreWith DEF Managed
<1>4. Core' /\ clamp' \in {clamp, held}
  BY <1>2, <1>3 DEF ClampReply
<1> QED BY <1>0, <1>1, <1>4, CoreKeeps DEF IInv, TypeOK

\* An order KIS accepts has the type of an order.
LEMMA AcceptKis ==
  ASSUME IInv, NEW k \in Orders, NEW q \in 0 .. Lot, Accept(k, q)
  PROVE  kis' \in [Orders -> KisOrder]
<1>1. [qty |-> q, done |-> 0, live |-> TRUE] \in KisOrder
  BY Numbers DEF KisOrder
<1> QED BY <1>1 DEF Accept, IInv, TypeOK

\* The reply of order_cash is written down.
LEMMA ReplyCore ==
  ASSUME IInv, NEW t \in Tasks, task[t].pc = "submit", UNCHANGED <<pos, closing, rows>>,
         NEW reply \in {"number", "blank", "rejected"}, NEW k \in Orders \cup {NoOrder},
         task' = [task EXCEPT ![t].pc = "record", ![t].reply = reply, ![t].sent = k]
  PROVE  Core'
<1> DEFINE x == [task[t] EXCEPT !.pc = "record", !.reply = reply, !.sent = k]
<1>0. Fits(task[t], pos) /\ pos \in MaybePosition /\ closing \in BOOLEAN
  BY TaskFits DEF PastGuards
<1>1. Fits(x, pos) /\ task' = [task EXCEPT ![t] = x]
  BY <1>0 DEF Fits, Task
<1> HIDE DEF x
<1> QED BY <1>0, <1>1, CoreWith, RowsStill DEF Managed

\* An accepted order_cash keeps the invariant.
LEMMA AcceptedKeeps ==
  ASSUME IInv, NEW t \in Tasks, NEW k \in Orders, Accepted(t, k) PROVE IInv'
<1>1. /\ UNCHANGED <<pos, closing, clamp, sync, rows, harvestDb, held, restarts>>
      /\ cooldown' = FALSE /\ task[t].pc = "submit" /\ task[t] \in Task
  BY DEF Accepted, database, IInv, TypeOK
<1>2. kis' \in [Orders -> KisOrder]
  BY <1>1, AcceptKis DEF Accepted, Task
<1>3. CASE task' = [task EXCEPT ![t].pc = "record", ![t].reply = "number", ![t].sent = k]
  BY <1>1, <1>2, <1>3, ReplyCore, CoreKeeps DEF IInv, TypeOK
<1>4. CASE task' = [task EXCEPT ![t].pc = "record", ![t].reply = "blank"]
  <2>1. task' = [task EXCEPT ![t].pc = "record", ![t].reply = "blank", ![t].sent = task[t].sent]
    BY <1>1, <1>4 DEF IInv, TypeOK, Task
  <2>2. task[t].sent \in Orders \cup {NoOrder}
    BY <1>1 DEF Task
  <2> QED BY <1>1, <1>2, <2>1, <2>2, ReplyCore, CoreKeeps DEF IInv, TypeOK
<1> QED BY <1>3, <1>4 DEF Accepted

\* A refused order_cash keeps the invariant.
LEMMA RejectedKeeps == ASSUME IInv, NEW t \in Tasks, Rejected(t) PROVE IInv'
<1>1. /\ UNCHANGED <<pos, closing, clamp, sync, rows, harvestDb, kis, held, restarts>>
      /\ cooldown' = FALSE /\ task[t].pc = "submit" /\ task[t] \in Task
      /\ task' = [task EXCEPT ![t].pc = "record", ![t].reply = "rejected"]
  BY DEF Rejected, database, broker, IInv, TypeOK
<1>2. task' = [task EXCEPT ![t].pc = "record", ![t].reply = "rejected", ![t].sent = task[t].sent]
  BY <1>1 DEF IInv, TypeOK, Task
<1>3. task[t].sent \in Orders \cup {NoOrder}
  BY <1>1 DEF Task
<1> QED BY <1>1, <1>2, <1>3, ReplyCore, CoreKeeps DEF IInv, TypeOK

\* An order_cash that raises keeps the invariant, sent again or given up.
LEMMA RaisedKeeps == ASSUME IInv, NEW t \in Tasks, Raised(t) PROVE IInv'
<1>1. /\ UNCHANGED <<clamp, sync, rows, harvestDb, held, restarts>> /\ StillSettled
      /\ Fits(task[t], pos) /\ pos \in MaybePosition /\ closing \in BOOLEAN /\ task[t] \in Task
  BY TaskFits, RowsStill DEF Raised, PastGuards, database, Fits
<1>2. kis' \in [Orders -> KisOrder]
  BY <1>1, AcceptKis DEF Raised, Task, IInv, TypeOK
<1>3. CASE UNCHANGED <<task, pos, closing, cooldown>>
  <2>1. Core'
    BY <1>1, <1>3 DEF Core, IInv, TypeOK, TaskInv, TaskGuards, PastGuards, Managed, Settled
  <2> QED BY <1>1, <1>2, <1>3, <2>1, CoreKeeps DEF IInv, TypeOK
<1>4. CASE Failed(t)
  <2>1. Core'
    BY <1>1, <1>4, RefusedCore DEF Failed, Managed
  <2> QED BY <1>1, <1>2, <1>4, <2>1, CoreKeeps DEF Failed, IInv, TypeOK
<1> QED BY <1>3, <1>4 DEF Raised

\* A task cut short keeps the invariant.
LEMMA CutShortKeeps == ASSUME IInv, NEW t \in Tasks, CutShort(t) PROVE IInv'
<1>1. /\ UNCHANGED <<pos, closing, cooldown, clamp, sync, rows, harvestDb, held, restarts>>
      /\ task' = [task EXCEPT ![t] = Idle] /\ task[t] \in Task
  BY DEF CutShort, database, IInv, TypeOK
<1>2. kis' \in [Orders -> KisOrder]
  BY <1>1, AcceptKis DEF CutShort, Task, IInv, TypeOK
<1>3. TaskInv' /\ TaskGuards' /\ task' \in [Tasks -> Task]
  BY <1>1, IdleTask DEF IInv, TypeOK, TaskInv, TaskGuards, PastGuards, Managed, Settled
<1>4. RowGuards'
  BY <1>1 DEF IInv, RowGuards, Settled
<1> QED BY <1>1, <1>2, <1>3, <1>4 DEF IInv, TypeOK

\* Saving the order row keeps the invariant.
LEMMA RecordKeeps ==
  ASSUME IInv, NEW t \in Tasks, NEW r \in Rows, Record(t, r) PROVE IInv'
<1>0. /\ Fits(task[t], pos) /\ pos \in MaybePosition /\ closing \in BOOLEAN
      /\ task[t] \in Task /\ PastGuards(t)
      /\ task[t].kind = "harvest" => task[t].left \in 1 .. Lot
  <2>1. PastGuards(t)
    BY DEF Record, PastGuards
  <2>2. Fits(task[t], pos) /\ pos \in MaybePosition /\ closing \in BOOLEAN
    BY <2>1, TaskFits
  <2> QED BY <2>1, <2>2, LotAssumption DEF Fits, Task
<1> DEFINE job == task[t]
<1>1. PICK number \in IF job.reply = "number" THEN {job.sent} ELSE Listed \cup {NoOrder} :
        LET known    == number # NoOrder
            rejected == ~known /\ job.reply = "rejected"
            keeps    == rejected \/ (known /\ job.kind = "harvest")
        IN
        /\ rows' = [rows EXCEPT ![r] =
             [status |-> IF known THEN "submitted" ELSE "uncertain", qty |-> job.qty,
              kis |-> number, accepted |-> job.reply # "rejected",
              partial |-> job.kind = "harvest", older |-> job.older]]
        /\ cooldown' = (cooldown \/ rejected)
        /\ closing' = (closing /\ keeps /\ ~rejected)
        /\ pos' = IF ~keeps THEN NoPosition
                  ELSE IF known /\ job.attached
                         THEN [qty |-> job.left, harvested |-> TRUE]
                         ELSE pos
        /\ task' = LET done == [task EXCEPT ![t] = Idle]
                   IN  IF keeps THEN done ELSE Detached(done, pos)
  BY DEF Record
<1> DEFINE known    == number # NoOrder
           rejected == ~known /\ job.reply = "rejected"
           keeps    == rejected \/ (known /\ job.kind = "harvest")
           status   == IF known THEN "submitted" ELSE "uncertain"
           accepted == job.reply # "rejected"
           partial  == job.kind = "harvest"
           new      == [status |-> status, qty |-> job.qty, kis |-> number,
                        accepted |-> accepted, partial |-> partial, older |-> job.older]
<1>2. /\ rows' = [rows EXCEPT ![r] = new] /\ rows[r] = NoRow
      /\ cooldown' \in BOOLEAN /\ closing' \in BOOLEAN
      /\ UNCHANGED <<clamp, sync, kis, held, restarts>>
  <2>1. (cooldown \/ rejected) \in BOOLEAN /\ (closing /\ keeps /\ ~rejected) \in BOOLEAN
    BY Zenon
  <2> QED BY <1>1, <2>1 DEF Record, broker
<1>3. new \in Row
  <2>1. number \in Orders \cup {NoOrder} /\ job.qty \in 0 .. Lot /\ job.older \in SUBSET Rows
    BY <1>0, <1>1 DEF Task, Listed
  <2>2. status \in Statuses /\ accepted \in BOOLEAN /\ partial \in BOOLEAN
    BY DEF Statuses, Unverified
  <2> HIDE DEF status, accepted, partial
  <2> QED BY <2>1, <2>2 DEF Row
<1>4. /\ rows' \in [Rows -> Row] /\ rows'[r].older = job.older
      /\ \A s \in Rows : s # r => rows'[s] = rows[s]
      /\ ~Settled(r)
  <2>1. ~Settled(r)
    BY <1>2 DEF Settled, NoRow
  <2>2. new.older = job.older
    OBVIOUS
  <2> HIDE DEF new
  <2> QED BY <1>2, <1>3, <2>1, <2>2 DEF IInv, TypeOK
<1>5. StillSettled
  BY <1>4 DEF StillSettled, Settled
<1>6. RowGuards'
  <2>1. \A s \in Rows : rows'[s].older \subseteq Rows /\ \A y \in rows'[s].older : Settled(y)
    BY <1>0, <1>4 DEF RowGuards, IInv, TypeOK, Row, Fits, Task
  <2> QED BY <2>1, <1>5 DEF RowGuards, StillSettled
<1>7. Core'
  <2>1. CASE keeps
    <3>1. task' = [task EXCEPT ![t] = Idle] /\ Fits(Idle, pos')
      BY <1>1, <2>1, IdleTask DEF Fits
    <3>2. pos' = pos \/ (job.kind = "harvest" /\ job.attached
                         /\ pos' = [qty |-> job.left, harvested |-> TRUE])
      BY <1>1, <2>1
    <3>3. pos' \in MaybePosition /\ (Managed => pos' # NoPosition)
      <4>1. job.kind = "harvest" => [qty |-> job.left, harvested |-> TRUE] \in Position
        BY <1>0 DEF Position
      <4> QED BY <1>0, <3>2, <4>1, Numbers DEF MaybePosition, Managed
    <3> QED BY <1>2, <1>5, <3>1, <3>3, CoreWith
  <2>2. CASE ~keeps
    <3>1. pos' = NoPosition /\ task' = Detached([task EXCEPT ![t] = Idle], pos)
      BY <1>1, <2>2
    <3> QED BY <1>0, <1>2, <1>5, <3>1, CoreDropped
  <2> QED BY <2>1, <2>2
<1>8. harvestDb' \in [own : BOOLEAN, other : BOOLEAN]
  BY DEF Record, IInv, TypeOK
<1> HIDE DEF new
<1> QED BY <1>2, <1>4, <1>6, <1>7, <1>8 DEF IInv, TypeOK, Core, MaybePosition

-------------------------------------------------------------------------------
(* The steps: repair, broker, time *)

\* The account sync applying its balance keeps the invariant.
LEMMA SyncApplyKeeps == ASSUME IInv, SyncApply PROVE IInv'
<1>1. /\ UNCHANGED <<cooldown, clamp, rows, kis, held, restarts>> /\ sync' = Unknown
      /\ StillSettled /\ sync \in 0 .. Lot /\ pos \in MaybePosition
      /\ harvestDb \in [own : BOOLEAN, other : BOOLEAN] /\ closing \in BOOLEAN
      /\ task \in [Tasks -> Task]
  BY RowsStill DEF SyncApply, broker, IInv, TypeOK, MaybePosition
<1>2. HarvestedToday \in BOOLEAN /\ NewRow \in [own : BOOLEAN, other : BOOLEAN]
  BY <1>1, Zenon DEF HarvestedToday, NewRow
<1>3. ASSUME pos' = NoPosition, closing' = FALSE, task' = Detached(task, pos) PROVE Core'
  <2>1. /\ task' \in [Tasks -> Task]
        /\ \A s \in Tasks : /\ ~task'[s].attached
                            /\ task'[s].pc = task[s].pc /\ task'[s].kind = task[s].kind
                            /\ task'[s].left = task[s].left /\ task'[s].older = task[s].older
    BY <1>1, <1>3, DetachedTasks
  <2>2. TaskInv'
    BY <2>1 DEF TaskInv, IInv, PastGuards
  <2>3. TaskGuards'
    BY <1>1, <2>1 DEF TaskGuards, IInv, Settled
  <2> QED BY <1>3, <2>1, <2>2, <2>3 DEF Core, MaybePosition
<1>4. ASSUME pos' \in MaybePosition, Managed => pos' # NoPosition, closing' \in BOOLEAN,
             UNCHANGED task
      PROVE  Core'
  BY <1>1, <1>4 DEF Core, IInv, TaskInv, TaskGuards, Settled, PastGuards, Managed
<1>5. CASE Managed /\ sync > 0 /\ pos' = [pos EXCEPT !.qty = sync]
           /\ UNCHANGED <<closing, task, harvestDb>>
  <2>1. pos' \in Position
    <3>1. pos \in Position /\ sync \in 1 .. Lot
      BY <1>1, <1>5, LotAssumption DEF Managed, MaybePosition
    <3> QED BY <1>5, <3>1 DEF Position
  <2> QED BY <1>1, <1>4, <1>5, <2>1, Numbers, CoreKeeps DEF IInv, TypeOK, MaybePosition
<1>6. CASE ~Managed /\ sync > 0 /\ pos' = Imported /\ closing' = FALSE /\ harvestDb' = NewRow
           /\ UNCHANGED task
  <2>1. pos' \in Position
    <3>1. sync \in 1 .. Lot
      BY <1>1, <1>6, LotAssumption
    <3> QED BY <1>2, <1>6, <3>1 DEF Imported, Position
  <2> QED BY <1>1, <1>2, <1>4, <1>6, <2>1, Numbers, CoreKeeps DEF IInv, TypeOK, MaybePosition
<1>7. CASE UNCHANGED <<pos, closing, task, harvestDb>>
  BY <1>1, <1>4, <1>7, CoreKeeps DEF IInv, TypeOK, Managed
<1>8. CASE pos' = NoPosition /\ closing' = FALSE /\ task' = Detached(task, pos)
           /\ UNCHANGED harvestDb
  BY <1>1, <1>3, <1>8, CoreKeeps DEF IInv, TypeOK
<1> QED BY <1>5, <1>6, <1>7, <1>8 DEF SyncApply

\* Steps that change neither the tasks nor the position nor a row.
LEMMA QuietKeeps ==
  ASSUME IInv, UNCHANGED <<pos, closing, task, rows, harvestDb, restarts>>,
         cooldown' \in BOOLEAN, clamp' \in 0 .. Lot \cup {Unknown}, sync' \in 0 .. Lot \cup {Unknown},
         kis' \in [Orders -> KisOrder], held' \in 0 .. Lot
  PROVE  IInv'
<1>1. Core'
  BY DEF Core, IInv, TypeOK, MaybePosition, TaskInv, TaskGuards, Settled, PastGuards, Managed
<1> QED BY <1>1, CoreKeeps DEF IInv, TypeOK

\* Executions and expiries at KIS keep the invariant.
LEMMA BrokerKeeps == ASSUME IInv, NEW k \in Orders, Execute(k) \/ Expire(k) PROVE IInv'
<1>0. /\ kis \in [Orders -> KisOrder] /\ kis[k] \in KisOrder /\ held \in 0 .. Lot
      /\ UNCHANGED <<pos, closing, cooldown, clamp, task, sync, rows, harvestDb, restarts>>
  BY DEF IInv, TypeOK, Execute, Expire, memory, database
<1>1. CASE Execute(k)
  <2>1. PICK n \in 1 .. (kis[k].qty - kis[k].done) :
          /\ n <= held
          /\ kis' = [kis EXCEPT ![k].done = @ + n, ![k].live = kis[k].done + n < kis[k].qty]
          /\ held' = held - n
    BY <1>1 DEF Execute
  <2> DEFINE done == kis[k].done + n
             live == done < kis[k].qty
  <2>2. done \in 0 .. Lot /\ held' \in 0 .. Lot
    BY <1>0, <2>1, LotAssumption DEF KisOrder
  <2>3. kis' = [kis EXCEPT ![k].done = done, ![k].live = live] /\ live \in BOOLEAN
    BY <2>1
  <2> HIDE DEF done, live
  <2>4. [kis EXCEPT ![k].done = done] \in [Orders -> KisOrder]
    BY <1>0, <2>2 DEF KisOrder
  <2>5. kis' \in [Orders -> KisOrder]
    BY <1>0, <2>3, <2>4 DEF KisOrder
  <2> QED BY <1>0, <2>2, <2>5, QuietKeeps DEF IInv, TypeOK
<1>2. CASE Expire(k)
  <2>1. kis' \in [Orders -> KisOrder] /\ held' = held
    BY <1>0, <1>2 DEF Expire, KisOrder
  <2> QED BY <1>0, <2>1, QuietKeeps DEF IInv, TypeOK
<1> QED BY <1>1, <1>2

\* Reading the balance and the two timeouts keep the invariant.
LEMMA TimeKeeps == ASSUME IInv, SyncRead \/ CooldownExpires \/ ClampExpires PROVE IInv'
<1>1. /\ UNCHANGED <<pos, closing, task, rows, harvestDb, kis, held, restarts>>
      /\ cooldown' \in BOOLEAN /\ clamp' \in 0 .. Lot \cup {Unknown}
      /\ sync' \in 0 .. Lot \cup {Unknown}
  BY DEF SyncRead, CooldownExpires, ClampExpires, database, broker, IInv, TypeOK
<1> QED BY <1>1, QuietKeeps DEF IInv, TypeOK

\* The poller and the reconciliation settle a row, or settle it again.
LEMMA RepairKeeps == ASSUME IInv, NEW r \in Rows, Poll(r) \/ Reconcile(r) PROVE IInv'
<1>1. UNCHANGED <<pos, closing, cooldown, clamp, task, sync, harvestDb, kis, held, restarts>>
  BY DEF Poll, Reconcile, memory, broker
<1>2. /\ rows' \in [Rows -> Row]
      /\ \A s \in Rows : s # r => rows'[s] = rows[s]
      /\ rows'[r].status \in {"filled", "partial", "cancelled"}
      /\ rows'[r].older = rows[r].older
  BY DEF Poll, Reconcile, IInv, TypeOK, Row, Statuses, Listed
<1>3. \A s \in Rows : Settled(s) => Settled(s)'
  BY <1>2 DEF Settled
<1>4. RowGuards' /\ TaskGuards' /\ TaskInv'
  BY <1>1, <1>2, <1>3 DEF RowGuards, TaskGuards, TaskInv, IInv, TypeOK, Row, Task, PastGuards, Managed
<1> QED BY <1>1, <1>2, <1>4 DEF IInv, TypeOK

\* A restart keeps the invariant.
LEMMA RestartKeeps == ASSUME IInv, Restart PROVE IInv'
<1>1. /\ UNCHANGED <<rows, kis, held>> /\ closing' = FALSE /\ cooldown' = FALSE
      /\ clamp' = Unknown /\ sync' = Unknown /\ restarts' \in 0 .. MaxRestarts
      /\ task' = [t \in Tasks |-> Idle]
  BY RestartAssumption DEF Restart, broker, IInv, TypeOK
<1>2. HarvestedToday \in BOOLEAN /\ NewRow \in [own : BOOLEAN, other : BOOLEAN]
  BY Zenon DEF HarvestedToday, NewRow
<1>3. harvestDb' \in [own : BOOLEAN, other : BOOLEAN]
  BY <1>2 DEF Restart, IInv, TypeOK
<1>4. pos' \in MaybePosition
  <2> DEFINE left == BuyQty - SoldQty({"filled"})
  <2>1. pos' = (IF Restorable THEN [qty |-> left, harvested |-> HarvestedToday] ELSE NoPosition)
    BY DEF Restart
  <2>2. Restorable => left \in 1 .. Lot
    BY DEF Restorable
  <2> HIDE DEF left
  <2> QED BY <1>2, <2>1, <2>2 DEF Position, MaybePosition
<1>5. task' \in [Tasks -> Task] /\ TaskInv' /\ TaskGuards'
  BY <1>1, IdleTask DEF TaskInv, TaskGuards, PastGuards
<1>6. RowGuards'
  BY <1>1 DEF IInv, RowGuards, Settled
<1> QED BY <1>1, <1>3, <1>4, <1>5, <1>6 DEF IInv, TypeOK, MaybePosition

-------------------------------------------------------------------------------
\* The invariant holds at the start.
LEMMA InitInv == Init => IInv
<1> SUFFICES ASSUME Init PROVE IInv
  OBVIOUS
<1>1. NoRow \in Row /\ Unsent \in KisOrder /\ pos \in Position /\ 0 \in 0 .. MaxRestarts
      /\ Lot \in 0 .. Lot
  BY Numbers, RestartAssumption DEF Init, NoRow, Row, Statuses, Unsent, KisOrder, Position
<1>2. TypeOK
  BY <1>1, IdleTask DEF Init, TypeOK
<1>3. TaskInv /\ TaskGuards /\ RowGuards
  BY IdleTask DEF Init, TaskInv, TaskGuards, RowGuards, PastGuards, NoRow
<1> QED BY <1>2, <1>3 DEF IInv

\* Every step keeps the invariant.
LEMMA NextKeeps == IInv /\ [Next]_vars => IInv'
<1> SUFFICES ASSUME IInv, [Next]_vars PROVE IInv'
  OBVIOUS
<1> USE DEF Tasks
<1>1. CASE \E t \in Ticks : OnTick(t) \/ CutShort(t)
  BY <1>1, OnTickKeeps, CutShortKeeps
<1>2. CASE \E t \in Rests : RestPick(t) \/ RestPrice(t)
  BY <1>2, RestPickKeeps, RestPriceKeeps
<1>3. CASE \E t \in Ticks \cup Rests : Harvest(t)
  BY <1>3, HarvestKeeps
<1>4. CASE \E t \in Directs : DirectSell(t)
  BY <1>4, DirectSellKeeps
<1>5. CASE \E t \in Tasks : SellStep(t)
  BY <1>5, ClampReplyKeeps, AcceptedKeeps, RejectedKeeps, RaisedKeeps, RecordKeeps DEF SellStep
<1>6. CASE \E r \in Rows : Poll(r) \/ Reconcile(r)
  BY <1>6, RepairKeeps
<1>7. CASE \E k \in Orders : Execute(k) \/ Expire(k)
  BY <1>7, BrokerKeeps
<1>8. CASE SyncRead \/ SyncApply \/ CooldownExpires \/ ClampExpires \/ Restart
  BY <1>8, TimeKeeps, SyncApplyKeeps, RestartKeeps
<1>9. CASE UNCHANGED vars
  <2>1. /\ UNCHANGED <<pos, closing, task, rows, harvestDb, restarts>>
        /\ UNCHANGED <<cooldown, clamp, sync, kis, held>>
    BY <1>9 DEF vars, memory, database, broker
  <2> QED BY <2>1, QuietKeeps DEF IInv, TypeOK
<1> QED BY <1>1, <1>2, <1>3, <1>4, <1>5, <1>6, <1>7, <1>8, <1>9 DEF Next

\* The inductive invariant holds in every behaviour.
THEOREM Invariance == Spec => []IInv
  BY InitInv, NextKeeps, PTL DEF Spec

\* Every variable keeps its type: whatever sync, restart and detached scale-outs
\* overwrite, a managed position has between 1 and Lot shares.
THEOREM TypeCorrect == Spec => []TypeOK
<1>1. IInv => TypeOK
  BY DEF IInv
<1> QED BY <1>1, Invariance, PTL

\* For any number of concurrent callers of execute_sell: behind an unverified sell
\* no other one gets past the duplicate guard, through polling, reconciliation and
\* restarts.
THEOREM OverlapOnly == Spec => []ActiveSellsOverlap
<1>1. IInv => ActiveSellsOverlap
  BY DEF IInv, TypeOK, Row, RowGuards, Settled, ActiveSellsOverlap, ActiveSells, Unverified
<1> QED BY <1>1, Invariance, PTL

-------------------------------------------------------------------------------
(* The ghost holding *)

\* The account never gains shares, so a holding that was read as nothing stays nothing.
ReadEmpty == clamp = 0 \/ sync = 0 => held = 0

GhostInv == ReadEmpty /\ UnmanagedBehindSell

\* What a call of execute_sell leaves of the position p and of its task: the sell is
\* refused, or the position is dropped, or the task goes on past the guards.
GivesUp(t, kind, p) == pos' = Unharvested(t, kind, p) /\ task' = [task EXCEPT ![t] = Idle]
Drops(t)            == pos' = NoPosition /\ \E q : task' = Detached([task EXCEPT ![t] = Idle], q)
GoesOn(t, job, p)   == /\ pos' = p
                       /\ task'[t].pc \in {"clamp", "submit"}
                       /\ task'[t].kind = job.kind /\ task'[t].attached = job.attached

\* A call of execute_sell drops the managed position only for a cached holding of nothing.
\* What it leaves of the task is idle, or past the guards with the kind it came with.
LEMMA StartSellEffect ==
  ASSUME IInv, NEW t \in Tasks, NEW job \in Task, NEW p, NEW c, StartSell(t, job, p, c)
  PROVE  /\ UNCHANGED <<clamp, sync, rows, held, restarts>>
         /\ GivesUp(t, job.kind, p) \/ (clamp = 0 /\ Drops(t)) \/ GoesOn(t, job, p)
<1>1. UNCHANGED <<clamp, sync, rows, held, restarts>> /\ task \in [Tasks -> Task]
  BY DEF StartSell, broker, IInv, TypeOK
<1>2. ASSUME Refused(t, job.kind, p, FALSE) \/ Refused(t, job.kind, p, c)
      PROVE  GivesUp(t, job.kind, p)
  BY <1>2 DEF Refused, GivesUp
<1> DEFINE guarded == [job EXCEPT !.older = Existing]
<1>3. /\ guarded.kind = job.kind /\ guarded.attached = job.attached
      /\ \A n, m : LET x == [guarded EXCEPT !.pc = n, !.qty = m]
                   IN  x.pc = n /\ x.kind = job.kind /\ x.attached = job.attached
      /\ \A n : LET x == [guarded EXCEPT !.pc = n]
                IN  x.pc = n /\ x.kind = job.kind /\ x.attached = job.attached
  BY DEF Task
<1> DEFINE m == IF clamp < guarded.qty THEN clamp ELSE guarded.qty
<1>4. ASSUME Clamped(t, guarded, p, c, clamp), clamp = 0
      PROVE  Drops(t)
  BY <1>4 DEF Clamped, Drops
<1>5. ASSUME Clamped(t, guarded, p, c, clamp), clamp # 0
      PROVE  GoesOn(t, job, p)
  <2> DEFINE x == [guarded EXCEPT !.pc = "submit", !.qty = m]
  <2>1. pos' = p /\ task' = [task EXCEPT ![t] = x]
    BY <1>3, <1>5 DEF Clamped
  <2>2. x.pc \in {"clamp", "submit"} /\ x.kind = job.kind /\ x.attached = job.attached
    BY <1>3
  <2> HIDE DEF x
  <2> QED BY <1>1, <2>1, <2>2 DEF GoesOn
<1>6. ASSUME pos' = p, task' = [task EXCEPT ![t] = [guarded EXCEPT
               !.pc = IF ClampEnabled THEN "clamp" ELSE "submit"]]
      PROVE  GoesOn(t, job, p)
  <2> DEFINE x == [guarded EXCEPT !.pc = IF ClampEnabled THEN "clamp" ELSE "submit"]
  <2>1. x.pc \in {"clamp", "submit"} /\ x.kind = job.kind /\ x.attached = job.attached
    BY <1>3
  <2>2. pos' = p /\ task' = [task EXCEPT ![t] = x]
    BY <1>6
  <2> HIDE DEF x
  <2> QED BY <1>1, <2>1, <2>2 DEF GoesOn
<1>7. \/ Refused(t, job.kind, p, FALSE) \/ Refused(t, job.kind, p, c)
      \/ Clamped(t, guarded, p, c, clamp)
      \/ pos' = p /\ task' = [task EXCEPT ![t] = [guarded EXCEPT
                       !.pc = IF ClampEnabled THEN "clamp" ELSE "submit"]]
  BY DEF StartSell
<1> HIDE DEF guarded, m
<1> QED BY <1>1, <1>2, <1>4, <1>5, <1>6, <1>7

\* What every step leaves: the account gains nothing, order rows stay, restarts are counted.
Forward == /\ held' \in Nat /\ held' <= held
           /\ Existing \subseteq Existing'
           /\ restarts' >= restarts

\* A step drops the managed position only for an empty account or a sell order row, or in
\* a restart that has no buys of today to restore it from.
Watched == Managed /\ pos' = NoPosition =>
             held' = 0 \/ Existing' # {} \/ (restarts' > 0 /\ BuyQty = 0)

\* Such a step keeps the invariant.
LEMMA GhostFollows ==
  ASSUME IInv, IInv', GhostInv, Forward, Watched, ReadEmpty'
  PROVE  GhostInv'
<1>1. held \in Nat /\ restarts \in Nat /\ restarts' \in Nat
  BY LotAssumption, RestartAssumption DEF IInv, TypeOK
<1> QED BY <1>1 DEF GhostInv, Forward, Watched, UnmanagedBehindSell, Managed

\* A call of execute_sell.
LEMMA StartSellGhost ==
  ASSUME IInv, ReadEmpty, NEW t \in Tasks, NEW job \in Task, NEW p \in MaybePosition, NEW c,
         Managed => p # NoPosition, StartSell(t, job, p, c)
  PROVE  UNCHANGED <<clamp, sync, rows, held, restarts>> /\ Watched
<1>1. /\ UNCHANGED <<clamp, sync, rows, held, restarts>>
      /\ GivesUp(t, job.kind, p) \/ (clamp = 0 /\ Drops(t)) \/ GoesOn(t, job, p)
  BY StartSellEffect
<1>2. CASE GivesUp(t, job.kind, p)
  <2>1. task[t].attached => Managed
    BY DEF IInv, TaskInv
  <2>2. Unharvested(t, job.kind, p) = NoPosition <=> p = NoPosition
    BY <2>1, UnharvestedPosition
  <2> QED BY <1>1, <1>2, <2>2 DEF GivesUp, Watched
<1>3. CASE clamp = 0 /\ Drops(t)
  BY <1>1, <1>3 DEF ReadEmpty, Watched
<1>4. CASE GoesOn(t, job, p)
  BY <1>1, <1>4 DEF GoesOn, Watched
<1> QED BY <1>1, <1>2, <1>3, <1>4

\* A price that a task judges.
LEMMA JudgedGhost ==
  ASSUME IInv, ReadEmpty, NEW t \in Tasks, NEW ref \in MaybePosition, NEW attached \in BOOLEAN,
         Judged(t, ref, attached)
  PROVE  UNCHANGED <<clamp, sync, rows, held, restarts>> /\ Watched
<1>0. ref.qty \in 0 .. Lot /\ pos \in MaybePosition
  BY Numbers DEF MaybePosition, Position, NoPosition, IInv, TypeOK
<1>1. CASE ExitSignal(t, ref, attached)
  <2> DEFINE x == [Idle EXCEPT !.kind = "exit", !.qty = ref.qty, !.attached = attached]
  <2>1. x \in Task /\ StartSell(t, x, pos, TRUE)
    BY <1>0, <1>1, IdleTask DEF Task, Kinds, ExitSignal
  <2> HIDE DEF x
  <2> QED BY <1>0, <2>1, StartSellGhost DEF Managed
<1>2. CASE TargetSignal(t, ref, attached) \/ NoSignal(t)
  BY <1>2 DEF TargetSignal, NoSignal, broker, Watched, Managed
<1> QED BY <1>1, <1>2 DEF Judged

\* The callers of execute_sell, and a task cut short.
LEMMA CallersGhost ==
  ASSUME IInv, ReadEmpty, NEW t \in Tasks,
         OnTick(t) \/ RestPick(t) \/ RestPrice(t) \/ Harvest(t) \/ DirectSell(t) \/ CutShort(t)
  PROVE  UNCHANGED <<clamp, sync, rows, held, restarts>> /\ Watched
<1>0. pos \in MaybePosition /\ task[t] \in Task
  BY DEF IInv, TypeOK, MaybePosition
<1>1. CASE OnTick(t)
  BY <1>0, <1>1, JudgedGhost DEF OnTick
<1>2. CASE RestPick(t) \/ CutShort(t)
  BY <1>2 DEF RestPick, CutShort, database, broker, Watched, Managed
<1>3. CASE RestPrice(t)
  <2>1. Ref(t) \in MaybePosition /\ task[t].attached \in BOOLEAN
    BY <1>0 DEF Ref, Task, MaybePosition
  <2> QED BY <1>3, <2>1, JudgedGhost DEF RestPrice
<1>4. CASE Harvest(t)
  <2> DEFINE p == IF task[t].attached THEN [pos EXCEPT !.harvested = TRUE] ELSE pos
  <2>1. p \in MaybePosition /\ (Managed => p # NoPosition)
    BY <1>0, MarkPosition, Numbers DEF MaybePosition, Managed, IInv, TaskInv
  <2>2. ASSUME NEW q \in 1 .. task[t].qty, NEW kind \in Kinds, NEW c,
               StartSell(t, [task[t] EXCEPT !.kind = kind, !.qty = q, !.left = task[t].qty - q], p, c)
        PROVE  UNCHANGED <<clamp, sync, rows, held, restarts>> /\ Watched
    <3> DEFINE x == [task[t] EXCEPT !.kind = kind, !.qty = q, !.left = task[t].qty - q]
    <3>1. x \in Task
      <4>1. q \in 0 .. Lot /\ task[t].qty - q \in 0 .. Lot
        BY <1>0, LotAssumption DEF Task
      <4> QED BY <1>0, <4>1 DEF Task
    <3>2. StartSell(t, x, p, c)
      BY <2>2
    <3> HIDE DEF x, p
    <3> QED BY <2>1, <3>1, <3>2, StartSellGhost
  <2>3. CASE NoSignal(t)
    BY <2>3 DEF NoSignal, broker, Watched, Managed
  <2>4. {"harvest", "harvest_all"} \subseteq Kinds
    BY DEF Kinds
  <2> QED BY <1>4, <2>2, <2>3, <2>4 DEF Harvest
<1>5. CASE DirectSell(t)
  <2>1. PICK q \in 1 .. Lot : StartSell(t, [Idle EXCEPT !.kind = "direct", !.qty = q], pos, closing)
    BY <1>5 DEF DirectSell
  <2> DEFINE x == [Idle EXCEPT !.kind = "direct", !.qty = q]
  <2>2. x \in Task
    <3>1. q \in 0 .. Lot
      BY <2>1, LotAssumption
    <3> QED BY <3>1, IdleTask DEF Task, Kinds
  <2>3. StartSell(t, x, pos, closing)
    BY <2>1
  <2> HIDE DEF x
  <2> QED BY <1>0, <2>2, <2>3, StartSellGhost DEF Managed
<1> QED BY <1>1, <1>2, <1>3, <1>4, <1>5

\* They keep the invariant.
LEMMA CallersKeepGhost ==
  ASSUME IInv, IInv', GhostInv, NEW t \in Tasks,
         OnTick(t) \/ RestPick(t) \/ RestPrice(t) \/ Harvest(t) \/ DirectSell(t) \/ CutShort(t)
  PROVE  GhostInv'
<1>1. UNCHANGED <<clamp, sync, rows, held, restarts>> /\ Watched
  BY CallersGhost DEF GhostInv
<1>2. Forward /\ ReadEmpty'
  BY <1>1, LotAssumption, RestartAssumption DEF Forward, Existing, ReadEmpty, GhostInv, IInv, TypeOK
<1> QED BY <1>1, <1>2, GhostFollows

\* So do the steps inside execute_sell: the clamp drops the position for an empty account,
\* a saved row is behind the rest.
LEMMA SellKeepsGhost ==
  ASSUME IInv, IInv', GhostInv, NEW t \in Tasks, SellStep(t)
  PROVE  GhostInv'
<1>0. pos \in MaybePosition /\ held \in Nat /\ restarts \in Nat /\ rows \in [Rows -> Row]
      /\ (task[t].attached => Managed)
  BY LotAssumption, RestartAssumption DEF IInv, TypeOK, MaybePosition, TaskInv
<1>1. ASSUME UNCHANGED <<clamp, sync, rows, held, restarts>>, Watched PROVE GhostInv'
  <2>1. Forward /\ ReadEmpty'
    BY <1>0, <1>1 DEF Forward, Existing, ReadEmpty, GhostInv
  <2> QED BY <1>1, <2>1, GhostFollows
<1>2. CASE ClampReply(t)
  <2>1. UNCHANGED <<sync, rows, held, restarts>> /\ clamp' \in {clamp, held}
    BY <1>2 DEF ClampReply, database, broker
  <2>2. Watched
    BY <1>2, <2>1 DEF ClampReply, Clamped, Watched, Managed
  <2>3. Forward /\ ReadEmpty'
    BY <1>0, <2>1 DEF Forward, Existing, ReadEmpty, GhostInv
  <2> QED BY <2>2, <2>3, GhostFollows
<1>3. CASE (\E k \in Orders : Accepted(t, k)) \/ Rejected(t)
  <2>1. UNCHANGED <<pos, clamp, sync, rows, held, restarts>>
    BY <1>3 DEF Accepted, Rejected, database, broker
  <2> QED BY <1>1, <2>1 DEF Watched, Managed
<1>4. CASE Raised(t)
  <2>1. UNCHANGED <<clamp, sync, rows, held, restarts>>
    BY <1>4 DEF Raised, database
  <2>2. pos' = pos \/ pos' = Unharvested(t, task[t].kind, pos)
    BY <1>4 DEF Raised, Failed, Refused
  <2>3. Watched
    BY <1>0, <2>2, UnharvestedPosition DEF Watched, Managed
  <2> QED BY <1>1, <2>1, <2>3
<1>5. ASSUME NEW r \in Rows, Record(t, r) PROVE GhostInv'
  <2>1. UNCHANGED <<clamp, sync, held, restarts>>
    BY <1>5 DEF Record, broker
  <2>2. rows'[r].status \in Unverified /\ \A s \in Rows : s # r => rows'[s] = rows[s]
    BY <1>0, <1>5 DEF Record, Unverified
  <2>3. Existing \subseteq Existing' /\ Existing' # {}
    BY <2>2 DEF Existing, Unverified
  <2>4. Forward /\ ReadEmpty' /\ Watched
    BY <1>0, <2>1, <2>3 DEF Forward, ReadEmpty, GhostInv, Watched
  <2> QED BY <2>4, GhostFollows
<1> QED BY <1>2, <1>3, <1>4, <1>5 DEF SellStep

\* The account sync, the repairs of rows, the broker and the timeouts.
LEMMA RepairKeepsGhost ==
  ASSUME IInv, IInv', GhostInv,
         \/ SyncRead \/ SyncApply \/ CooldownExpires \/ ClampExpires
         \/ \E r \in Rows : Poll(r) \/ Reconcile(r)
         \/ \E k \in Orders : Execute(k) \/ Expire(k)
         \/ UNCHANGED vars
  PROVE  GhostInv'
<1>0. /\ pos \in MaybePosition /\ held \in Nat /\ held' \in Nat /\ restarts \in Nat
      /\ rows \in [Rows -> Row]
  BY LotAssumption, RestartAssumption DEF IInv, TypeOK, MaybePosition
<1>1. ASSUME UNCHANGED <<held, restarts>>, Existing \subseteq Existing', Watched,
             clamp' \in {clamp, held, Unknown}, sync' \in {sync, held, Unknown}
      PROVE  GhostInv'
  <2>1. Forward /\ ReadEmpty'
    BY <1>0, <1>1 DEF Forward, ReadEmpty, GhostInv, Unknown
  <2> QED BY <1>1, <2>1, GhostFollows
<1>2. CASE SyncApply
  <2>1. UNCHANGED <<clamp, rows, held, restarts>> /\ sync' = Unknown
    BY <1>2 DEF SyncApply, broker
  <2>2. Watched
    <3>1. CASE Managed /\ sync > 0 /\ pos' = [pos EXCEPT !.qty = sync]
      <4>1. [pos EXCEPT !.qty = sync] # NoPosition
        <5>1. [pos EXCEPT !.qty = sync].qty = sync
          BY <1>0, <3>1, Numbers DEF MaybePosition, Managed, Position
        <5> QED BY <3>1, <5>1 DEF NoPosition
      <4> QED BY <3>1, <4>1 DEF Watched
    <3>2. CASE Managed /\ sync = 0
      BY <2>1, <3>2 DEF Watched, ReadEmpty, GhostInv
    <3> QED BY <1>2, <3>1, <3>2 DEF SyncApply, Watched, Managed
  <2> QED BY <1>1, <2>1, <2>2 DEF Existing
<1>3. CASE SyncRead \/ CooldownExpires \/ ClampExpires
  <2>1. UNCHANGED <<pos, rows, held, restarts>> /\ clamp' \in {clamp, Unknown} /\ sync' \in {sync, held}
    BY <1>3 DEF SyncRead, CooldownExpires, ClampExpires, database, broker
  <2> QED BY <1>1, <2>1 DEF Existing, Watched, Managed
<1>4. ASSUME NEW r \in Rows, Poll(r) \/ Reconcile(r) PROVE GhostInv'
  <2>1. UNCHANGED <<pos, clamp, sync, held, restarts>>
    BY <1>4 DEF Poll, Reconcile, memory, broker
  <2>2. rows'[r].status # "none" /\ \A s \in Rows : s # r => rows'[s] = rows[s]
    BY <1>0, <1>4 DEF Poll, Reconcile, Row
  <2> QED BY <1>1, <2>1, <2>2 DEF Existing, Watched, Managed
<1>5. ASSUME NEW k \in Orders, Execute(k) \/ Expire(k) PROVE GhostInv'
  <2>1. UNCHANGED <<pos, clamp, sync, rows, restarts>>
    BY <1>5 DEF Execute, Expire, memory, database
  <2>2. held' <= held
    <3>1. CASE Execute(k)
      <4>1. kis[k].qty \in Int /\ kis[k].done \in Int
        BY LotAssumption DEF IInv, TypeOK, KisOrder
      <4>2. PICK n \in 1 .. (kis[k].qty - kis[k].done) : held' = held - n
        BY <3>1 DEF Execute
      <4> QED BY <1>0, <4>1, <4>2
    <3>2. CASE Expire(k)
      BY <1>0, <3>2 DEF Expire
    <3> QED BY <1>5, <3>1, <3>2
  <2> QED BY <1>0, <2>1, <2>2, GhostFollows DEF Forward, Existing, Watched, Managed, ReadEmpty, GhostInv
<1>6. CASE UNCHANGED vars
  <2>1. UNCHANGED <<pos, clamp, sync, rows, held, restarts>>
    BY <1>6 DEF vars, memory, database, broker
  <2> QED BY <1>1, <2>1 DEF Existing, Watched, Managed
<1> QED BY <1>2, <1>3, <1>4, <1>5, <1>6

\* No rows add up to nothing.
LEMMA NothingSold ==
  ASSUME Existing = {}
  PROVE  SoldQty({"filled"}) = 0
<1> DEFINE S == {r \in Rows : rows[r].status \in {"filled"}}
<1> DEFINE Own(g) == g = [s \in SUBSET {} |-> IF s = {} THEN 0
                          ELSE rows[CHOOSE x \in s : TRUE].qty + g[s \ {CHOOSE x \in s : TRUE}]]
<1>1. S = {}
  BY DEF Existing
<1>2. SoldQty({"filled"}) = (CHOOSE g : Own(g))[{}]
  BY <1>1 DEF SoldQty, MapThenSumSet, MapThenFoldSet
<1>3. Own([s \in SUBSET {} |-> 0])
  OBVIOUS
<1>4. \A g : Own(g) => g[{}] = 0
  OBVIOUS
<1> HIDE DEF Own
<1> QED BY <1>2, <1>3, <1>4

\* A restart restores what was bought today while no sell has a row.
LEMMA RestartKeepsGhost ==
  ASSUME IInv, IInv', GhostInv, Restart
  PROVE  GhostInv'
<1>1. UNCHANGED <<rows, held>> /\ clamp' = Unknown /\ sync' = Unknown /\ restarts' = restarts + 1
  BY DEF Restart, broker
<1>2. held \in Nat /\ restarts \in Nat
  BY LotAssumption, RestartAssumption DEF IInv, TypeOK
<1>3. ASSUME Existing = {}, BuyQty # 0 PROVE pos' # NoPosition
  <2>1. SoldQty({"filled"}) = 0 /\ BuyQty \in 1 .. Lot /\ BuyQty > 0 /\ BuyQty - 0 = BuyQty
    BY <1>3, NothingSold, BuyAssumption, LotAssumption
  <2>2. ActiveSells = {}
    BY <1>3 DEF ActiveSells, Existing, Unverified
  <2>3. Restorable
    BY <2>1, <2>2 DEF Restorable
  <2>4. pos'.qty = BuyQty
    BY <2>1, <2>3 DEF Restart
  <2> QED BY <2>1, <2>4 DEF NoPosition
<1>4. Watched
  BY <1>1, <1>2, <1>3 DEF Watched, Existing
<1>5. Forward /\ ReadEmpty'
  BY <1>1, <1>2 DEF Forward, Existing, ReadEmpty, Unknown
<1> QED BY <1>4, <1>5, GhostFollows

\* The reads of an empty account and the ghost holding, together.
THEOREM GhostInvariance == Spec => []GhostInv
<1>1. Init => GhostInv
  BY LotAssumption, Numbers DEF Init, GhostInv, ReadEmpty, UnmanagedBehindSell, Managed, NoPosition, Unknown
<1>2. IInv /\ IInv' /\ GhostInv /\ [Next]_vars => GhostInv'
  <2> SUFFICES ASSUME IInv, IInv', GhostInv, [Next]_vars PROVE GhostInv'
    OBVIOUS
  <2> USE DEF Tasks
  <2>1. CASE \/ \E t \in Ticks : OnTick(t) \/ CutShort(t)
             \/ \E t \in Rests : RestPick(t) \/ RestPrice(t)
             \/ \E t \in Ticks \cup Rests : Harvest(t)
             \/ \E t \in Directs : DirectSell(t)
    BY <2>1, CallersKeepGhost
  <2>2. CASE \E t \in Tasks : SellStep(t)
    BY <2>2, SellKeepsGhost
  <2>3. CASE \/ SyncRead \/ SyncApply \/ CooldownExpires \/ ClampExpires
             \/ \E r \in Rows : Poll(r) \/ Reconcile(r)
             \/ \E k \in Orders : Execute(k) \/ Expire(k)
             \/ UNCHANGED vars
    BY <2>3, RepairKeepsGhost
  <2>4. CASE Restart
    BY <2>4, RestartKeepsGhost
  <2> QED BY <2>1, <2>2, <2>3, <2>4 DEF Next
<1> QED BY <1>1, <1>2, Invariance, PTL DEF Spec

\* Whoever drops the position, shares in the account are unmanaged only behind a sell order
\* row, or after a restart when they were not bought today: a clamp or a sync that applies a
\* balance of the past, a failed or cancelled sell, or a restart loses none.
THEOREM NoGhost == Spec => []UnmanagedBehindSell
<1>1. GhostInv => UnmanagedBehindSell
  BY DEF GhostInv
<1> QED BY <1>1, GhostInvariance, PTL

-------------------------------------------------------------------------------
(* One task at a time *)

\* A task only gets past the guards when there is no unverified sell.
Guarded == \A t \in Tasks : PastGuards(t)' => PastGuards(t) \/ ActiveSells = {}

\* remove_position moves no task.
LEMMA DetachedPc ==
  ASSUME NEW tasks \in [Tasks -> Task], NEW p, NEW t \in Tasks
  PROVE  Detached(tasks, p)[t].pc = tasks[t].pc
  BY DEF Detached, Task

\* Task t gets the record x, the others stay where they are.
LEMMA OneMoves ==
  ASSUME IInv, NEW t \in Tasks, NEW x \in Task,
         \/ task' = [task EXCEPT ![t] = x]
         \/ \E p : task' = Detached([task EXCEPT ![t] = x], p),
         x.pc \in {"clamp", "submit", "record"} => PastGuards(t) \/ ActiveSells = {}
  PROVE  Guarded
<1> DEFINE tasks == [task EXCEPT ![t] = x]
<1>1. tasks \in [Tasks -> Task] /\ tasks[t] = x /\ \A s \in Tasks : s # t => tasks[s] = task[s]
  BY DEF IInv, TypeOK
<1>2. \A s \in Tasks : task'[s].pc = tasks[s].pc
  <2>1. CASE task' = tasks
    BY <2>1
  <2>2. ASSUME NEW p, task' = Detached(tasks, p)
        PROVE  \A s \in Tasks : task'[s].pc = tasks[s].pc
    <3> HIDE DEF tasks
    <3> QED BY <1>1, <2>2, DetachedPc
  <2> QED BY <2>1, <2>2
<1> HIDE DEF tasks
<1> QED BY <1>1, <1>2 DEF Guarded, PastGuards

\* A call of execute_sell gets past its guards with no unverified sell only.
LEMMA StartSellGuarded ==
  ASSUME IInv, NEW t \in Tasks, NEW job \in Task, NEW p, NEW c, StartSell(t, job, p, c)
  PROVE  Guarded
<1> DEFINE guarded == [job EXCEPT !.older = Existing]
<1>1. ASSUME Refused(t, job.kind, p, FALSE) \/ Refused(t, job.kind, p, c) PROVE Guarded
  BY <1>1, OneMoves, IdleTask DEF Refused
<1>2. guarded \in Task
  BY DEF Task, Existing
<1>3. ASSUME ~DuplicateSell, Clamped(t, guarded, p, c, clamp), clamp # Unknown PROVE Guarded
  <2> DEFINE x == [guarded EXCEPT !.pc = "submit", !.qty = IF clamp < @ THEN clamp ELSE @]
  <2>1. CASE clamp = 0
    BY <1>3, <2>1, OneMoves, IdleTask DEF Clamped
  <2>2. CASE clamp # 0
    <3>1. x \in Task
      <4>1. (IF clamp < guarded.qty THEN clamp ELSE guarded.qty) \in 0 .. Lot
        BY <1>2, <1>3, Numbers DEF IInv, TypeOK, Task
      <4> HIDE DEF guarded
      <4> QED BY <1>2, <4>1 DEF Task
    <3>2. task' = [task EXCEPT ![t] = x]
      BY <1>3, <2>2 DEF Clamped
    <3> HIDE DEF x
    <3> QED BY <1>3, <3>1, <3>2, OneMoves DEF DuplicateSell
  <2> QED BY <2>1, <2>2
<1>4. ASSUME ~DuplicateSell, NEW pc \in {"clamp", "submit"},
             task' = [task EXCEPT ![t] = [guarded EXCEPT !.pc = pc]]
      PROVE  Guarded
  <2> DEFINE x == [guarded EXCEPT !.pc = pc]
  <2>1. x \in Task
    BY <1>2 DEF Task
  <2> HIDE DEF x
  <2>2. task' = [task EXCEPT ![t] = x]
    BY <1>4 DEF x
  <2> QED BY <1>4, <2>1, <2>2, OneMoves DEF DuplicateSell
<1>5. ASSUME ~cooldown, ~DuplicateSell, ~NetClosed PROVE Guarded
  <2>1. IF ClampEnabled /\ clamp # Unknown
          THEN Clamped(t, guarded, p, c, clamp)
          ELSE task' = [task EXCEPT ![t] = [guarded EXCEPT
                    !.pc = IF ClampEnabled THEN "clamp" ELSE "submit"]]
    BY <1>5 DEF StartSell
  <2> HIDE DEF guarded
  <2>2. CASE ClampEnabled /\ clamp # Unknown
    BY <1>3, <1>5, <2>1, <2>2
  <2>3. CASE ~(ClampEnabled /\ clamp # Unknown)
    BY <1>4, <1>5, <2>1, <2>3
  <2> QED BY <2>2, <2>3
<1> QED BY <1>1, <1>5 DEF StartSell

\* So does a price that makes a task sell.
LEMMA JudgedGuarded ==
  ASSUME IInv, NEW t \in Tasks, NEW ref \in MaybePosition, NEW attached \in BOOLEAN,
         Judged(t, ref, attached)
  PROVE  Guarded
<1>0. ref.qty \in 0 .. Lot
  BY Numbers DEF MaybePosition, Position, NoPosition
<1>1. CASE ExitSignal(t, ref, attached)
  <2> DEFINE x == [Idle EXCEPT !.kind = "exit", !.qty = ref.qty, !.attached = attached]
  <2>1. x \in Task /\ StartSell(t, x, pos, TRUE)
    BY <1>0, <1>1, IdleTask DEF Task, Kinds, ExitSignal
  <2> HIDE DEF x
  <2> QED BY <2>1, StartSellGuarded
<1>2. CASE TargetSignal(t, ref, attached)
  <2> DEFINE x == [Idle EXCEPT !.pc = "target", !.qty = ref.qty, !.attached = attached]
  <2>1. x \in Task /\ x.pc = "target" /\ task' = [task EXCEPT ![t] = x]
    BY <1>0, <1>2, IdleTask DEF Task, TargetSignal
  <2> HIDE DEF x
  <2> QED BY <2>1, OneMoves
<1>3. CASE NoSignal(t)
  BY <1>3, OneMoves, IdleTask DEF NoSignal
<1> QED BY <1>1, <1>2, <1>3 DEF Judged

\* A task cut short is past no guard.
LEMMA CutShortGuarded ==
  ASSUME IInv, NEW t \in Tasks, CutShort(t) PROVE Guarded /\ rows' = rows
<1>1. task' = [task EXCEPT ![t] = Idle] /\ rows' = rows
  BY DEF CutShort, database
<1> QED BY <1>1, OneMoves, IdleTask DEF Idle

\* So does every caller, and none of them writes a row.
LEMMA CallersGuarded ==
  ASSUME IInv, NEW t \in Tasks,
         OnTick(t) \/ RestPick(t) \/ RestPrice(t) \/ Harvest(t) \/ DirectSell(t)
  PROVE  Guarded /\ rows' = rows
<1>1. CASE OnTick(t)
  <2>1. Guarded
    BY <1>1, JudgedGuarded DEF OnTick, IInv, TypeOK, MaybePosition
  <2> QED BY <1>1, <2>1 DEF OnTick, Judged, ExitSignal, TargetSignal, NoSignal, StartSell
<1>2. CASE RestPick(t)
  <2> DEFINE x == [Idle EXCEPT !.pc = "price", !.attached = TRUE]
  <2>1. x \in Task /\ x.pc = "price" /\ task' = [task EXCEPT ![t] = x]
    BY <1>2, IdleTask DEF Task, RestPick
  <2> HIDE DEF x
  <2> QED BY <1>2, <2>1, OneMoves DEF RestPick, database
<1>3. CASE RestPrice(t)
  <2>1. Ref(t) \in MaybePosition /\ task[t].attached \in BOOLEAN
    BY DEF Ref, IInv, TypeOK, Task, MaybePosition
  <2>2. Judged(t, Ref(t), task[t].attached)
    BY <1>3 DEF RestPrice
  <2> QED BY <2>1, <2>2, JudgedGuarded DEF Judged, ExitSignal, TargetSignal, NoSignal, StartSell
<1>4. CASE Harvest(t)
  <2>1. ASSUME NEW q \in 1 .. task[t].qty, NEW kind \in Kinds, NEW p, NEW c,
               StartSell(t, [task[t] EXCEPT !.kind = kind, !.qty = q, !.left = task[t].qty - q], p, c)
        PROVE  Guarded /\ rows' = rows
    <3> DEFINE x == [task[t] EXCEPT !.kind = kind, !.qty = q, !.left = task[t].qty - q]
    <3>1. x \in Task
      <4>1. task[t] \in Task /\ q \in 0 .. Lot /\ task[t].qty - q \in 0 .. Lot
        BY LotAssumption DEF IInv, TypeOK, Task
      <4> QED BY <4>1 DEF Task
    <3>2. StartSell(t, x, p, c)
      BY <2>1
    <3> HIDE DEF x
    <3> QED BY <3>1, <3>2, StartSellGuarded DEF StartSell
  <2>2. CASE NoSignal(t)
    BY <2>2, OneMoves, IdleTask DEF NoSignal
  <2>3. {"harvest", "harvest_all"} \subseteq Kinds
    BY DEF Kinds
  <2> QED BY <1>4, <2>1, <2>2, <2>3 DEF Harvest
<1>5. CASE DirectSell(t)
  <2>1. PICK q \in 1 .. Lot : StartSell(t, [Idle EXCEPT !.kind = "direct", !.qty = q], pos, closing)
    BY <1>5 DEF DirectSell
  <2> DEFINE x == [Idle EXCEPT !.kind = "direct", !.qty = q]
  <2>2. x \in Task
    <3>1. q \in 0 .. Lot
      BY <2>1, LotAssumption
    <3> QED BY <3>1, IdleTask DEF Task, Kinds
  <2>3. StartSell(t, x, pos, closing)
    BY <2>1
  <2> HIDE DEF x
  <2> QED BY <2>2, <2>3, StartSellGuarded DEF StartSell
<1> QED BY <1>1, <1>2, <1>3, <1>4, <1>5

\* Inside execute_sell no other task gets past the guards, and no row is written.
LEMMA SellStepGuarded ==
  ASSUME IInv, NEW t \in Tasks,
         ClampReply(t) \/ (\E k \in Orders : Accepted(t, k)) \/ Rejected(t) \/ Raised(t)
  PROVE  Guarded /\ rows' = rows
<1>1. PastGuards(t) /\ rows' = rows /\ task[t] \in Task /\ task \in [Tasks -> Task]
  BY DEF ClampReply, Accepted, Rejected, Raised, PastGuards, database, IInv, TypeOK
<1>2. \A s \in Tasks : s # t => task'[s].pc = task[s].pc
  <2>1. ASSUME NEW x, task' = [task EXCEPT ![t] = x]
        PROVE  \A s \in Tasks : s # t => task'[s].pc = task[s].pc
    BY <1>1, <2>1
  <2>2. ASSUME NEW p, task' = Detached([task EXCEPT ![t] = Idle], p)
        PROVE  \A s \in Tasks : s # t => task'[s].pc = task[s].pc
    <3> DEFINE tasks == [task EXCEPT ![t] = Idle]
    <3>1. tasks \in [Tasks -> Task] /\ \A s \in Tasks : s # t => tasks[s] = task[s]
      BY <1>1, IdleTask
    <3> HIDE DEF tasks
    <3>2. task' = Detached(tasks, p)
      BY <2>2 DEF tasks
    <3> QED BY <3>1, <3>2, DetachedPc
  <2>3. CASE ClampReply(t)
    BY <2>1, <2>2, <2>3 DEF ClampReply, Clamped
  <2>4. CASE Raised(t)
    BY <2>1, <2>4 DEF Raised, Failed, Refused
  <2>5. CASE (\E k \in Orders : Accepted(t, k)) \/ Rejected(t)
    BY <2>5, <1>1 DEF Accepted, Rejected
  <2> QED BY <2>3, <2>4, <2>5
<1> QED BY <1>1, <1>2 DEF Guarded, PastGuards

\* Repair, broker, time and restarts let no task past the guards.
LEMMA RestGuarded ==
  ASSUME IInv,
         \/ SyncRead \/ SyncApply \/ CooldownExpires \/ ClampExpires \/ Restart
         \/ \E r \in Rows : Poll(r) \/ Reconcile(r)
         \/ \E k \in Orders : Execute(k) \/ Expire(k)
         \/ UNCHANGED vars
  PROVE  Guarded /\ ActiveSells' \subseteq ActiveSells
<1>0. task \in [Tasks -> Task] /\ rows \in [Rows -> Row]
  BY DEF IInv, TypeOK
<1>1. ASSUME NEW r \in Rows, Poll(r) \/ Reconcile(r)
      PROVE  Guarded /\ ActiveSells' \subseteq ActiveSells
  <2>1. /\ task' = task /\ \A s \in Rows : s # r => rows'[s] = rows[s]
        /\ rows'[r].status \in {"filled", "partial", "cancelled"}
    BY <1>0, <1>1 DEF Poll, Reconcile, memory, Row
  <2> QED BY <2>1 DEF Guarded, PastGuards, ActiveSells, Unverified
<1>2. CASE \/ SyncRead \/ CooldownExpires \/ ClampExpires
           \/ \E k \in Orders : Execute(k) \/ Expire(k)
           \/ UNCHANGED vars
  <2>1. task' = task /\ rows' = rows
    BY <1>2 DEF SyncRead, CooldownExpires, ClampExpires, Execute, Expire, vars, memory, database
  <2> QED BY <2>1 DEF Guarded, PastGuards, ActiveSells
<1>3. CASE SyncApply
  <2>1. rows' = rows /\ (task' = task \/ task' = Detached(task, pos))
    BY <1>3 DEF SyncApply
  <2>2. \A t \in Tasks : task'[t].pc = task[t].pc
    BY <1>0, <2>1, DetachedPc
  <2> QED BY <2>1, <2>2 DEF Guarded, PastGuards, ActiveSells
<1>4. CASE Restart
  BY <1>4, IdleTask DEF Restart, Guarded, PastGuards, ActiveSells
<1> QED BY <1>1, <1>2, <1>3, <1>4

\* With one task, the guards of a sell still hold when its row is saved.
LEMMA SerialKeeps ==
  ASSUME OneTask
  PROVE  IInv /\ SerialInv /\ [Next]_vars => SerialInv'
<1> SUFFICES ASSUME IInv, SerialInv, [Next]_vars PROVE SerialInv'
  OBVIOUS
<1> DEFINE Quiet == Guarded /\ ActiveSells' \subseteq ActiveSells
<1>1. ASSUME Quiet PROVE SerialInv'
  BY <1>1 DEF SerialInv, Guarded
<1>2. ASSUME Guarded, rows' = rows PROVE Quiet
  BY <1>2 DEF ActiveSells
<1>3. ASSUME NEW t \in Tasks, NEW r \in Rows, Record(t, r) PROVE SerialInv'
  <2>1. ActiveSells = {} /\ task \in [Tasks -> Task]
    BY <1>3 DEF SerialInv, Record, PastGuards, IInv, TypeOK
  <2>2. \A s \in Rows : s # r => rows'[s] = rows[s]
    BY <1>3 DEF Record, IInv, TypeOK
  <2>3. \A s \in ActiveSells' : s = r
    BY <2>1, <2>2 DEF ActiveSells
  <2>4. task'[t].pc = "idle"
    <3> DEFINE done == [task EXCEPT ![t] = Idle]
    <3>1. done \in [Tasks -> Task] /\ done[t].pc = "idle"
      BY <2>1, IdleTask
    <3>2. task' = done \/ task' = Detached(done, pos)
      BY <1>3 DEF Record
    <3> HIDE DEF done
    <3> QED BY <3>1, <3>2, DetachedPc
  <2>5. \A s \in Tasks : ~PastGuards(s)'
    BY <2>4 DEF OneTask, PastGuards
  <2> QED BY <2>3, <2>5 DEF SerialInv
<1> HIDE DEF Quiet
<1> USE DEF Tasks
<1>4. CASE \/ \E t \in Ticks : OnTick(t) \/ CutShort(t)
           \/ \E t \in Rests : RestPick(t) \/ RestPrice(t)
           \/ \E t \in Ticks \cup Rests : Harvest(t)
           \/ \E t \in Directs : DirectSell(t)
  BY <1>1, <1>2, <1>4, CallersGuarded, CutShortGuarded
<1>5. CASE \E t \in Tasks : SellStep(t)
  BY <1>1, <1>2, <1>3, <1>5, SellStepGuarded DEF SellStep
<1>6. CASE \/ SyncRead \/ SyncApply \/ CooldownExpires \/ ClampExpires \/ Restart
           \/ \E r \in Rows : Poll(r) \/ Reconcile(r)
           \/ \E k \in Orders : Execute(k) \/ Expire(k)
           \/ UNCHANGED vars
  BY <1>1, <1>6, RestGuarded DEF Quiet
<1> QED BY <1>4, <1>5, <1>6 DEF Next

\* When no two tasks are in execute_sell together, its duplicate guard leaves at
\* most one unverified sell of the symbol, whatever rows, orders and restarts.
THEOREM SerialSells ==
  ASSUME OneTask
  PROVE  Spec => []AtMostOneActiveSell
<1>1. Init => SerialInv
  BY IdleTask DEF Init, SerialInv, ActiveSells, Unverified, NoRow, PastGuards
<1>2. IInv /\ SerialInv /\ [Next]_vars => SerialInv'
  BY SerialKeeps
<1>3. SerialInv => AtMostOneActiveSell
  <2> SUFFICES ASSUME SerialInv PROVE Cardinality(ActiveSells) <= 1
    BY DEF AtMostOneActiveSell
  <2>1. CASE ActiveSells = {}
    BY <2>1, FS_EmptySet
  <2>2. ASSUME NEW r \in ActiveSells PROVE Cardinality(ActiveSells) <= 1
    <3>1. ActiveSells = {r}
      BY <2>2 DEF SerialInv
    <3> QED BY <3>1, FS_Singleton
  <2> QED BY <2>1, <2>2
<1> QED BY <1>1, <1>2, <1>3, Invariance, PTL DEF Spec
-------------------------------------------------------------------------------
(* The scale-out: once per position *)

\* A part was sold for profit; a sell of execute_sell that takes the profit is under way.
Taken      == \E r \in Rows : rows[r].partial
Scaling(t) == PastGuards(t) /\ task[t].kind \in Harvests

\* Then the saved marks say so, and those of the managed position.
MarkInv == Taken => HarvestedToday /\ (Managed => pos.harvested)

\* What the task knows of it. A position that was dropped under a task stays dropped: the
\* account had been read as empty.
ScaleInv(t) ==
  /\ task[t].pc = "price" /\ Taken => Ref(t).harvested
  /\ task[t].pc = "target" \/ Scaling(t) => ~Taken
  /\ Scaling(t) /\ task[t].attached => pos.harvested
  /\ task[t].pc \in {"price", "target"} \/ Scaling(t) =>
       task[t].attached \/ (held = 0 /\ ~Managed /\ sync \in {0, Unknown})

TakenOnce == \A r, s \in Rows : rows[r].partial /\ rows[s].partial => r = s

ScaleOut == TakenOnce /\ MarkInv /\ \A t \in Tasks : ScaleInv(t)

\* A task that lets go of the symbol knows nothing.
LEMMA IdleScales ==
  ASSUME NEW t \in Tasks, task'[t] = Idle
  PROVE  ScaleInv(t)'
  BY DEF ScaleInv, Scaling, PastGuards, Idle

\* A step that writes no row.
LEMMA ScaleFollows ==
  ASSUME OneTask, ScaleOut, UNCHANGED rows, MarkInv', NEW t \in Tasks, ScaleInv(t)'
  PROVE  ScaleOut'
<1>1. \A s \in Tasks : s = t
  BY DEF OneTask
<1> QED BY <1>1 DEF ScaleOut, TakenOnce

\* The task is idle after a refusal, and when the clamp has dropped the position.
LEMMA LetsGo ==
  ASSUME IInv, NEW t \in Tasks, task' = [task EXCEPT ![t] = Idle] \/ Drops(t)
  PROVE  task'[t] = Idle
<1> DEFINE tasks == [task EXCEPT ![t] = Idle]
<1>1. tasks[t] = Idle /\ ~tasks[t].attached
  BY IdleTask DEF IInv, TypeOK
<1> HIDE DEF tasks
<1>2. ASSUME NEW q, task' = Detached(tasks, q) PROVE task'[t] = Idle
  BY <1>1, <1>2 DEF Detached
<1>3. task' = tasks \/ \E q : task' = Detached(tasks, q)
  BY DEF Drops, tasks
<1> QED BY <1>1, <1>2, <1>3

\* A refusal takes a mark back, but never of a part that was sold.
LEMMA MarkStays ==
  ASSUME IInv, NEW t \in Tasks, NEW kind, NEW p \in MaybePosition, task[t].attached => p # NoPosition,
         p = NoPosition \/ p.harvested, kind \notin Harvests
  PROVE  Unharvested(t, kind, p) = NoPosition \/ Unharvested(t, kind, p).harvested
  BY DEF Unharvested

\* A call of execute_sell for an exit, a scale-out or a direct sell. The mark is set, for a
\* scale-out that has the position, before the call.
LEMMA StartSellScales ==
  ASSUME IInv, ScaleOut, OneTask, NEW t \in Tasks, NEW job \in Task, NEW p \in MaybePosition,
         NEW c, StartSell(t, job, p, c),
         Managed <=> p # NoPosition,
         Taken => HarvestedToday' /\ (p # NoPosition => p.harvested),
         job.kind \in Harvests => /\ ~Taken
                                  /\ job.attached => p.harvested
                                  /\ job.attached \/ (held = 0 /\ ~Managed /\ sync \in {0, Unknown})
  PROVE  ScaleOut'
<1>1. /\ UNCHANGED <<clamp, sync, rows, held, restarts>>
      /\ GivesUp(t, job.kind, p) \/ (clamp = 0 /\ Drops(t)) \/ GoesOn(t, job, p)
  BY StartSellEffect
<1>2. Taken' <=> Taken
  BY <1>1 DEF Taken
<1>3. CASE GivesUp(t, job.kind, p)
  <2>1. task[t].attached => Managed
    BY DEF IInv, TaskInv
  <2>2. MarkInv'
    <3>1. CASE job.kind \in Harvests
      BY <1>2, <3>1 DEF MarkInv
    <3>2. CASE job.kind \notin Harvests
      BY <1>2, <1>3, <2>1, <3>2, MarkStays DEF MarkInv, GivesUp, Managed
    <3> QED BY <3>1, <3>2
  <2>3. ScaleInv(t)'
    BY <1>3, LetsGo, IdleScales DEF GivesUp
  <2> QED BY <1>1, <2>2, <2>3, ScaleFollows
<1>4. CASE Drops(t)
  <2>1. MarkInv'
    BY <1>2, <1>4 DEF MarkInv, Drops, Managed
  <2>2. ScaleInv(t)'
    BY <1>4, LetsGo, IdleScales
  <2> QED BY <1>1, <2>1, <2>2, ScaleFollows
<1>5. CASE GoesOn(t, job, p)
  <2>1. pos' = p /\ task'[t].pc \in {"clamp", "submit"} /\ task'[t].kind = job.kind
        /\ task'[t].attached = job.attached
    BY <1>5 DEF GoesOn
  <2>2. MarkInv'
    BY <1>2, <2>1 DEF MarkInv, Managed
  <2>3. ScaleInv(t)'
    BY <1>1, <1>2, <2>1 DEF ScaleInv, Scaling, PastGuards, Managed
  <2> QED BY <1>1, <2>2, <2>3, ScaleFollows
<1> QED BY <1>1, <1>3, <1>4, <1>5

\* Saving the row of a position never takes back the mark of a part that was sold.
LEMMA MarkSaved ==
  ASSUME IInv, NEW ref \in MaybePosition, NEW attached \in BOOLEAN, Tracked(ref, attached),
         ref.harvested, HarvestedToday
  PROVE  HarvestedToday'
<1>1. harvestDb \in [own : BOOLEAN, other : BOOLEAN]
  BY DEF IInv, TypeOK
<1>2. CASE UNCHANGED harvestDb
  BY <1>2 DEF HarvestedToday
<1>3. CASE harvestDb' = [harvestDb EXCEPT !.own = ref.harvested]
  BY <1>1, <1>3 DEF HarvestedToday
<1>4. CASE harvestDb' = [harvestDb EXCEPT !.other = @ \/ ref.harvested]
  <2>1. harvestDb'.other = (harvestDb.other \/ ref.harvested)
    BY <1>1, <1>4
  <2> QED BY <2>1 DEF HarvestedToday
<1> QED BY <1>2, <1>3, <1>4 DEF Tracked

\* A price that the task judges, of the position it has or of the dict it was left with.
LEMMA JudgedScales ==
  ASSUME IInv, ScaleOut, OneTask, NEW t \in Tasks, NEW ref \in MaybePosition,
         NEW attached \in BOOLEAN, Judged(t, ref, attached),
         Taken => ref.harvested,
         attached => Managed /\ ref = pos,
         attached \/ (held = 0 /\ ~Managed /\ sync \in {0, Unknown})
  PROVE  ScaleOut'
<1>0. /\ ref.qty \in 0 .. Lot /\ pos \in MaybePosition
      /\ Taken => HarvestedToday' /\ (Managed => pos.harvested)
  <2>1. ref.qty \in 0 .. Lot /\ pos \in MaybePosition
    BY Numbers DEF MaybePosition, Position, NoPosition, IInv, TypeOK
  <2>2. Taken => HarvestedToday'
    BY MarkSaved DEF Judged, ScaleOut, MarkInv
  <2> QED BY <2>1, <2>2 DEF ScaleOut, MarkInv
<1>1. CASE ExitSignal(t, ref, attached)
  <2> DEFINE x == [Idle EXCEPT !.kind = "exit", !.qty = ref.qty, !.attached = attached]
  <2>1. x \in Task /\ x.kind = "exit" /\ StartSell(t, x, pos, TRUE)
    BY <1>0, <1>1, IdleTask DEF Task, Kinds, ExitSignal
  <2>2. x.kind \notin Harvests
    BY <2>1 DEF Harvests
  <2> HIDE DEF x
  <2> QED BY <1>0, <2>1, <2>2, StartSellScales DEF Managed
<1>2. CASE TargetSignal(t, ref, attached) \/ NoSignal(t)
  <2>1. UNCHANGED <<pos, rows, held, sync>>
    BY <1>2 DEF TargetSignal, NoSignal, broker
  <2>2. MarkInv'
    BY <1>0, <2>1 DEF MarkInv, Taken, Managed
  <2>3. CASE NoSignal(t)
    BY <2>1, <2>2, <2>3, LetsGo, IdleScales, ScaleFollows DEF NoSignal
  <2>4. CASE TargetSignal(t, ref, attached)
    <3> DEFINE x == [Idle EXCEPT !.pc = "target", !.qty = ref.qty, !.attached = attached]
    <3>1. task' = [task EXCEPT ![t] = x] /\ ~Taken
      BY <2>4 DEF TargetSignal
    <3>2. x.pc = "target" /\ x.attached = attached
      BY <1>0, IdleTask DEF Task
    <3> HIDE DEF x
    <3>3. task'[t] = x
      BY <3>1 DEF IInv, TypeOK
    <3>4. ScaleInv(t)'
      BY <2>1, <3>1, <3>2, <3>3 DEF ScaleInv, Scaling, PastGuards, Taken, Managed
    <3> QED BY <2>1, <2>2, <3>4, ScaleFollows
  <2> QED BY <1>2, <2>3, <2>4
<1> QED BY <1>1, <1>2 DEF Judged

\* The callers: a tick, a REST price, the target that is known, a direct sell, and a task
\* that is cut short.
LEMMA CallersScale ==
  ASSUME IInv, ScaleOut, OneTask, NEW t \in Tasks,
         OnTick(t) \/ RestPick(t) \/ RestPrice(t) \/ Harvest(t) \/ DirectSell(t) \/ CutShort(t)
  PROVE  ScaleOut'
<1>0. /\ pos \in MaybePosition /\ task[t] \in Task /\ task \in [Tasks -> Task]
      /\ MarkInv /\ ScaleInv(t) /\ (task[t].attached => Managed)
  BY DEF IInv, TypeOK, MaybePosition, TaskInv, ScaleOut
<1>1. CASE OnTick(t)
  <2>1. Managed /\ Judged(t, pos, TRUE) /\ (Taken => pos.harvested)
    BY <1>0, <1>1 DEF OnTick, MarkInv
  <2> QED BY <1>0, <2>1, JudgedScales
<1>2. CASE RestPick(t)
  <2> DEFINE x == [Idle EXCEPT !.pc = "price", !.attached = TRUE]
  <2>1. task' = [task EXCEPT ![t] = x] /\ UNCHANGED <<pos, rows, harvestDb>> /\ Managed
    BY <1>2 DEF RestPick, database
  <2>2. x.pc = "price" /\ x.attached
    BY IdleTask DEF Task
  <2> HIDE DEF x
  <2>3. task'[t] = x
    BY <1>0, <2>1
  <2>4. MarkInv' /\ (Taken' <=> Taken) /\ pos' = pos
    BY <1>0, <2>1 DEF MarkInv, Taken, HarvestedToday, Managed
  <2>5. ScaleInv(t)'
    BY <1>0, <2>1, <2>2, <2>3, <2>4 DEF ScaleInv, Scaling, PastGuards, Ref, MarkInv
  <2> QED BY <2>1, <2>4, <2>5, ScaleFollows
<1>3. CASE CutShort(t)
  <2>1. task' = [task EXCEPT ![t] = Idle] /\ UNCHANGED <<pos, rows, harvestDb>>
    BY <1>3 DEF CutShort, database
  <2>2. MarkInv'
    BY <1>0, <2>1 DEF MarkInv, Taken, HarvestedToday, Managed
  <2> QED BY <2>1, <2>2, LetsGo, IdleScales, ScaleFollows
<1>4. CASE RestPrice(t)
  <2>1. Ref(t) \in MaybePosition /\ task[t].attached \in BOOLEAN
    BY <1>0 DEF Ref, Task, MaybePosition
  <2>2. Judged(t, Ref(t), task[t].attached) /\ (Taken => Ref(t).harvested)
    BY <1>0, <1>4 DEF RestPrice, ScaleInv
  <2>3. /\ task[t].attached => Managed /\ Ref(t) = pos
        /\ task[t].attached \/ (held = 0 /\ ~Managed /\ sync \in {0, Unknown})
    BY <1>0, <1>4 DEF RestPrice, ScaleInv, Ref
  <2> QED BY <2>1, <2>2, <2>3, JudgedScales
<1>5. CASE Harvest(t)
  <2> DEFINE p == IF task[t].attached THEN [pos EXCEPT !.harvested = TRUE] ELSE pos
  <2>0. /\ UNCHANGED harvestDb /\ ~Taken
        /\ task[t].attached \/ (held = 0 /\ ~Managed /\ sync \in {0, Unknown})
    BY <1>0, <1>5 DEF Harvest, ScaleInv
  <2>1. p \in MaybePosition /\ (Managed <=> p # NoPosition) /\ (task[t].attached => p.harvested)
    <3>1. CASE task[t].attached
      <4>1. pos \in Position
        BY <1>0, <3>1 DEF MaybePosition, Managed
      <4>2. p \in Position /\ p.harvested
        BY <3>1, <4>1 DEF Position
      <4> QED BY <1>0, <3>1, <4>2, Numbers DEF MaybePosition
    <3>2. CASE ~task[t].attached
      BY <1>0, <3>2 DEF Managed
    <3> QED BY <3>1, <3>2
  <2>2. ASSUME NEW q \in 1 .. task[t].qty, NEW kind \in Kinds, NEW c,
               StartSell(t, [task[t] EXCEPT !.kind = kind, !.qty = q, !.left = task[t].qty - q], p, c)
        PROVE  ScaleOut'
    <3> DEFINE x == [task[t] EXCEPT !.kind = kind, !.qty = q, !.left = task[t].qty - q]
    <3>1. x \in Task /\ x.attached = task[t].attached
      <4>1. q \in 0 .. Lot /\ task[t].qty - q \in 0 .. Lot
        BY <1>0, LotAssumption DEF Task
      <4> QED BY <1>0, <4>1 DEF Task
    <3>2. StartSell(t, x, p, c)
      BY <2>2
    <3> HIDE DEF x, p
    <3> QED BY <2>0, <2>1, <3>1, <3>2, StartSellScales
  <2>3. CASE NoSignal(t)
    <3>1. UNCHANGED <<pos, rows>> /\ task' = [task EXCEPT ![t] = Idle]
      BY <2>3 DEF NoSignal
    <3>2. MarkInv'
      BY <2>0, <3>1 DEF MarkInv, Taken
    <3> QED BY <3>1, <3>2, LetsGo, IdleScales, ScaleFollows
  <2>4. {"harvest", "harvest_all"} \subseteq Kinds
    BY DEF Kinds
  <2> QED BY <1>5, <2>2, <2>3, <2>4 DEF Harvest
<1>6. CASE DirectSell(t)
  <2>1. PICK q \in 1 .. Lot : StartSell(t, [Idle EXCEPT !.kind = "direct", !.qty = q], pos, closing)
    BY <1>6 DEF DirectSell
  <2> DEFINE x == [Idle EXCEPT !.kind = "direct", !.qty = q]
  <2>2. x \in Task /\ x.kind = "direct"
    <3>1. q \in 0 .. Lot
      BY <2>1, LotAssumption
    <3> QED BY <3>1, IdleTask DEF Task, Kinds
  <2>3. StartSell(t, x, pos, closing) /\ x.kind \notin Harvests
    BY <2>1, <2>2 DEF Harvests
  <2> HIDE DEF x
  <2>4. Taken => HarvestedToday' /\ (pos # NoPosition => pos.harvested)
    BY <1>0, <1>6 DEF DirectSell, MarkInv, HarvestedToday, Managed
  <2> QED BY <1>0, <2>2, <2>3, <2>4, StartSellScales DEF Managed
<1> QED BY <1>1, <1>2, <1>3, <1>4, <1>5, <1>6

\* The steps inside execute_sell, up to the answer of order_cash.
LEMMA SellStepScales ==
  ASSUME IInv, ScaleOut, OneTask, NEW t \in Tasks,
         ClampReply(t) \/ (\E k \in Orders : Accepted(t, k)) \/ Rejected(t) \/ Raised(t)
  PROVE  ScaleOut'
<1>0. /\ pos \in MaybePosition /\ task[t] \in Task /\ task \in [Tasks -> Task]
      /\ MarkInv /\ ScaleInv(t) /\ (task[t].attached => Managed) /\ PastGuards(t)
  BY DEF IInv, TypeOK, MaybePosition, TaskInv, ScaleOut, ClampReply, Accepted, Rejected, Raised,
     PastGuards
<1>1. UNCHANGED <<rows, harvestDb, held, sync>> /\ (Taken' <=> Taken) /\ (HarvestedToday' <=> HarvestedToday)
  BY DEF ClampReply, Accepted, Rejected, Raised, database, broker, Taken, HarvestedToday
<1>2. ASSUME pos' = pos, task'[t].kind = task[t].kind, task'[t].attached = task[t].attached,
             task'[t].pc \in {"clamp", "submit", "record"}
      PROVE  ScaleOut'
  <2>1. MarkInv'
    BY <1>0, <1>1, <1>2 DEF MarkInv, Managed
  <2>2. ScaleInv(t)'
    BY <1>0, <1>1, <1>2 DEF ScaleInv, Scaling, PastGuards, Managed
  <2> QED BY <1>1, <2>1, <2>2, ScaleFollows
<1>3. ASSUME pos' = NoPosition \/ pos' = Unharvested(t, task[t].kind, pos), task'[t] = Idle
      PROVE  ScaleOut'
  <2>1. CASE pos' = NoPosition
    <3>1. MarkInv'
      BY <1>0, <1>1, <2>1 DEF MarkInv, Managed
    <3> QED BY <1>1, <1>3, <3>1, IdleScales, ScaleFollows
  <2>2. CASE pos' = Unharvested(t, task[t].kind, pos)
    <3>1. CASE task[t].kind \in Harvests
      <4>1. ~Taken
        BY <1>0, <3>1 DEF ScaleInv, Scaling
      <4>2. MarkInv'
        BY <1>1, <4>1 DEF MarkInv
      <4> QED BY <1>1, <1>3, <4>2, IdleScales, ScaleFollows
    <3>2. CASE task[t].kind \notin Harvests
      <4>1. pos' = pos
        BY <2>2, <3>2 DEF Unharvested
      <4>2. MarkInv'
        BY <1>0, <1>1, <4>1 DEF MarkInv, Managed
      <4> QED BY <1>1, <1>3, <4>2, IdleScales, ScaleFollows
    <3> QED BY <3>1, <3>2
  <2> QED BY <1>3, <2>1, <2>2
<1>4. CASE ClampReply(t)
  <2>1. ASSUME Clamped(t, task[t], pos, closing, held), held = 0 PROVE ScaleOut'
    <3>1. pos' = NoPosition /\ Drops(t)
      BY <2>1 DEF Clamped, Drops
    <3> QED BY <1>3, <3>1, LetsGo
  <2>2. ASSUME Clamped(t, task[t], pos, closing, held), held # 0 PROVE ScaleOut'
    <3> DEFINE x == [task[t] EXCEPT !.pc = "submit", !.qty = IF held < @ THEN held ELSE @]
    <3>1. pos' = pos /\ task' = [task EXCEPT ![t] = x]
      BY <2>2 DEF Clamped
    <3>2. x.pc = "submit" /\ x.kind = task[t].kind /\ x.attached = task[t].attached
      BY <1>0 DEF Task
    <3> HIDE DEF x
    <3> QED BY <1>0, <1>2, <3>1, <3>2
  <2>3. ASSUME task' = [task EXCEPT ![t].pc = "submit"], pos' = pos PROVE ScaleOut'
    BY <1>0, <1>2, <2>3 DEF Task
  <2> QED BY <1>4, <2>1, <2>2, <2>3 DEF ClampReply
<1>5. CASE (\E k \in Orders : Accepted(t, k)) \/ Rejected(t)
  <2>1. pos' = pos
    BY <1>5 DEF Accepted, Rejected
  <2>2. /\ task'[t].kind = task[t].kind /\ task'[t].attached = task[t].attached
        /\ task'[t].pc = "record"
    BY <1>0, <1>5 DEF Accepted, Rejected, Task
  <2> QED BY <1>2, <2>1, <2>2
<1>6. CASE Raised(t)
  <2>1. CASE UNCHANGED <<task, pos>>
    BY <1>0, <1>2, <2>1 DEF PastGuards
  <2>2. CASE Failed(t)
    BY <1>3, <2>2, LetsGo DEF Failed, Refused
  <2> QED BY <1>6, <2>1, <2>2 DEF Raised
<1> QED BY <1>4, <1>5, <1>6

\* The saved row: the first part that is sold leaves its mark, in memory when the position
\* stays and in the database in any case.
LEMMA RecordScales ==
  ASSUME IInv, ScaleOut, OneTask, NEW t \in Tasks, NEW r \in Rows, Record(t, r)
  PROVE  ScaleOut'
<1>0. /\ pos \in MaybePosition /\ task[t] \in Task /\ task \in [Tasks -> Task]
      /\ MarkInv /\ ScaleInv(t) /\ TakenOnce /\ (task[t].attached => Managed) /\ PastGuards(t)
      /\ harvestDb \in [own : BOOLEAN, other : BOOLEAN]
  BY DEF IInv, TypeOK, MaybePosition, TaskInv, ScaleOut, Record, PastGuards
<1>1. /\ rows[r] = NoRow
      /\ rows'[r].partial <=> task[t].kind = "harvest"
      /\ \A s \in Rows : s # r => rows'[s] = rows[s]
  <2> DEFINE partial == task[t].kind = "harvest"
  <2> DEFINE accepted == task[t].reply # "rejected"
  <2>1. rows[r] = NoRow /\ \E n : rows' = [rows EXCEPT ![r] =
          [status |-> IF n # NoOrder THEN "submitted" ELSE "uncertain", qty |-> task[t].qty, kis |-> n,
           accepted |-> accepted, partial |-> partial, older |-> task[t].older]]
    BY Zenon DEF Record
  <2> HIDE DEF partial, accepted
  <2>2. (rows'[r].partial = partial) /\ \A s \in Rows : s # r => rows'[s] = rows[s]
    BY <2>1 DEF IInv, TypeOK
  <2> QED BY <2>1, <2>2 DEF partial
<1>2. ~rows[r].partial
  BY <1>1 DEF NoRow
<1>3. task'[t] = Idle
  <2>1. task' = [task EXCEPT ![t] = Idle] \/ task' = Detached([task EXCEPT ![t] = Idle], pos)
    BY DEF Record
  <2> DEFINE tasks == [task EXCEPT ![t] = Idle]
  <2>2. tasks[t] = Idle /\ ~tasks[t].attached
    BY <1>0, IdleTask
  <2> HIDE DEF tasks
  <2>3. task' = tasks \/ task' = Detached(tasks, pos)
    BY <2>1 DEF tasks
  <2> QED BY <2>2, <2>3 DEF Detached
<1>4. \A s \in Tasks : ScaleInv(s)'
  BY <1>3, IdleScales DEF OneTask
<1>5. \/ pos' = NoPosition
      \/ pos' = pos
      \/ /\ task[t].kind = "harvest" /\ task[t].attached
         /\ pos' = [qty |-> task[t].left, harvested |-> TRUE]
  BY DEF Record
<1>6. CASE task[t].kind = "harvest"
  <2>1. Scaling(t) /\ ~Taken
    BY <1>0, <1>6 DEF ScaleInv, Scaling, Harvests
  <2>2. TakenOnce'
    BY <1>1, <2>1 DEF TakenOnce, Taken
  <2>3. HarvestedToday'
    <3>1. harvestDb' = IF task[t].attached THEN [harvestDb EXCEPT !.own = TRUE]
                                           ELSE [harvestDb EXCEPT !.other = TRUE]
      BY <1>6 DEF Record, Harvests
    <3> QED BY <1>0, <3>1 DEF HarvestedToday
  <2>4. pos' = NoPosition \/ pos'.harvested
    BY <1>0, <1>5, <2>1 DEF ScaleInv, Managed
  <2> QED BY <1>4, <2>2, <2>3, <2>4 DEF ScaleOut, MarkInv, Managed
<1>7. CASE task[t].kind # "harvest"
  <2>1. TakenOnce' /\ (Taken' <=> Taken)
    BY <1>0, <1>1, <1>2, <1>7 DEF TakenOnce, Taken
  <2>2. HarvestedToday => HarvestedToday'
    <3>1. \/ UNCHANGED harvestDb \/ harvestDb' = [harvestDb EXCEPT !.own = TRUE]
          \/ harvestDb' = [harvestDb EXCEPT !.other = TRUE]
      BY DEF Record
    <3> QED BY <1>0, <3>1 DEF HarvestedToday
  <2>3. MarkInv'
    BY <1>0, <1>5, <1>7, <2>1, <2>2 DEF MarkInv, Managed
  <2> QED BY <1>4, <2>1, <2>3 DEF ScaleOut
<1> QED BY <1>6, <1>7

\* The account sync: what it drops was empty, what it imports inherits the mark of the day.
LEMMA SyncScales ==
  ASSUME IInv, GhostInv, ScaleOut, OneTask, SyncApply
  PROVE  ScaleOut'
<1>0. /\ pos \in MaybePosition /\ task \in [Tasks -> Task] /\ sync \in Int
      /\ MarkInv /\ (\A t \in Tasks : ScaleInv(t) /\ (task[t].attached => Managed))
      /\ harvestDb \in [own : BOOLEAN, other : BOOLEAN]
  BY LotAssumption DEF IInv, TypeOK, MaybePosition, TaskInv, ScaleOut, Unknown
<1>1. UNCHANGED <<rows, held>> /\ sync' = Unknown /\ sync # Unknown /\ (Taken' <=> Taken)
  BY DEF SyncApply, broker, Taken
<1>2. ASSUME MarkInv', \A t \in Tasks : ScaleInv(t)' PROVE ScaleOut'
  BY <1>1, <1>2 DEF ScaleOut, TakenOnce
<1>3. CASE Managed /\ sync = 0 /\ pos' = NoPosition /\ task' = Detached(task, pos)
           /\ UNCHANGED harvestDb
  <2>1. MarkInv'
    BY <1>0, <1>1, <1>3 DEF MarkInv, HarvestedToday, Managed
  <2>2. ASSUME NEW t \in Tasks PROVE ScaleInv(t)'
    <3>1. /\ ~task'[t].attached /\ task'[t].pc = task[t].pc /\ task'[t].kind = task[t].kind
      BY <1>0, <1>3, DetachedTasks
    <3>2. held' = 0 /\ ~Managed'
      BY <1>1, <1>3 DEF GhostInv, ReadEmpty, Managed
    <3>3. task[t].pc = "price" => Ref(t)' = Ref(t)
      <4>1. CASE task[t].attached
        <5>1. task[t].pc = "price" => [task[t] EXCEPT !.attached = FALSE, !.ref = pos].ref = pos
          BY <1>0 DEF Task
        <5>2. task[t].pc = "price" => task'[t] = [task[t] EXCEPT !.attached = FALSE, !.ref = pos]
          BY <1>3, <4>1 DEF Detached
        <5> QED BY <3>1, <4>1, <5>1, <5>2 DEF Ref
      <4>2. CASE ~task[t].attached
        <5>1. task'[t] = task[t]
          BY <1>3, <4>2 DEF Detached
        <5> QED BY <4>2, <5>1 DEF Ref
      <4> QED BY <4>1, <4>2
    <3> QED BY <1>0, <1>1, <3>1, <3>2, <3>3 DEF ScaleInv, Scaling, PastGuards
  <2> QED BY <1>2, <2>1, <2>2
<1>4. CASE Managed /\ sync > 0 /\ pos' = [pos EXCEPT !.qty = sync] /\ UNCHANGED <<task, harvestDb>>
  <2>1. pos'.harvested = pos.harvested /\ pos'.qty = sync
    BY <1>0, <1>4, Numbers DEF MaybePosition, Managed, Position
  <2>2. Managed'
    BY <1>4, <2>1 DEF Managed, NoPosition
  <2>3. MarkInv'
    BY <1>0, <1>1, <1>4, <2>1, <2>2 DEF MarkInv, HarvestedToday
  <2>4. ASSUME NEW t \in Tasks PROVE ScaleInv(t)'
    <3>1. task[t].pc = "price" /\ Taken => Ref(t)'.harvested
      BY <1>0, <1>4, <2>1 DEF ScaleInv, Ref
    <3> QED BY <1>0, <1>1, <1>4, <2>1, <3>1 DEF ScaleInv, Scaling, PastGuards, Managed
  <2> QED BY <1>2, <2>3, <2>4
<1>5. CASE ~Managed /\ sync > 0 /\ pos' = Imported /\ harvestDb' = NewRow /\ UNCHANGED task
  <2>1. MarkInv'
    <3>1. Taken => HarvestedToday' /\ pos'.harvested
      BY <1>0, <1>5 DEF MarkInv, HarvestedToday, NewRow, Imported
    <3> QED BY <1>1, <3>1 DEF MarkInv
  <2>2. ASSUME NEW t \in Tasks PROVE ScaleInv(t)'
    <3>1. ~(task[t].pc \in {"price", "target"} \/ Scaling(t))
      BY <1>0, <1>1, <1>5 DEF ScaleInv
    <3> QED BY <1>5, <3>1 DEF ScaleInv, Scaling, PastGuards
  <2> QED BY <1>2, <2>1, <2>2
<1>6. CASE UNCHANGED <<pos, task, harvestDb>>
  <2>1. MarkInv'
    BY <1>0, <1>1, <1>6 DEF MarkInv, HarvestedToday, Managed
  <2>2. ASSUME NEW t \in Tasks PROVE ScaleInv(t)'
    BY <1>0, <1>1, <1>6 DEF ScaleInv, Scaling, PastGuards, Ref, Managed
  <2> QED BY <1>2, <2>1, <2>2
<1> QED BY <1>3, <1>4, <1>5, <1>6 DEF SyncApply

\* The broker, the timeouts, the reading of the balance, and the repairs of rows.
LEMMA RepairScales ==
  ASSUME IInv, IInv', ScaleOut,
         \/ SyncRead \/ CooldownExpires \/ ClampExpires
         \/ \E r \in Rows : Poll(r) \/ Reconcile(r)
         \/ \E k \in Orders : Execute(k) \/ Expire(k)
         \/ UNCHANGED vars
  PROVE  ScaleOut'
<1>0. MarkInv /\ (\A t \in Tasks : ScaleInv(t)) /\ rows \in [Rows -> Row]
  BY DEF ScaleOut, IInv, TypeOK
<1>1. ASSUME UNCHANGED <<pos, task, harvestDb>>, \A r \in Rows : rows'[r].partial = rows[r].partial,
             held = 0 => held' = 0, sync' = sync \/ sync' = held
      PROVE  ScaleOut'
  <2>1. (Taken' <=> Taken) /\ TakenOnce'
    BY <1>1 DEF Taken, TakenOnce, ScaleOut
  <2>2. MarkInv'
    BY <1>0, <1>1, <2>1 DEF MarkInv, HarvestedToday, Managed
  <2>3. ASSUME NEW t \in Tasks PROVE ScaleInv(t)'
    BY <1>0, <1>1, <2>1 DEF ScaleInv, Scaling, PastGuards, Ref, Managed
  <2> QED BY <2>1, <2>2, <2>3 DEF ScaleOut
<1>2. CASE SyncRead \/ CooldownExpires \/ ClampExpires \/ UNCHANGED vars
  <2>1. UNCHANGED <<pos, task, harvestDb, rows, held>> /\ (sync' = sync \/ sync' = held)
    BY <1>2 DEF SyncRead, CooldownExpires, ClampExpires, database, broker, memory, vars
  <2> QED BY <1>1, <2>1
<1>3. ASSUME NEW r \in Rows, Poll(r) \/ Reconcile(r) PROVE ScaleOut'
  <2>1. UNCHANGED <<pos, task, harvestDb, held, sync>>
    BY <1>3 DEF Poll, Reconcile, memory, broker
  <2>2. \A s \in Rows : rows'[s].partial = rows[s].partial
    BY <1>0, <1>3 DEF Poll, Reconcile, Row
  <2> QED BY <1>1, <2>1, <2>2
<1>4. ASSUME NEW k \in Orders, Execute(k) \/ Expire(k) PROVE ScaleOut'
  <2>1. UNCHANGED <<pos, task, harvestDb, rows, sync>>
    BY <1>4 DEF Execute, Expire, memory, database
  <2>2. held = 0 => held' = 0
    <3>1. CASE Execute(k)
      <4>1. kis[k].qty \in Int /\ kis[k].done \in Int
        BY LotAssumption DEF IInv, TypeOK, KisOrder
      <4>2. PICK n \in 1 .. (kis[k].qty - kis[k].done) : n <= held
        BY <3>1 DEF Execute
      <4> QED BY <4>1, <4>2
    <3>2. CASE Expire(k)
      BY <3>2 DEF Expire
    <3> QED BY <1>4, <3>1, <3>2
  <2> QED BY <1>1, <2>1, <2>2
<1> QED BY <1>2, <1>3, <1>4

\* A restart: the restored position inherits the mark of the day.
LEMMA RestartScales ==
  ASSUME IInv, ScaleOut, Restart
  PROVE  ScaleOut'
<1>1. UNCHANGED rows /\ \A t \in Tasks : task'[t] = Idle
  BY DEF Restart
<1>2. (Taken' <=> Taken) /\ TakenOnce'
  BY <1>1 DEF Taken, TakenOnce, ScaleOut
<1>3. Taken => HarvestedToday' /\ (Managed' => pos'.harvested)
  <2>1. CASE Restorable
    <3>1. pos'.harvested = HarvestedToday /\ harvestDb' = NewRow
      BY <2>1 DEF Restart
    <3> QED BY <3>1 DEF ScaleOut, MarkInv, HarvestedToday, NewRow
  <2>2. CASE ~Restorable
    BY <2>2 DEF Restart, ScaleOut, MarkInv, HarvestedToday, Managed
  <2> QED BY <2>1, <2>2
<1> QED BY <1>1, <1>2, <1>3, IdleScales DEF ScaleOut, MarkInv

\* When no two tasks are in execute_sell together, one row at most sells a part for profit,
\* through refusals that take the mark back, positions that are dropped and imported again,
\* rows of the stop state saved over, and restarts.
THEOREM ScalesOutOnce ==
  ASSUME OneTask
  PROVE  Spec => []HarvestOnce
<1>1. Init => ScaleOut
  <2> SUFFICES ASSUME Init PROVE ScaleOut
    OBVIOUS
  <2>1. ~Taken /\ TakenOnce
    BY DEF Init, Taken, TakenOnce, NoRow
  <2>2. \A t \in Tasks : ScaleInv(t)
    BY <2>1 DEF Init, ScaleInv, Scaling, PastGuards, Idle
  <2> QED BY <2>1, <2>2 DEF ScaleOut, MarkInv
<1>2. IInv /\ IInv' /\ GhostInv /\ ScaleOut /\ [Next]_vars => ScaleOut'
  <2> SUFFICES ASSUME IInv, IInv', GhostInv, ScaleOut, [Next]_vars PROVE ScaleOut'
    OBVIOUS
  <2> USE DEF Tasks
  <2>1. CASE \/ \E t \in Ticks : OnTick(t) \/ CutShort(t)
             \/ \E t \in Rests : RestPick(t) \/ RestPrice(t)
             \/ \E t \in Ticks \cup Rests : Harvest(t)
             \/ \E t \in Directs : DirectSell(t)
    BY <2>1, CallersScale
  <2>2. CASE \E t \in Tasks : SellStep(t)
    BY <2>2, SellStepScales, RecordScales DEF SellStep
  <2>3. CASE \/ SyncRead \/ CooldownExpires \/ ClampExpires
             \/ \E r \in Rows : Poll(r) \/ Reconcile(r)
             \/ \E k \in Orders : Execute(k) \/ Expire(k)
             \/ UNCHANGED vars
    BY <2>3, RepairScales
  <2>4. CASE SyncApply \/ Restart
    BY <2>4, SyncScales, RestartScales
  <2> QED BY <2>1, <2>2, <2>3, <2>4 DEF Next
<1>3. ScaleOut => HarvestOnce
  <2> SUFFICES ASSUME ScaleOut PROVE Cardinality({r \in Rows : rows[r].partial}) <= 1
    BY DEF HarvestOnce
  <2> DEFINE S == {r \in Rows : rows[r].partial}
  <2>1. CASE S = {}
    BY <2>1, FS_EmptySet
  <2>2. ASSUME NEW r \in S PROVE Cardinality(S) <= 1
    <3>1. S = {r}
      BY <2>2 DEF ScaleOut, TakenOnce
    <3>2. Cardinality(S) = 1
      <4> HIDE DEF S
      <4> QED BY <3>1, FS_Singleton
    <3> QED BY <3>2
  <2> QED BY <2>1, <2>2
<1> QED BY <1>1, <1>2, <1>3, Invariance, GhostInvariance, PTL DEF Spec
-------------------------------------------------------------------------------
(* A holding nothing watches is taken up again *)

\* A holding the engine does not manage, before the sync reads the balance and after,
\* and the end of it.
UnseenHolding == held > 0 /\ ~Managed /\ sync = Unknown
SeenHolding   == held > 0 /\ ~Managed /\ sync # Unknown
TakenUp       == held = 0 \/ Managed

\* Only the sync itself, or a restart, does away with a balance it has read.
LEMMA BalanceKept ==
  ASSUME Next, ~Restart, sync # Unknown
  PROVE  sync' = sync \/ SyncApply
<1>1. CASE \E t \in Ticks : OnTick(t) \/ CutShort(t)
  BY <1>1 DEF OnTick, Judged, ExitSignal, TargetSignal, NoSignal, StartSell, CutShort
<1>2. CASE \E t \in Rests : RestPick(t) \/ RestPrice(t)
  BY <1>2 DEF RestPick, RestPrice, Judged, ExitSignal, TargetSignal, NoSignal, StartSell
<1>3. CASE (\E t \in Ticks \cup Rests : Harvest(t)) \/ \E t \in Directs : DirectSell(t)
  BY <1>3 DEF Harvest, DirectSell, NoSignal, StartSell
<1>4. CASE \E t \in Tasks : SellStep(t)
  BY <1>4 DEF SellStep, ClampReply, Accepted, Rejected, Raised, Record
<1>5. CASE \/ SyncRead \/ CooldownExpires \/ ClampExpires
           \/ \E r \in Rows : Poll(r) \/ Reconcile(r)
           \/ \E k \in Orders : Execute(k) \/ Expire(k)
  BY <1>5 DEF SyncRead, CooldownExpires, ClampExpires, Poll, Reconcile, Execute, Expire, memory
<1> QED BY <1>1, <1>2, <1>3, <1>4, <1>5 DEF Next

\* A balance read while shares are held unmanaged shows shares, and applying it makes
\* them a position.
LEMMA BalanceImports ==
  ASSUME IInv, GhostInv, SeenHolding, SyncApply
  PROVE  Managed'
<1>1. sync \in 0 .. Lot /\ held \in 0 .. Lot /\ sync # 0
  BY DEF IInv, TypeOK, SeenHolding, GhostInv, ReadEmpty
<1>2. sync > 0 /\ ~Managed
  BY <1>1, LotAssumption DEF SeenHolding
<1>3. pos' = Imported
  BY <1>1, <1>2 DEF SyncApply
<1>4. Imported # NoPosition
  BY <1>1 DEF Imported, NoPosition
<1> QED BY <1>3, <1>4 DEF Managed

\* Shares in the account that no position watches are managed again by the account sync
\* or sold, whatever sells, refusals, executions and the other repairs do meanwhile, if
\* only the process no longer restarts at some time. That the sync has a step to take
\* (SyncCanRun) is a hypothesis: it holds in every state, and TLC evaluates it.
THEOREM SyncReadopts ==
  FairSpec /\ []SyncCanRun /\ <>[][~Restart]_vars => Readopted
<1>1. IInv' => UnseenHolding' \/ SeenHolding' \/ TakenUp'
  BY LotAssumption DEF IInv, TypeOK, UnseenHolding, SeenHolding, TakenUp
<1>2. UnseenHolding /\ IInv /\ IInv' /\ <<Next /\ SyncRead>>_vars => SeenHolding' \/ TakenUp'
  <2> SUFFICES ASSUME IInv, IInv', SyncRead PROVE SeenHolding' \/ TakenUp'
    OBVIOUS
  <2>1. sync' # Unknown
    BY LotAssumption DEF SyncRead, IInv, TypeOK, Unknown
  <2> QED BY <1>1, <2>1 DEF UnseenHolding, SeenHolding, TakenUp
<1>3. SeenHolding /\ IInv /\ GhostInv /\ IInv' /\ [Next]_vars /\ [~Restart]_vars => SeenHolding' \/ TakenUp'
  <2> SUFFICES ASSUME SeenHolding, IInv, GhostInv, IInv', [Next]_vars, [~Restart]_vars
               PROVE  SeenHolding' \/ TakenUp'
    OBVIOUS
  <2>1. sync' = sync \/ SyncApply
    BY BalanceKept DEF vars, memory, SeenHolding
  <2>2. CASE SyncApply
    BY <2>2, BalanceImports DEF TakenUp
  <2>3. CASE sync' = sync
    BY <1>1, <2>3 DEF SeenHolding, UnseenHolding, TakenUp, Unknown
  <2> QED BY <2>1, <2>2, <2>3
<1>4. SeenHolding /\ IInv /\ GhostInv /\ <<SyncApply>>_vars => TakenUp'
  BY BalanceImports DEF TakenUp
<1>5. /\ SyncCanRun /\ UnseenHolding => ENABLED <<SyncRead>>_vars
      /\ SyncCanRun /\ SeenHolding => ENABLED <<SyncApply>>_vars
  BY DEF SyncCanRun, UnseenHolding, SeenHolding
<1>6. FairSpec /\ []SyncCanRun => (UnseenHolding ~> SeenHolding \/ TakenUp)
  BY <1>1, <1>2, <1>5, Invariance, PTL DEF FairSpec, Spec
<1>7. FairSpec /\ []SyncCanRun /\ <>[][~Restart]_vars => (UnseenHolding \/ SeenHolding ~> TakenUp)
  BY <1>1, <1>3, <1>4, <1>5, <1>6, Invariance, GhostInvariance, PTL DEF FairSpec, Spec
<1>8. held > 0 /\ ~Managed => UnseenHolding \/ SeenHolding
  BY DEF UnseenHolding, SeenHolding
<1> QED BY <1>7, <1>8, PTL DEF Readopted, TakenUp
===============================================================================

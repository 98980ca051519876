------------------------- MODULE EodLiquidationProofs -------------------------
(***************************************************************************)
(* Proofs about EodLiquidation, for any runs, symbols and restarts: the     *)
(* end-of-day liquidation accounts for whatever it leaves held.             *)
(***************************************************************************)
EXTENDS EodLiquidation, TLAPS

-------------------------------------------------------------------------------
(* The inductive invariant *)

\* From its check on, a run has found whatever is held and was not bought since.
FoundHeld ==
  \A t \in Runs : run[t].pc \in {"retry", "recheck"} => held \subseteq run[t].found \cup late[t]

IInv == TypeOK /\ FoundHeld /\ AccountedFor

\* The initial states satisfy it.
LEMMA InitHolds == Init => IInv
<1> SUFFICES ASSUME Init PROVE IInv
  OBVIOUS
<1>1. NewRun \in Run
  BY DEF NewRun, Run, Places
<1>2. TypeOK
  BY <1>1, EodAssumption DEF Init, TypeOK, RowStatuses
<1>3. FoundHeld /\ AccountedFor
  BY DEF Init, FoundHeld, AccountedFor, NewRun
<1> QED BY <1>2, <1>3 DEF IInv

-------------------------------------------------------------------------------
(* What a step does to the runs *)

\* No run moves but for the positions it has still to sell and its record of residuals.
SameRuns ==
  /\ run' \in [Runs -> Run]
  /\ \A t \in Runs : /\ run'[t].pc = run[t].pc
                     /\ run'[t].found = run[t].found
                     /\ run'[t].blind = run[t].blind

\* The holdings shrink, or grow by what every run is told of as bought late; what was
\* named or swallowed stays so.
Told ==
  /\ late' \in [Runs -> SUBSET Symbols]
  /\ held' \subseteq Symbols
  /\ alert'.named = alert.named
  /\ swallowed' = swallowed
  /\ \A t \in Runs : late[t] \subseteq late'[t] /\ held' \ held \subseteq late'[t]

\* Such steps keep what the invariant says of the runs.
LEMMA TellingKeeps == ASSUME IInv, SameRuns, Told PROVE FoundHeld' /\ AccountedFor'
<1>1. FoundHeld'
  BY DEF IInv, SameRuns, Told, FoundHeld
<1>2. AccountedFor'
  BY DEF IInv, SameRuns, Told, AccountedFor
<1> QED BY <1>1, <1>2

-------------------------------------------------------------------------------
(* The sells *)

\* The types of what the sells write.
SellsTyped ==
  /\ live' \subseteq Symbols
  /\ cool' \subseteq Symbols
  /\ rows' \in [Tasks -> [Symbols -> RowStatuses]]
  /\ selling' \in [Tasks -> Symbols \cup {None}]

\* A sell that is over leaves the runs where they are.
LEMMA SoldSame ==
  ASSUME TypeOK, NEW t \in Tasks, NEW x \in Symbols,
         Sold(t, x) \/ SoldAfterAsking(t, x)
  PROVE  SameRuns /\ selling' \in [Tasks -> Symbols \cup {None}]
<1>1. selling' \in [Tasks -> Symbols \cup {None}]
  BY DEF TypeOK, Sold, SoldAfterAsking
<1>2. CASE t \notin Runs
  BY <1>1, <1>2 DEF TypeOK, Sold, SoldAfterAsking, SameRuns
<1>3. ASSUME t \in Runs PROVE SameRuns
  <2>1. run[t] \in Run
    BY <1>3 DEF TypeOK
  <2>2. CASE Sold(t, x)
    <3>1. run' = [run EXCEPT ![t].todo = @ \ {x}]
      BY <1>3, <2>2 DEF Sold
    <3> QED BY <3>1, <2>1, <1>3 DEF SameRuns, Run, TypeOK
  <2>3. CASE SoldAfterAsking(t, x)
    <3>1. run' = [run EXCEPT ![t].todo = @ \ {x},
                             ![t].tried = IF run[t].pc = "retry" THEN @ \cup {x} ELSE @]
      BY <1>3, <2>3 DEF SoldAfterAsking
    <3> DEFINE tried == IF run[t].pc = "retry" THEN run[t].tried \cup {x} ELSE run[t].tried
               new   == [run[t] EXCEPT !.todo = @ \ {x}, !.tried = tried]
    <3>2. new \in Run
      BY <2>1 DEF Run
    <3>3. new.pc = run[t].pc /\ new.found = run[t].found /\ new.blind = run[t].blind
      BY <2>1 DEF Run
    <3>4. run' = [run EXCEPT ![t] = new]
      BY <3>1
    <3> QED BY <3>2, <3>3, <3>4, <1>3 DEF SameRuns, TypeOK
  <2> QED BY <2>2, <2>3
<1> QED BY <1>1, <1>2, <1>3

\* No step: the runs stay.
LEMMA StillSame == ASSUME TypeOK, UNCHANGED run PROVE SameRuns
  BY DEF TypeOK, SameRuns

\* The guards of a sell let it wait for KIS or end it.
LEMMA SellsSame ==
  ASSUME TypeOK, NEW t \in Tasks, NEW x \in Symbols, Sells(t, x)
  PROVE  SameRuns /\ selling' \in [Tasks -> Symbols \cup {None}]
<1>1. CASE Sold(t, x)
  BY <1>1, SoldSame
<1>2. CASE selling' = [selling EXCEPT ![t] = x] /\ UNCHANGED run
  BY <1>2, StillSame DEF TypeOK
<1> QED BY <1>1, <1>2 DEF Sells

\* A row saved for a symbol is a row.
LEMMA SavedTyped ==
  ASSUME TypeOK, NEW t \in Tasks, NEW x \in Symbols, NEW status \in RowStatuses,
         Saved(t, x, status)
  PROVE  rows' \in [Tasks -> [Symbols -> RowStatuses]]
<1>1. rows[t] \in [Symbols -> RowStatuses]
  BY DEF TypeOK
<1>2. [rows[t] EXCEPT ![x] = status] \in [Symbols -> RowStatuses]
  BY <1>1
<1>3. rows' = [rows EXCEPT ![t] = [rows[t] EXCEPT ![x] = status]]
  BY DEF Saved
<1> QED BY <1>2, <1>3 DEF TypeOK

\* Whatever KIS answers to a sell, types hold and the runs stay where they are.
LEMMA AnswerSame ==
  ASSUME TypeOK, NEW t \in Tasks, NEW x \in Symbols,
         \/ NotHeld(t, x) \/ Accepted(t, x) \/ Rejected(t, x) \/ Failed(t, x)
  PROVE  SameRuns /\ SellsTyped
<1>1. SoldAfterAsking(t, x)
  BY DEF NotHeld, Accepted, Rejected, Failed
<1>2. SameRuns /\ selling' \in [Tasks -> Symbols \cup {None}]
  BY <1>1, SoldSame
<1>3. live' \subseteq Symbols /\ cool' \subseteq Symbols
  BY DEF NotHeld, Accepted, Rejected, Failed, TypeOK
<1>4. rows' \in [Tasks -> [Symbols -> RowStatuses]]
  <2>1. CASE UNCHANGED rows
    BY <2>1 DEF TypeOK
  <2>2. CASE \E status \in {"submitted", "uncertain"} : Saved(t, x, status)
    BY <2>2, SavedTyped DEF RowStatuses
  <2> QED BY <2>1, <2>2 DEF NotHeld, Accepted, Rejected, Failed
<1> QED BY <1>2, <1>3, <1>4 DEF SellsTyped

\* SellReturns keeps the invariant.
LEMMA SellReturnsKeeps ==
  ASSUME IInv, NEW t \in Tasks, SellReturns(t) PROVE IInv'
<1> DEFINE sold == selling[t]
<1>1. TypeOK
  BY DEF IInv
<1>2. sold \in Symbols
  BY <1>1 DEF SellReturns, TypeOK
<1>3. NotHeld(t, sold) \/ Accepted(t, sold) \/ Rejected(t, sold) \/ Failed(t, sold)
  BY DEF SellReturns
<1>4. UNCHANGED <<held, executed, alert, swallowed, late, restarts>>
  BY DEF SellReturns, report
<1>5. SameRuns /\ SellsTyped
  BY <1>1, <1>2, <1>3, AnswerSame
<1>6. Told
  BY <1>1, <1>4 DEF Told, TypeOK
<1>7. TypeOK'
  BY <1>1, <1>4, <1>5 DEF TypeOK, SameRuns, SellsTyped
<1> QED BY <1>5, <1>6, <1>7, TellingKeeps DEF IInv

\* SellLost keeps the invariant.
LEMMA SellLostKeeps ==
  ASSUME IInv, NEW t \in Tasks, SellLost(t) PROVE IInv'
<1>1. TypeOK
  BY DEF IInv
<1>2. selling[t] \in Symbols /\ live' = live \cup {selling[t]}
  BY <1>1 DEF SellLost, TypeOK
<1>3. UNCHANGED <<held, executed, rows, cool, selling, run, alert, swallowed, late, restarts>>
  BY DEF SellLost, sells, report
<1>4. SameRuns /\ Told
  BY <1>1, <1>3, StillSame DEF Told, TypeOK
<1>5. TypeOK'
  BY <1>1, <1>2, <1>3 DEF TypeOK
<1> QED BY <1>4, <1>5, TellingKeeps DEF IInv

\* Exits and SellsNext keep the invariant: they begin a sell, or skip one.
LEMMA SellingKeeps ==
  ASSUME IInv, NEW t \in Tasks, NEW x \in Symbols, Sells(t, x),
         UNCHANGED <<held, live, executed, rows, cool, alert, swallowed, late, restarts>>
  PROVE  IInv'
<1>1. TypeOK
  BY DEF IInv
<1>2. SameRuns /\ selling' \in [Tasks -> Symbols \cup {None}]
  BY <1>1, SellsSame
<1>3. Told
  BY <1>1 DEF Told, TypeOK
<1>4. TypeOK'
  BY <1>1, <1>2 DEF TypeOK, SameRuns
<1> QED BY <1>2, <1>3, <1>4, TellingKeeps DEF IInv

-------------------------------------------------------------------------------
(* The runs *)

\* One run moves, or none does; it has heard from KIS, or no run is told anything.
LEMMA RunKeeps ==
  ASSUME IInv, NEW t \in Runs, NEW r \in Run,
         run' = [run EXCEPT ![t] = r],
         Heard(t) \/ UNCHANGED late,
         alert' \in [open : BOOLEAN, named : SUBSET Symbols],
         swallowed' \subseteq Symbols,
         alert.named \subseteq alert'.named, swallowed \subseteq swallowed',
         UNCHANGED <<held, live, executed, rows, cool, selling, restarts>>,
         r.pc \in {"retry", "recheck"} => held \subseteq r.found \cup late'[t],
         r.pc = "done" /\ ~r.blind => held \subseteq alert'.named \cup swallowed' \cup late'[t]
  PROVE  IInv'
<1>1. /\ run' \in [Runs -> Run]
      /\ run'[t] = r
      /\ \A u \in Runs \ {t} : run'[u] = run[u]
  BY DEF IInv, TypeOK
<1>2. /\ late' \in [Runs -> SUBSET Symbols]
      /\ \A u \in Runs \ {t} : late'[u] = late[u]
  BY DEF IInv, TypeOK, Heard
<1>3. TypeOK'
  BY <1>1, <1>2 DEF IInv, TypeOK
<1>4. FoundHeld'
  BY <1>1, <1>2 DEF IInv, FoundHeld
<1>5. AccountedFor'
  BY <1>1, <1>2 DEF IInv, AccountedFor
<1> QED BY <1>3, <1>4, <1>5 DEF IInv

\* Reporting a set of symbols names or swallows it, and forgets nothing.
LEMMA Reporting ==
  ASSUME TypeOK, NEW S \in SUBSET Symbols, Reported(S)
  PROVE  /\ alert' \in [open : BOOLEAN, named : SUBSET Symbols]
         /\ swallowed' \subseteq Symbols
         /\ alert.named \subseteq alert'.named
         /\ swallowed \subseteq swallowed'
         /\ S \subseteq alert'.named \cup swallowed'
<1>1. CASE alert.open
  BY <1>1 DEF TypeOK, Reported
<1>2. CASE ~alert.open
  <2>1. alert' = [open |-> TRUE, named |-> alert.named \cup S] /\ UNCHANGED swallowed
    BY <1>2 DEF Reported
  <2>2. alert.named \subseteq Symbols
    BY DEF TypeOK
  <2>3. alert'.named = alert.named \cup S
    BY <2>1
  <2>4. alert' \in [open : BOOLEAN, named : SUBSET Symbols]
    BY <2>1, <2>2
  <2> QED BY <2>1, <2>3, <2>4 DEF TypeOK
<1> QED BY <1>1, <1>2

\* Starts keeps the invariant.
LEMMA EodStartsKeeps ==
  ASSUME IInv, NEW t \in Runs, Starts(t) PROVE IInv'
<1> DEFINE r == [run[t] EXCEPT !.pc = "lookup"]
<1>1. TypeOK
  BY DEF IInv
<1>2. r \in Run /\ r.pc = "lookup"
  BY <1>1 DEF TypeOK, Run, Places
<1>3. run' = [run EXCEPT ![t] = r]
  BY DEF Starts
<1>4. UNCHANGED <<held, live, executed, rows, cool, selling, restarts, alert, swallowed, late>>
  BY DEF Starts, broker, sells, report
<1> QED BY <1>1, <1>2, <1>3, <1>4, RunKeeps DEF TypeOK

\* LookupEnds keeps the invariant: a run that ends here has seen an empty account, or
\* had no balance.
LEMMA LookupKeeps ==
  ASSUME IInv, NEW t \in Runs, LookupEnds(t) PROVE IInv'
<1>1. TypeOK
  BY DEF IInv
<1>2. UNCHANGED <<held, live, executed, rows, cool, selling, restarts, alert, swallowed>>
  BY DEF LookupEnds, broker, sells, report
<1>3. ASSUME NEW S \in SUBSET Symbols, NEW blind \in BOOLEAN, Begins(t, S, blind),
             S = held \/ blind, Heard(t) \/ UNCHANGED late
      PROVE  IInv'
  <2> DEFINE unseen == IF blind /\ S = {} THEN TRUE ELSE FALSE
             place == IF S = {} THEN "done" ELSE "sell"
             r == [run[t] EXCEPT !.pc = place, !.todo = S, !.blind = unseen]
  <2>1. run[t] \in Run /\ unseen \in BOOLEAN /\ place \in Places
    BY <1>1 DEF TypeOK, Places
  <2>2. r \in Run
    BY <2>1 DEF Run
  <2>3. r.pc = place /\ r.blind = unseen
    BY <2>1 DEF Run
  <2>4. (blind /\ S = {}) = unseen
    OBVIOUS
  <2>5. run' = [run EXCEPT ![t] = r]
    BY <1>3, <2>4 DEF Begins
  <2>6. r.pc = "done" /\ ~r.blind => held = {}
    BY <1>3, <2>3
  <2>7. r.pc \notin {"retry", "recheck"}
    BY <2>3
  <2> HIDE DEF r
  <2> QED BY <1>1, <1>2, <1>3, <2>2, <2>5, <2>6, <2>7, RunKeeps DEF TypeOK
<1>4. held \in SUBSET Symbols
  BY <1>1 DEF TypeOK
<1> QED BY <1>3, <1>4 DEF LookupEnds

\* RoundEnds keeps the invariant.
LEMMA RoundKeeps ==
  ASSUME IInv, NEW t \in Runs, RoundEnds(t) PROVE IInv'
<1> DEFINE place == IF run[t].pc = "sell" THEN "check" ELSE "recheck"
           r == [run[t] EXCEPT !.pc = place]
<1>1. TypeOK
  BY DEF IInv
<1>2. run[t] \in Run /\ place \in Places
  BY <1>1 DEF TypeOK, Places
<1>3. r \in Run /\ r.pc = place /\ r.found = run[t].found
  BY <1>2 DEF Run
<1>4. run' = [run EXCEPT ![t] = r]
  BY DEF RoundEnds
<1>5. UNCHANGED <<held, live, executed, rows, cool, selling, restarts, alert, swallowed, late>>
  BY DEF RoundEnds, broker, sells, report
<1>6. place = "recheck" => held \subseteq run[t].found \cup late[t]
  BY DEF RoundEnds, IInv, FoundHeld
<1> HIDE DEF r
<1> QED BY <1>1, <1>3, <1>4, <1>5, <1>6, RunKeeps DEF TypeOK

\* Checked keeps the invariant: what is held is found.
LEMMA CheckedKeeps ==
  ASSUME IInv, NEW t \in Runs, Checked(t) PROVE IInv'
<1>1. TypeOK
  BY DEF IInv
<1>2. UNCHANGED <<held, live, executed, rows, cool, selling, restarts, alert, swallowed>>
  BY DEF Checked, broker, sells, report
<1>3. run[t] \in Run /\ held \in SUBSET Symbols
  BY <1>1 DEF TypeOK
<1>4. ASSUME run' = [run EXCEPT ![t].pc = IF held = {} THEN "done" ELSE "retry",
                                ![t].todo = held, ![t].found = held],
             Heard(t)
      PROVE  IInv'
  <2> DEFINE place == IF held = {} THEN "done" ELSE "retry"
             r == [run[t] EXCEPT !.pc = place, !.todo = held, !.found = held]
  <2>1. r \in Run
    BY <1>3 DEF Run, Places
  <2>2. r.pc = place /\ r.found = held
    BY <1>3 DEF Run
  <2>3. run' = [run EXCEPT ![t] = r]
    BY <1>4
  <2>4. r.pc = "done" => held = {}
    BY <2>2
  <2> HIDE DEF r
  <2> QED BY <1>1, <1>2, <1>4, <2>1, <2>2, <2>3, <2>4, RunKeeps DEF TypeOK
<1>5. ASSUME run' = [run EXCEPT ![t].pc = "done", ![t].blind = TRUE], UNCHANGED late
      PROVE  IInv'
  <2> DEFINE r == [run[t] EXCEPT !.pc = "done", !.blind = TRUE]
  <2>1. r \in Run /\ r.pc = "done" /\ r.blind = TRUE
    BY <1>3 DEF Run, Places
  <2>2. run' = [run EXCEPT ![t] = r]
    BY <1>5
  <2> HIDE DEF r
  <2> QED BY <1>1, <1>2, <1>5, <2>1, <2>2, RunKeeps DEF TypeOK
<1> QED BY <1>4, <1>5 DEF Checked

\* Rechecked keeps the invariant: what is held, or what was found, is reported.
LEMMA RecheckedKeeps ==
  ASSUME IInv, NEW t \in Runs, Rechecked(t) PROVE IInv'
<1> DEFINE r == [run[t] EXCEPT !.pc = "done"]
<1>1. TypeOK
  BY DEF IInv
<1>2. UNCHANGED <<held, live, executed, rows, cool, selling, restarts>>
  BY DEF Rechecked, broker, sells
<1>3. r \in Run /\ r.pc = "done"
  BY <1>1 DEF TypeOK, Run, Places
<1>4. run' = [run EXCEPT ![t] = r]
  BY DEF Rechecked
<1> HIDE DEF r
<1>5. CASE held = {} /\ UNCHANGED <<alert, swallowed>> /\ Heard(t)
  BY <1>1, <1>2, <1>3, <1>4, <1>5, RunKeeps DEF TypeOK
<1>6. CASE Reported(held) /\ Heard(t)
  <2>1. held \in SUBSET Symbols
    BY <1>1 DEF TypeOK
  <2> QED BY <1>1, <1>2, <1>3, <1>4, <1>6, <2>1, Reporting, RunKeeps
<1>7. CASE Reported(run[t].found) /\ UNCHANGED late
  <2>1. run[t].found \in SUBSET Symbols
    BY <1>1 DEF TypeOK, Run
  <2>2. held \subseteq run[t].found \cup late[t]
    BY DEF Rechecked, IInv, FoundHeld
  <2> QED BY <1>1, <1>2, <1>3, <1>4, <1>7, <2>1, <2>2, Reporting, RunKeeps
<1> QED BY <1>5, <1>6, <1>7 DEF Rechecked, report

-------------------------------------------------------------------------------
(* KIS, the poller, the operator, the process *)

\* Nothing moves the runs; the account changes as the runs are told.
LEMMA OutsideKeeps ==
  ASSUME IInv, UNCHANGED run, Told,
         live' \subseteq Symbols, executed' \subseteq Symbols, cool' \subseteq Symbols,
         rows' \in [Tasks -> [Symbols -> RowStatuses]],
         alert' \in [open : BOOLEAN, named : SUBSET Symbols],
         UNCHANGED <<selling, restarts>>
  PROVE  IInv'
<1>1. SameRuns
  BY StillSame DEF IInv
<1>2. TypeOK'
  BY DEF IInv, Told, TypeOK
<1> QED BY <1>1, <1>2, TellingKeeps DEF IInv

\* Executes, Buys, Settles, Cools and Acknowledges keep the invariant.
LEMMA EodOthersKeep ==
  ASSUME IInv,
         \/ \E x \in Symbols : Executes(x) \/ Buys(x) \/ Cools(x)
         \/ \E t \in Tasks, x \in Symbols : Settles(t, x)
         \/ Acknowledges
  PROVE  IInv'
<1>1. TypeOK
  BY DEF IInv
<1>2. CASE \E x \in Symbols : Executes(x)
  <2>1. Told /\ live' \subseteq Symbols /\ executed' \subseteq Symbols
    BY <1>1, <1>2 DEF Executes, report, Told, TypeOK
  <2> QED BY <1>1, <1>2, <2>1, OutsideKeeps DEF Executes, sells, report, TypeOK
<1>3. CASE \E x \in Symbols : Buys(x)
  <2>1. Told
    BY <1>1, <1>3 DEF Buys, report, Told, TypeOK
  <2> QED BY <1>1, <1>3, <2>1, OutsideKeeps DEF Buys, sells, report, TypeOK
<1>4. CASE \E x \in Symbols : Cools(x)
  <2>1. Told
    BY <1>1, <1>4 DEF Cools, broker, report, Told, TypeOK
  <2> QED BY <1>1, <1>4, <2>1, OutsideKeeps DEF Cools, broker, report, TypeOK
<1>5. CASE \E t \in Tasks, x \in Symbols : Settles(t, x)
  <2>1. Told
    BY <1>1, <1>5 DEF Settles, broker, report, Told, TypeOK
  <2>2. rows' \in [Tasks -> [Symbols -> RowStatuses]]
    BY <1>1, <1>5, SavedTyped DEF Settles, RowStatuses
  <2> QED BY <1>1, <1>5, <2>1, <2>2, OutsideKeeps DEF Settles, broker, report, TypeOK
<1>6. CASE Acknowledges
  <2>1. alert' \in [open : BOOLEAN, named : SUBSET Symbols] /\ alert'.named = alert.named
    BY <1>1, <1>6 DEF Acknowledges, TypeOK
  <2>2. Told
    BY <1>1, <1>6, <2>1 DEF Acknowledges, broker, Told, TypeOK
  <2> QED BY <1>1, <1>6, <2>1, <2>2, OutsideKeeps
          DEF Acknowledges, broker, sells, TypeOK
<1> QED BY <1>2, <1>3, <1>4, <1>5, <1>6

\* Restart keeps the invariant: a run under way is lost.
LEMMA EodRestartKeeps ==
  ASSUME IInv, Restart PROVE IInv'
<1> DEFINE gone == [NewRun EXCEPT !.pc = "lost"]
<1>1. TypeOK
  BY DEF IInv
<1>2. gone \in Run /\ gone.pc = "lost"
  BY DEF NewRun, Run, Places
<1>3. run' = [t \in Runs |-> IF run[t].pc \in {"new", "done"} THEN run[t] ELSE gone]
  BY DEF Restart
<1> HIDE DEF gone
<1>4. /\ run' \in [Runs -> Run]
      /\ \A t \in Runs : run'[t].pc # "lost" => run'[t] = run[t] /\ run[t].pc \in {"new", "done"}
  BY <1>1, <1>2, <1>3 DEF TypeOK
<1>5. UNCHANGED <<held, live, executed, rows, alert, swallowed, late>>
  BY DEF Restart, broker, report
<1>6. TypeOK'
  <2>1. restarts' \in 0 .. MaxRestarts
    BY <1>1, EodAssumption DEF Restart, TypeOK
  <2>2. selling' \in [Tasks -> Symbols \cup {None}] /\ cool' = {}
    BY DEF Restart
  <2> QED BY <1>1, <1>4, <1>5, <2>1, <2>2 DEF TypeOK
<1>7. FoundHeld' /\ AccountedFor'
  BY <1>4, <1>5 DEF IInv, FoundHeld, AccountedFor
<1> QED BY <1>6, <1>7 DEF IInv

-------------------------------------------------------------------------------
(* The theorems *)

\* Every step keeps the invariant.
LEMMA StepKeeps == IInv /\ [Next]_vars => IInv'
<1> SUFFICES ASSUME IInv, [Next]_vars PROVE IInv'
  OBVIOUS
<1>1. ASSUME NEW t \in Runs, Starts(t) \/ Continues(t) PROVE IInv'
  <2>1. t \in Tasks
    BY DEF Tasks
  <2>2. CASE SellsNext(t)
    <3>1. PICK x \in run[t].todo : Sells(t, x)
      BY <2>2 DEF SellsNext
    <3>2. x \in Symbols
      BY DEF IInv, TypeOK, Run
    <3> QED BY <2>1, <2>2, <3>1, <3>2, SellingKeeps DEF SellsNext, broker, report
  <2> QED BY <1>1, <2>2, EodStartsKeeps, LookupKeeps, RoundKeeps, CheckedKeeps, RecheckedKeeps
          DEF Continues
<1>2. ASSUME NEW x \in Symbols, Exits(x) PROVE IInv'
  <2>1. Exit \in Tasks
    BY DEF Tasks
  <2> QED BY <1>2, <2>1, SellingKeeps DEF Exits, broker, report
<1>3. CASE UNCHANGED vars
  BY <1>3 DEF vars, IInv, TypeOK, FoundHeld, AccountedFor
<1> QED BY <1>1, <1>2, <1>3, SellReturnsKeeps, SellLostKeeps, EodOthersKeep, EodRestartKeeps
        DEF Next

\* The inductive invariant of the liquidation holds for any symbols, runs and restarts.
THEOREM Invariance == Spec => []IInv
<1>1. Init => IInv
  BY InitHolds
<1>2. IInv /\ [Next]_vars => IInv'
  BY StepKeeps
<1> QED BY <1>1, <1>2, PTL DEF Spec

\* The variables of the liquidation have their types: no sell is of an unknown symbol.
THEOREM TypeCorrect == Spec => []TypeOK
<1>1. IInv => TypeOK
  BY DEF IInv
<1> QED BY <1>1, Invariance, PTL

\* What a run leaves held was named in the alert, or swallowed by one that nobody had
\* acknowledged, or bought since the run last heard from KIS, unless it could not see.
THEOREM LeftIsAccountedFor == Spec => []AccountedFor
<1>1. IInv => AccountedFor
  BY DEF IInv
<1> QED BY <1>1, Invariance, PTL
-------------------------------------------------------------------------------
(* A run winds down *)

Stage(place) ==
  CASE place = "new"   -> 0 [] place = "lookup" -> 1 [] place = "sell"    -> 2
    [] place = "check" -> 3 [] place = "retry"  -> 4 [] place = "recheck" -> 5
    [] OTHER           -> 6   \* done or lost

\* A run comes to a later stage, has fewer positions left in its round, or begins to sell
\* one of those it has left.
Advances(t) ==
  \/ Stage(run[t].pc) < Stage(run'[t].pc)
  \/ /\ run'[t].pc = run[t].pc
     /\ run'[t].todo \subseteq run[t].todo /\ run'[t].todo # run[t].todo
  \/ run'[t] = run[t] /\ selling[t] = None /\ selling'[t] \in run[t].todo

\* Whatever moves a run, it advances: there are six stages and a finite round in each.
RunsWindDown ==
  [][\A t \in Runs : run'[t] # run[t] \/ selling'[t] # selling[t] => Advances(t)]_vars

\* A run awaits only a sell that is left of its round; of one that was lost nothing is left.
Round == {"sell", "retry"}
Lost  == [NewRun EXCEPT !.pc = "lost"]

Orderly(t) ==
  /\ selling[t] # None => run[t].pc \in Round /\ selling[t] \in run[t].todo
  /\ run[t].pc = "lost" => run[t] = Lost

AllOrderly == \A t \in Runs : Orderly(t)

WindsDown(t) ==
  Orderly(t)' /\ (run'[t] # run[t] \/ selling'[t] # selling[t] => Advances(t))

\* A run that nothing moves.
LEMMA RestsOrderly ==
  ASSUME NEW t \in Runs, Orderly(t), run'[t] = run[t], selling'[t] = selling[t]
  PROVE  WindsDown(t)
  BY DEF Orderly, WindsDown

\* A run that awaits no sell, and comes to a later stage.
LEMMA ComesLater ==
  ASSUME NEW t \in Runs, selling'[t] = None,
         Stage(run[t].pc) < Stage(run'[t].pc), run'[t].pc = "lost" => run'[t] = Lost
  PROVE  WindsDown(t)
  BY DEF Orderly, WindsDown, Advances

\* The sell of a position of the round is over.
LEMMA SellOver ==
  ASSUME TypeOK, NEW t \in Runs, NEW x \in run[t].todo, run[t].pc \in Round,
         Sold(t, x) \/ SoldAfterAsking(t, x)
  PROVE  WindsDown(t)
<1>1. run[t] \in Run /\ t \in Tasks
  BY DEF TypeOK, Tasks
<1>2. selling'[t] = None
  BY <1>1 DEF Sold, SoldAfterAsking, TypeOK
<1>3. run'[t].pc = run[t].pc /\ run'[t].todo = run[t].todo \ {x}
  <2>1. CASE Sold(t, x)
    <3>1. run' = [run EXCEPT ![t].todo = @ \ {x}]
      BY <2>1 DEF Sold
    <3> QED BY <1>1, <3>1 DEF Run, TypeOK
  <2>2. CASE SoldAfterAsking(t, x)
    <3> DEFINE tried == IF run[t].pc = "retry" THEN run[t].tried \cup {x} ELSE run[t].tried
               new   == [run[t] EXCEPT !.todo = @ \ {x}, !.tried = tried]
    <3>1. run' = [run EXCEPT ![t] = new]
      BY <2>2 DEF SoldAfterAsking
    <3>2. new.pc = run[t].pc /\ new.todo = run[t].todo \ {x}
      BY <1>1 DEF Run
    <3> HIDE DEF new
    <3> QED BY <3>1, <3>2 DEF TypeOK
  <2> QED BY <2>1, <2>2
<1> QED BY <1>2, <1>3 DEF Orderly, WindsDown, Advances, Round

\* The sell of another task leaves a run where it is.
LEMMA NotMine ==
  ASSUME TypeOK, NEW t \in Runs, Orderly(t), NEW u \in Tasks, u # t, NEW x,
         Sold(u, x) \/ SoldAfterAsking(u, x) \/ Sells(u, x)
  PROVE  WindsDown(t)
<1>1. run'[t] = run[t] /\ selling'[t] = selling[t]
  BY DEF TypeOK, Tasks, Sold, SoldAfterAsking, Sells
<1> QED BY <1>1, RestsOrderly

\* The stages a run comes to by itself.
Moved(t) ==
  \/ run[t].pc = "new" /\ run'[t].pc = "lookup"
  \/ run[t].pc = "lookup" /\ run'[t].pc \in {"sell", "done"}
  \/ run[t].pc = "sell" /\ run'[t].pc = "check"
  \/ run[t].pc = "check" /\ run'[t].pc \in {"retry", "done"}
  \/ run[t].pc = "retry" /\ run'[t].pc = "recheck"
  \/ run[t].pc = "recheck" /\ run'[t].pc = "done"

LEMMA StageMoves ==
  ASSUME TypeOK, NEW t \in Runs,
         Starts(t) \/ LookupEnds(t) \/ RoundEnds(t) \/ Checked(t) \/ Rechecked(t)
  PROVE  Moved(t)
<1>1. run \in [Runs -> Run] /\ run[t] \in Run
  BY DEF TypeOK
<1>2. CASE Starts(t)
  BY <1>1, <1>2 DEF Starts, Moved, Run
<1>3. CASE LookupEnds(t)
  <2>1. PICK S \in SUBSET Symbols, blind \in BOOLEAN : Begins(t, S, blind)
    BY <1>3, held \in SUBSET Symbols DEF LookupEnds, TypeOK
  <2>2. PICK place \in {"done", "sell"} : place = IF S = {} THEN "done" ELSE "sell"
    OBVIOUS
  <2>3. PICK r : r = [run[t] EXCEPT !.pc = place, !.todo = S, !.blind = (blind /\ S = {})]
    OBVIOUS
  <2>4. r.pc = place
    BY <1>1, <2>3 DEF Run
  <2>5. run'[t] = r /\ run[t].pc = "lookup"
    BY <1>1, <1>3, <2>1, <2>2, <2>3 DEF Begins, LookupEnds
  <2> QED BY <2>2, <2>4, <2>5 DEF Moved
<1>4. CASE RoundEnds(t)
  <2>1. \/ run[t].pc = "sell" /\ run'[t].pc = "check"
        \/ run[t].pc = "retry" /\ run'[t].pc = "recheck"
    BY <1>1, <1>4 DEF RoundEnds, Run
  <2> QED BY <2>1 DEF Moved
<1>5. CASE Checked(t)
  <2>1. \/ run' = [run EXCEPT ![t].pc = IF held = {} THEN "done" ELSE "retry",
                              ![t].todo = held, ![t].found = held]
        \/ run' = [run EXCEPT ![t].pc = "done", ![t].blind = TRUE]
    BY <1>5 DEF Checked
  <2>2. PICK place \in {"done", "retry"} : place = IF held = {} THEN "done" ELSE "retry"
    OBVIOUS
  <2>3. ASSUME run' = [run EXCEPT ![t].pc = place, ![t].todo = held, ![t].found = held]
        PROVE  run'[t].pc = place
    BY <1>1, <2>3 DEF Run
  <2>4. ASSUME run' = [run EXCEPT ![t].pc = "done", ![t].blind = TRUE]
        PROVE  run'[t].pc = "done"
    BY <1>1, <2>4 DEF Run
  <2>5. run[t].pc = "check" /\ run'[t].pc \in {"retry", "done"}
    BY <1>5, <2>1, <2>2, <2>3, <2>4 DEF Checked
  <2> QED BY <2>5 DEF Moved
<1>6. CASE Rechecked(t)
  BY <1>1, <1>6 DEF Rechecked, Moved, Run
<1> QED BY <1>2, <1>3, <1>4, <1>5, <1>6

\* They are later ones.
LEMMA StageWindsDown ==
  ASSUME TypeOK, NEW t \in Runs, Orderly(t),
         Starts(t) \/ LookupEnds(t) \/ RoundEnds(t) \/ Checked(t) \/ Rechecked(t)
  PROVE  WindsDown(t)
<1>1. selling[t] = None /\ selling' = selling
  BY DEF Orderly, Round, Starts, LookupEnds, RoundEnds, Checked, Rechecked, sells
<1>2. Moved(t)
  BY StageMoves
<1>3. Stage(run[t].pc) < Stage(run'[t].pc) /\ run'[t].pc # "lost"
  BY <1>2 DEF Moved, Stage
<1> QED BY <1>1, <1>3, ComesLater

\* The next position of the round.
LEMMA NextWindsDown ==
  ASSUME TypeOK, NEW t \in Runs, Orderly(t), SellsNext(t) PROVE WindsDown(t)
<1>1. t \in Tasks /\ run[t].pc \in Round /\ selling[t] = None /\ run \in [Runs -> Run]
  BY DEF TypeOK, Tasks, SellsNext, Free, Round
<1>2. PICK x \in run[t].todo : Sells(t, x)
  BY DEF SellsNext
<1>3. CASE Sold(t, x)
  BY <1>1, <1>3, SellOver
<1>4. CASE selling' = [selling EXCEPT ![t] = x] /\ UNCHANGED run
  <2>1. selling'[t] = x /\ run'[t] = run[t]
    BY <1>1, <1>4 DEF TypeOK
  <2> QED BY <1>1, <2>1 DEF Orderly, WindsDown, Advances, Round
<1> QED BY <1>2, <1>3, <1>4 DEF Sells

\* A restart takes the runs under way to their end.
LEMMA RestartWindsDown ==
  ASSUME TypeOK, NEW t \in Runs, Orderly(t), Restart PROVE WindsDown(t)
<1>1. selling'[t] = None
  BY DEF Restart, Tasks
<1>2. run'[t] = IF run[t].pc \in {"new", "done"} THEN run[t] ELSE Lost
  BY DEF Restart, Lost
<1>3. Lost.pc = "lost"
  BY DEF Lost, NewRun
<1>4. CASE run[t].pc \in {"new", "done"}
  BY <1>1, <1>2, <1>4, RestsOrderly DEF Orderly, Round
<1>5. CASE run[t].pc = "lost"
  BY <1>1, <1>2, <1>3, <1>5, RestsOrderly DEF Orderly, Round
<1>6. CASE run[t].pc \in {"lookup", "sell", "check", "retry", "recheck"}
  <2>1. Stage(run[t].pc) < Stage(run'[t].pc)
    BY <1>2, <1>3, <1>6 DEF Stage
  <2> QED BY <1>1, <1>2, <1>3, <1>6, <2>1, ComesLater
<1> QED BY <1>4, <1>5, <1>6 DEF TypeOK, Run, Places

\* Every step of whomever.
LEMMA StepWindsDown ==
  ASSUME TypeOK, NEW t \in Runs, Orderly(t), [Next]_vars PROVE WindsDown(t)
<1>1. t \in Tasks /\ run \in [Runs -> Run] /\ selling \in [Tasks -> Symbols \cup {None}]
  BY DEF TypeOK, Tasks
<1>2. ASSUME NEW u \in Runs, Starts(u) \/ Continues(u) PROVE WindsDown(t)
  <2>1. CASE u = t
    BY <1>2, <2>1, StageWindsDown, NextWindsDown DEF Continues
  <2>2. CASE u # t
    <3>1. CASE SellsNext(u)
      BY <2>2, <3>1, NotMine DEF SellsNext, Tasks
    <3>2. CASE Starts(u) \/ LookupEnds(u) \/ RoundEnds(u) \/ Checked(u) \/ Rechecked(u)
      <4>1. run'[t] = run[t] /\ selling' = selling
        BY <1>1, <2>2, <3>2
           DEF Starts, LookupEnds, Begins, RoundEnds, Checked, Rechecked, sells
      <4> QED BY <4>1, RestsOrderly
    <3> QED BY <1>2, <3>1, <3>2 DEF Continues
  <2> QED BY <2>1, <2>2
<1>3. ASSUME NEW u \in Tasks, SellReturns(u) PROVE WindsDown(t)
  <2>1. SoldAfterAsking(u, selling[u]) /\ selling[u] # None
    BY <1>3 DEF SellReturns, NotHeld, Accepted, Rejected, Failed
  <2>2. CASE u = t
    <3>1. run[t].pc \in Round /\ selling[t] \in run[t].todo
      BY <2>1, <2>2 DEF Orderly
    <3> QED BY <2>1, <2>2, <3>1, SellOver
  <2>3. CASE u # t
    BY <2>1, <2>3, NotMine
  <2> QED BY <2>2, <2>3
<1>4. ASSUME NEW x \in Symbols, Exits(x) PROVE WindsDown(t)
  <2>1. Exit # t /\ Exit \in Tasks
    BY EodAssumption DEF Tasks
  <2> QED BY <1>4, <2>1, NotMine DEF Exits
<1>5. ASSUME UNCHANGED <<run, selling>> PROVE WindsDown(t)
  BY <1>5, RestsOrderly
<1>6. CASE \/ \E u \in Tasks : SellLost(u)
           \/ \E u \in Tasks, x \in Symbols : Settles(u, x)
           \/ \E x \in Symbols : Executes(x) \/ Buys(x) \/ Cools(x)
           \/ Acknowledges \/ UNCHANGED vars
  BY <1>5, <1>6 DEF SellLost, Settles, Executes, Buys, Cools, Acknowledges, sells, vars
<1> QED BY <1>2, <1>3, <1>4, <1>6, RestartWindsDown DEF Next

\* No liquidation goes round: each of its steps, and each answer to one of its sells, takes
\* it on, whatever sells, buys, restarts and other runs come between. It is what
\* SoldOrReported rests on, for any number of symbols and runs.
THEOREM NoRunGoesRound == Spec => RunsWindDown
<1>1. Init => AllOrderly
  <2> SUFFICES ASSUME Init, NEW t \in Runs PROVE Orderly(t)
    BY DEF AllOrderly
  <2>1. t \in Tasks
    BY DEF Tasks
  <2> QED BY <2>1 DEF Init, Orderly, NewRun
<1>2. TypeOK /\ AllOrderly /\ [Next]_vars => AllOrderly'
  BY StepWindsDown DEF AllOrderly, WindsDown
<1>3. TypeOK /\ AllOrderly /\ [Next]_vars =>
        [\A t \in Runs : run'[t] # run[t] \/ selling'[t] # selling[t] => Advances(t)]_vars
  BY StepWindsDown DEF AllOrderly, WindsDown
<1>4. Spec => []AllOrderly
  BY <1>1, <1>2, TypeCorrect, PTL DEF Spec
<1> QED BY <1>3, <1>4, TypeCorrect, PTL DEF Spec, RunsWindDown

-------------------------------------------------------------------------------
(* What a run leaves is settled in the end *)

\* The runs of the day by the balance they have seen last.
Looking(t)   == run[t].pc = "lookup"
Selling(t)   == run[t].pc = "sell"
Checking(t)  == run[t].pc = "check"
Retrying(t)  == run[t].pc = "retry"
Rechecking(t) == run[t].pc = "recheck"
Over(t)      == run[t].pc \in {"done", "lost"}

\* A run stays where it is, comes to its next stage, or is lost.
LEMMA NextStage ==
  ASSUME TypeOK, NEW t \in Runs, [Next]_vars
  PROVE  run'[t].pc = run[t].pc \/ Moved(t) \/ run'[t].pc = "lost"
<1>1. t \in Tasks /\ run \in [Runs -> Run]
  BY DEF TypeOK, Tasks
<1>2. ASSUME SameRuns PROVE run'[t].pc = run[t].pc
  BY <1>2 DEF SameRuns
<1>3. ASSUME NEW u \in Runs, Starts(u) \/ Continues(u)
      PROVE  run'[t].pc = run[t].pc \/ Moved(t)
  <2>1. CASE SellsNext(u)
    <3>1. u \in Tasks /\ \E x \in Symbols : Sells(u, x)
      BY <2>1 DEF SellsNext, TypeOK, Run, Tasks
    <3> QED BY <1>2, <3>1, SellsSame
  <2>2. ASSUME Starts(u) \/ LookupEnds(u) \/ RoundEnds(u) \/ Checked(u) \/ Rechecked(u)
        PROVE  run'[t].pc = run[t].pc \/ Moved(t)
    <3>1. CASE u = t
      BY <2>2, <3>1, StageMoves
    <3>2. CASE u # t
      BY <1>1, <2>2, <3>2 DEF Starts, LookupEnds, Begins, RoundEnds, Checked, Rechecked
    <3> QED BY <3>1, <3>2
  <2> QED BY <1>3, <2>1, <2>2 DEF Continues
<1>4. CASE \E u \in Tasks : SellReturns(u)
  <2>1. PICK u \in Tasks : SellReturns(u)
    BY <1>4
  <2>2. PICK x : x = selling[u]
    OBVIOUS
  <2>3. x \in Symbols /\ SoldAfterAsking(u, x)
    BY <2>1, <2>2 DEF SellReturns, NotHeld, Accepted, Rejected, Failed, TypeOK
  <2> QED BY <1>2, <2>3, SoldSame
<1>5. CASE \E x \in Symbols : Exits(x)
  <2>1. Exit \in Tasks
    BY DEF Tasks
  <2> QED BY <1>2, <1>5, <2>1, SellsSame DEF Exits
<1>6. CASE Restart
  <2>1. run'[t] = IF run[t].pc \in {"new", "done"} THEN run[t] ELSE Lost
    BY <1>6 DEF Restart, Lost
  <2> QED BY <2>1 DEF Lost, NewRun
<1>7. CASE \/ \E u \in Tasks : SellLost(u)
           \/ \E u \in Tasks, x \in Symbols : Settles(u, x)
           \/ \E x \in Symbols : Executes(x) \/ Buys(x) \/ Cools(x)
           \/ Acknowledges \/ UNCHANGED vars
  BY <1>7 DEF SellLost, Settles, Executes, Buys, Cools, Acknowledges, sells, vars
<1> QED BY <1>3, <1>4, <1>5, <1>6, <1>7 DEF Next

\* The fairness of the runs is that of each, and so is what is said of their rounds.
LEMMA EachGoesOn ==
  ASSUME NEW t \in Runs
  PROVE  /\ RunsGoOn => GoesOn(t)
         /\ RoundsOver => RoundEnded(t)
  BY DEF RunsGoOn, RoundsOver

\* A run that awaits a balance has it, or does without.
LEMMA BalanceComes ==
  ASSUME NEW t \in Runs
  PROVE  FairSpec /\ []RunsCanGo =>
           /\ Looking(t) ~> Selling(t) \/ Over(t)
           /\ Checking(t) ~> Retrying(t) \/ Over(t)
           /\ Rechecking(t) ~> Over(t)
<1>1. FairSpec => Spec /\ WF_vars(Continues(t))
  BY EachGoesOn, PTL DEF FairSpec, GoesOn
<1>2. TypeOK /\ [Next]_vars =>
        /\ Looking(t) => Looking(t)' \/ Selling(t)' \/ Over(t)'
        /\ Checking(t) => Checking(t)' \/ Retrying(t)' \/ Over(t)'
        /\ Rechecking(t) => Rechecking(t)' \/ Over(t)'
  BY NextStage DEF Moved, Looking, Selling, Checking, Retrying, Rechecking, Over
<1>3. TypeOK /\ <<Continues(t)>>_vars =>
        /\ Looking(t) => Selling(t)' \/ Over(t)'
        /\ Checking(t) => Retrying(t)' \/ Over(t)'
        /\ Rechecking(t) => Over(t)'
  <2> SUFFICES ASSUME TypeOK, Continues(t), Looking(t) \/ Checking(t) \/ Rechecking(t)
               PROVE  Moved(t)
    BY DEF Moved, Looking, Selling, Checking, Retrying, Rechecking, Over
  <2>1. ~SellsNext(t)
    BY DEF SellsNext, Looking, Checking, Rechecking
  <2> QED BY <2>1, StageMoves DEF Continues
<1>4. RunsCanGo /\ (Looking(t) \/ Checking(t) \/ Rechecking(t)) => ENABLED <<Continues(t)>>_vars
  BY DEF RunsCanGo, Looking, Checking, Rechecking
<1> QED BY <1>1, <1>2, <1>3, <1>4, TypeCorrect, PTL DEF Spec

\* A round that ends is followed by its check.
LEMMA RoundIsChecked ==
  ASSUME NEW t \in Runs
  PROVE  Spec /\ RoundsOver =>
           /\ Selling(t) ~> Checking(t) \/ Over(t)
           /\ Retrying(t) ~> Rechecking(t) \/ Over(t)
<1>1. RoundsOver => RoundEnded(t)
  BY EachGoesOn
<1>2. TypeOK /\ [Next]_vars =>
        /\ Selling(t) => Selling(t)' \/ Checking(t)' \/ Over(t)'
        /\ Retrying(t) => Retrying(t)' \/ Rechecking(t)' \/ Over(t)'
  BY NextStage DEF Moved, Selling, Checking, Retrying, Rechecking, Over
<1>3. /\ Selling(t) \/ Retrying(t) => run[t].pc \in {"sell", "retry"}
      /\ run[t].pc \notin {"sell", "retry"} => ~Selling(t) /\ ~Retrying(t)
  BY DEF Selling, Retrying
<1> QED BY <1>1, <1>2, <1>3, TypeCorrect, PTL DEF Spec, RoundEnded

\* Every holding a run of the liquidation starts with is sold or reported, however its
\* sells fail and whatever is sold, bought and acknowledged meanwhile, unless the run lost
\* its sight or the process - if each of its rounds comes to an end. That is a hypothesis
\* because it takes an induction on the positions of a round (NoRunGoesRound is its
\* step), and so is RunsCanGo, of ENABLED: TLC evaluates both.
THEOREM SettledInTheEnd == FairSpec /\ []RunsCanGo /\ RoundsOver => SoldOrReported
<1>1. ASSUME NEW t \in Runs, NEW x \in Symbols
      PROVE  FairSpec /\ []RunsCanGo /\ RoundsOver => Settled(t, x)
  <2>1. FairSpec /\ []RunsCanGo =>
          /\ Looking(t) ~> Selling(t) \/ Over(t)
          /\ Checking(t) ~> Retrying(t) \/ Over(t)
          /\ Rechecking(t) ~> Over(t)
    BY BalanceComes
  <2>2. Spec /\ RoundsOver =>
          /\ Selling(t) ~> Checking(t) \/ Over(t)
          /\ Retrying(t) ~> Rechecking(t) \/ Over(t)
    BY RoundIsChecked
  <2>3. run[t].pc = "lookup" => Looking(t)
    BY DEF Looking
  <2>4. AccountedFor /\ Over(t) =>
          \/ x \notin held \/ x \in alert.named \cup swallowed \cup late[t]
          \/ run[t].blind \/ run[t].pc = "lost"
    BY DEF AccountedFor, Over
  <2> QED BY <2>1, <2>2, <2>3, <2>4, LeftIsAccountedFor, PTL DEF FairSpec, Settled
<1> QED BY <1>1 DEF SoldOrReported
===============================================================================

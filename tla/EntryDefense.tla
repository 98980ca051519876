----------------------------- MODULE EntryDefense ------------------------------
(***************************************************************************)
(* The intraday regime monitor: at each slot of the day it asks for the     *)
(* KOSPI, raises the flash crash defence that keeps new buys out for the    *)
(* day, and switches the regime SET in force, beside activations that apply *)
(* the morning's SET and across restarts.                                   *)
(*                                                                         *)
(* The entry gate and the order preflight block buys while the defence is   *)
(* of today or the SET in force forbids entries. Settings are the defaults  *)
(* (regime.set_source 5tier, the defence enabled). The series of samples    *)
(* behind the down-transition latch, whose gate is off by default, is left  *)
(* out, and so are failures of the database and how SETs are scored:        *)
(* SetsFor says which may match best. What is promised, and the variables   *)
(* it is about, are in MarketDay.                                          *)
(***************************************************************************)
EXTENDS MarketDay, Integers

CONSTANTS
  Levels,       \* changes of the KOSPI
  CrashLevel,   \* risk.flash_crash_threshold_pct
  DownLevel,    \* regime.down_pct
  UpLevel,      \* regime.up_pct
  Sets,         \* regime SETs, the auto-created ones among them
  SetsFor,      \* regime -> SETs that may match best
  Slots,        \* slots of a day
  MaxDays,      \* bound on trading days
  MaxRestarts   \* bound on process restarts

VARIABLES
  slot,
  kospi,      \* the market now
  vol,        \* volatility: "high" above regime.vix_volatile, "panic" VIX above 35
  rebound,    \* the KOSPI fell crash_guard_drop_pct in the five days before
  sample,     \* latest KOSPI row of market_snapshots, of any day
  recent,     \* it was applied less than MIN_TRANSITION_INTERVAL_MINUTES ago
  due,        \* the job of this slot has not run
  check,      \* what check_intraday_regime read before it awaits the KOSPI
  restarts    \* of the process

clock   == <<day, slot>>
market  == <<kospi, vol, rebound>>
history == <<crashed, foreign, judged>>
vars    == <<clock, market, sample, app, recent, defence, due, check, history, restarts>>

-------------------------------------------------------------------------------
Regimes  == {"risk_on", "neutral", "risk_off", "volatile"}
Vols     == {"calm", "high", "panic"}
NoSet    == "no set"
NoApp    == [set |-> NoSet, trigger |-> "none"]
NoSample == [level |-> 0, day |-> 0]
NoCheck  == [set |-> NoSet, vol |-> "none"]

Asking == check # NoCheck

\* What the KOSPI is taken for: KIS's answer, or, when KIS fails, the latest row of
\* market_snapshots, if there is one. The monitor itself writes those rows.
Stored   == IF sample = NoSample THEN {} ELSE {sample.level}
Readings == {{kospi}, Stored}

\* _flash_crash_detected
Crash(reading, v) == v = "panic" \/ \E l \in reading : l <= CrashLevel

\* classify_regime_5tier, regime_to_set and crash_rebound_guard.
Regime(l, v) ==
  IF v # "calm" THEN "volatile"
  ELSE IF Crash({l}, v) \/ l <= DownLevel THEN "risk_off"
  ELSE IF l >= UpLevel /\ ~rebound THEN "risk_on" ELSE "neutral"

-------------------------------------------------------------------------------
(* The check *)

\* What the check read before its await: the SET in force and the VIX.
Asks ==
  /\ due
  /\ ~Asking
  /\ due' = FALSE
  /\ check' = IF app = NoApp THEN NoCheck ELSE [set |-> app.set, vol |-> vol]
  /\ UNCHANGED <<clock, market, sample, app, recent, defence, history, restarts>>

\* The defence comes before every early return.
Defends(reading) ==
  /\ defence' = IF Crash(reading, check.vol) THEN day ELSE defence
  /\ foreign' = (foreign \/ (reading \ {kospi} # {} /\ sample.day # day))

\* A SET applied minutes ago is left alone, except in a crash.
Proceeds(reading) == ~recent \/ Crash(reading, check.vol)

Stores(reading) == \E l \in reading : sample' = [level |-> l, day |-> day]

\* Too soon after the last SET, or no KOSPI at all.
Skips(reading) ==
  /\ Asking
  /\ Defends(reading)
  /\ ~Proceeds(reading) \/ reading = {}
  /\ check' = NoCheck
  /\ UNCHANGED <<clock, market, sample, app, recent, due, crashed, judged, restarts>>

\* The SET of the regime is compared with the one read before the await.
Judges(reading) ==
  /\ Asking
  /\ Defends(reading)
  /\ Proceeds(reading)
  /\ Stores(reading)
  /\ \E l \in reading : \E s \in SetsFor[Regime(l, check.vol)] :
       /\ judged' = s
       /\ IF s = check.set
            THEN UNCHANGED <<app, recent>>
            ELSE app' = [set |-> s, trigger |-> "intraday"] /\ recent' = TRUE
  /\ check' = NoCheck
  /\ UNCHANGED <<clock, market, due, crashed, restarts>>

-------------------------------------------------------------------------------
(* Activations, restarts and time *)

\* activate() applies the SET of the morning's regime, which the briefing poll may
\* have changed since, but never over one the monitor chose.
Activates(s) ==
  /\ app.trigger # "intraday"
  /\ app' = [set |-> s, trigger |-> "morning"]
  /\ recent' = TRUE
  /\ UNCHANGED <<clock, market, sample, defence, due, check, history, restarts>>

\* A check that is cut has written nothing, the defence, or the sample too; the row in
\* force is replaced in one transaction.
Restart ==
  /\ restarts < MaxRestarts
  /\ restarts' = restarts + 1
  /\ due' = FALSE
  /\ check' = NoCheck
  /\ \/ UNCHANGED <<sample, defence, foreign>>
     \/ /\ Asking
        /\ \E reading \in Readings :
             /\ Defends(reading)
             /\ (Proceeds(reading) /\ Stores(reading)) \/ UNCHANGED sample
  /\ UNCHANGED <<clock, market, app, recent, crashed, judged>>

Moves ==
  /\ kospi' \in Levels
  /\ vol' \in Vols
  /\ crashed' = (crashed \/ Crash({kospi'}, vol'))
  /\ UNCHANGED <<clock, rebound, sample, app, recent, defence, due, check, foreign,
                 judged, restarts>>

NextSlot ==
  /\ slot < Slots
  /\ ~Asking
  /\ slot' = slot + 1
  /\ due' = TRUE
  /\ recent' \in {recent, FALSE}
  /\ UNCHANGED <<day, market, sample, app, defence, check, history, restarts>>

NextDay ==
  /\ ~Asking
  /\ day < MaxDays
  /\ day' = day + 1
  /\ slot' = 0
  /\ kospi' \in Levels
  /\ vol' \in Vols
  /\ rebound' \in BOOLEAN
  /\ app' = NoApp
  /\ recent' = FALSE
  /\ due' = FALSE
  /\ crashed' = Crash({kospi'}, vol')
  /\ foreign' = FALSE
  /\ judged' = NoSet
  /\ UNCHANGED <<sample, defence, check, restarts>>

Init ==
  /\ day = 1
  /\ slot = 0
  /\ kospi \in Levels
  /\ vol \in Vols
  /\ rebound \in BOOLEAN
  /\ sample = NoSample
  /\ app = NoApp
  /\ recent = FALSE
  /\ defence = 0
  /\ due = FALSE
  /\ check = NoCheck
  /\ crashed = Crash({kospi}, vol)
  /\ foreign = FALSE
  /\ judged = NoSet
  /\ restarts = 0

Next ==
  \/ Asks
  \/ \E reading \in Readings : Skips(reading) \/ Judges(reading)
  \/ \E s \in Sets : Activates(s)
  \/ Restart
  \/ Moves
  \/ NextSlot
  \/ NextDay

Spec == Init /\ [][Next]_vars
-------------------------------------------------------------------------------
TypeOK ==
  /\ day \in 1 .. MaxDays
  /\ slot \in 0 .. Slots
  /\ kospi \in Levels
  /\ vol \in Vols
  /\ {rebound, recent, due, crashed, foreign} \subseteq BOOLEAN
  /\ sample \in [level : Levels, day : 1 .. day] \cup {NoSample}
  /\ app \in [set : Sets, trigger : {"morning", "intraday"}] \cup {NoApp}
  /\ defence \in 0 .. day
  /\ check \in [set : Sets, vol : Vols] \cup {NoCheck}
  /\ judged \in Sets \cup {NoSet}
  /\ restarts \in 0 .. MaxRestarts
===============================================================================

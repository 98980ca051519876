------------------------------- MODULE EngineDay -------------------------------
(***************************************************************************)
(* When the decision engine runs: activate() and deactivate(), and those    *)
(* who call them - the S6 job, the watchdog (by cron and at start-up), the  *)
(* operator's requests, and the S9 job - over trading days with restarts.   *)
(*                                                                         *)
(* Every action is the code a task runs from one await to the next. The     *)
(* positions and orders the parts of the engine work on are other modules'. *)
(* Left out: settings that cannot be read or written, days without trading  *)
(* or skipped by the operator (schedule_skip_today), and exceptions out of  *)
(* activate().                                                              *)
(***************************************************************************)
EXTENDS Naturals

CONSTANTS
  Requests,     \* the operator's activate and deactivate requests
  S6Job,        \* task: job_decision_engine_start by its cron
  Watchdog,     \* task: job_decision_engine_watchdog
  S9Job,        \* task: job_eod_liquidation (the 15:12 sweep, then post-process)
  Refresh,      \* task: on_position_slot_opened, which restarts the feed
  MaxDays,      \* bound on trading days
  MaxRestarts   \* bound on process restarts

Starters == Requests \cup {S6Job, Watchdog}
Stoppers == Requests \cup {S9Job}
Tasks    == Starters \cup Stoppers \cup {Refresh}

ASSUME TaskAssumption ==
  /\ S6Job \notin Requests /\ Watchdog \notin Requests
  /\ S9Job \notin Starters /\ Refresh \notin Starters \cup Stoppers
  /\ S6Job # Watchdog
ASSUME BoundAssumption == MaxDays \in Nat \ {0} /\ MaxRestarts \in Nat

VARIABLES
  phase,     \* time of day: before 9, 9 to 15 ("open"), 15 to 16 ("close"), later
  day,
  plan,      \* an active Daily Plan of today exists
  watch,     \* there is a candidate or a holding to watch
  halt,      \* risk.emergency_halt_enabled
  should,    \* engine.should_be_active, persisted
  active,    \* DecisionEngine._active
  calls,     \* its tick callbacks are registered
  guard,     \* PositionManager.is_active
  poller,    \* fill_poller runs
  sync,      \* account sync loops running
  feed,      \* RealtimeWSManager has a runner
  pc,        \* what each task awaits
  closed,    \* history: S9 of today stopped the engine and no request started it
             \* since; "overtaken" when an activation was under way then
  crossed,   \* history: the last start or stop overlapped another
  stopped,   \* history: the operator stopped an engine that ran today
  restarts

clock    == <<phase, day>>
morning  == <<plan, watch>>
engine   == <<active, calls, guard, poller, sync, feed>>
history  == <<closed, crossed, stopped>>
vars     == <<phase, day, plan, watch, halt, should, active, calls, guard, poller,
              sync, feed, pc, closed, crossed, stopped, restarts>>

-------------------------------------------------------------------------------
Starting == {"boot", "sync", "feed"}
Stopping == {"liquidate", "loop", "socket"}

Underway(S) == {t \in Tasks : pc[t] \in S}
AtRest      == \A t \in Tasks : pc[t] = "idle"

At(t, where) == pc' = [pc EXCEPT ![t] = where]

-------------------------------------------------------------------------------
(* activate() *)

\* The engine, its callbacks and the position guard are on before the balance is
\* awaited. Nothing asks whether the engine is on already.
Activates(t) ==
  /\ active' = TRUE
  /\ calls' = TRUE
  /\ guard' = TRUE
  /\ crossed' = (Underway({"sync", "feed", "loop", "socket", "refresh"}) # {})
  /\ At(t, "sync")
  /\ UNCHANGED <<poller, sync, feed>>

StartsAnotherLoop == sync' = sync + 1                                   \* mutant

\* _start_account_sync_loop: one that runs is kept.
StartsLoop == sync' = IF sync = 0 THEN 1 ELSE sync

StaysOn(t) ==                                                           \* mutant
  /\ pc[t] = "sync"
  /\ ~watch
  /\ active' = FALSE
  /\ calls' = FALSE
  /\ poller' = FALSE
  /\ StartsLoop
  /\ At(t, "idle")
  /\ UNCHANGED <<clock, morning, halt, should, guard, feed, history, restarts>>

\* Nothing to watch: what was turned on is turned off, the sync loop ends by itself
\* (SyncEnds) and a feed of before stays.
FindsNothing(t) ==
  /\ pc[t] = "sync"
  /\ ~watch
  /\ active' = FALSE
  /\ calls' = FALSE
  /\ guard' = FALSE
  /\ poller' = FALSE
  /\ StartsLoop
  /\ At(t, "idle")
  /\ UNCHANGED <<clock, morning, halt, should, feed, history, restarts>>

\* Poller and sync loop, then the feed; one that runs is stopped first. Success is
\* what the caller saves as the intention to be active.
Synced(t) ==
  /\ pc[t] = "sync"
  /\ watch
  /\ poller' = TRUE
  /\ StartsLoop
  /\ feed' = TRUE
  /\ IF feed
       THEN At(t, "feed") /\ UNCHANGED should
       ELSE At(t, "idle") /\ should' = TRUE
  /\ UNCHANGED <<clock, morning, halt, active, calls, guard, history, restarts>>

ForgottenFlag(t) ==                                                     \* mutant
  /\ pc[t] = "feed"
  /\ feed' = TRUE
  /\ At(t, "idle")
  /\ UNCHANGED <<clock, morning, halt, should, active, calls, guard, poller, sync, history, restarts>>

Fed(t) ==
  /\ pc[t] = "feed"
  /\ feed' = TRUE
  /\ should' = TRUE
  /\ At(t, "idle")
  /\ UNCHANGED <<clock, morning, halt, active, calls, guard, poller, sync, history, restarts>>

-------------------------------------------------------------------------------
(* deactivate() *)

\* The rest of it once the sync loop is cancelled, up to closing the socket.
Quiet(t) ==
  /\ calls' = FALSE
  /\ guard' = FALSE
  /\ poller' = FALSE
  /\ At(t, "socket")

\* The intention goes first, then the engine; a running sync loop is awaited.
Deactivates(t) ==
  /\ should' = FALSE
  /\ active' = FALSE
  /\ sync' = 0
  /\ crossed' = (Underway({"sync", "feed", "loop", "socket", "refresh"}) # {})
  /\ IF sync > 0
       THEN At(t, "loop") /\ UNCHANGED <<calls, guard, poller>>
       ELSE Quiet(t)
  /\ UNCHANGED feed

LoopStopped(t) ==
  /\ pc[t] = "loop"
  /\ Quiet(t)
  /\ UNCHANGED <<clock, morning, halt, should, active, sync, feed, history, restarts>>

\* The runner that is there once the socket is closed is cancelled.
FeedStopped(t) ==
  /\ pc[t] = "socket"
  /\ feed' = FALSE
  /\ At(t, "idle")
  /\ UNCHANGED <<clock, morning, halt, should, active, calls, guard, poller, sync, history, restarts>>

-------------------------------------------------------------------------------
(* Who starts it *)

StartRequest(t) ==
  /\ t \in Requests
  /\ pc[t] = "idle"
  /\ stopped' = FALSE
  /\ closed' = "no"
  /\ Activates(t)
  /\ UNCHANGED <<clock, morning, halt, should, restarts>>

\* job_decision_engine_start
JobStarts(t) ==
  /\ plan
  /\ Activates(t)

RunsS6Job ==
  /\ phase = "open"
  /\ pc[S6Job] = "idle"
  /\ JobStarts(S6Job)
  /\ UNCHANGED <<clock, morning, halt, should, closed, stopped, restarts>>

LateAnyTime == phase # "before"                                                     \* mutant
WithinLatePlanWindow == phase = "open"

\* No code writes a successful S6 run to pipeline_run_audit.
S6ActivatedToday == FALSE

FlagIsEnough == should                                                  \* mutant
Missed ==
  \/ should
  \/ WithinLatePlanWindow /\ ~S6ActivatedToday /\ plan

\* The watchdog: every two minutes from 9 to 16, and once at start-up.
Watches ==
  /\ \/ pc[Watchdog] = "idle" /\ phase \in {"open", "close"}
     \/ pc[Watchdog] = "boot"
  /\ \/ /\ ~halt /\ ~active /\ Missed
        /\ JobStarts(Watchdog)
     \/ /\ halt \/ active \/ ~Missed \/ ~plan
        /\ At(Watchdog, "idle")
        /\ UNCHANGED <<engine, crossed>>
  /\ UNCHANGED <<clock, morning, halt, should, closed, stopped, restarts>>

-------------------------------------------------------------------------------
(* Who stops it *)

StopRequest(t) ==
  /\ t \in Requests
  /\ pc[t] = "idle"
  /\ stopped' = (active \/ stopped)
  /\ Deactivates(t)
  /\ UNCHANGED <<clock, morning, halt, closed, restarts>>

S9Starts ==
  /\ phase = "close"
  /\ pc[S9Job] = "idle"
  /\ At(S9Job, "liquidate")
  /\ UNCHANGED <<clock, morning, halt, should, engine, history, restarts>>

\* The liquidation is over, or failed: the engine stops either way.
S9Liquidated ==
  /\ pc[S9Job] = "liquidate"
  /\ Deactivates(S9Job)
  /\ closed' = IF Underway({"sync", "feed"}) = {} THEN "clean" ELSE "overtaken"
  /\ stopped' = FALSE
  /\ UNCHANGED <<clock, morning, halt, restarts>>

-------------------------------------------------------------------------------
(* The feed restarted for an open slot, and the sync loop of a failed start *)

RefreshStarts ==
  /\ active
  /\ pc[Refresh] = "idle"
  /\ feed' = FALSE
  /\ At(Refresh, "refresh")
  /\ UNCHANGED <<clock, morning, halt, should, active, calls, guard, poller, sync, history, restarts>>

Refreshed ==
  /\ pc[Refresh] = "refresh"
  /\ feed' = TRUE
  /\ At(Refresh, "idle")
  /\ UNCHANGED <<clock, morning, halt, should, active, calls, guard, poller, sync, history, restarts>>

SyncEnds ==
  /\ sync > 0
  /\ ~active
  /\ sync' = 0
  /\ UNCHANGED <<clock, morning, halt, should, active, calls, guard, poller, feed, pc, history, restarts>>

-------------------------------------------------------------------------------
(* The day *)

\* Trade preparation, its catch-up, an intraday selection or the operator.
PlanActivated ==
  /\ phase \in {"open", "close"}
  /\ plan' = TRUE
  /\ watch' \in BOOLEAN
  /\ UNCHANGED <<clock, halt, should, engine, pc, history, restarts>>

\* trigger_emergency_halt and trigger_resume leave the engine as it is.
HaltOrResume ==
  /\ halt' = ~halt
  /\ UNCHANGED <<clock, morning, should, engine, pc, history, restarts>>

Later ==
  /\ phase' = CASE phase = "before" -> "open"
                [] phase = "open"   -> "close"
                [] OTHER            -> "night"
  /\ phase # "night"
  /\ UNCHANGED <<day, morning, halt, should, engine, pc, history, restarts>>

\* No task lasts a night.
NextDay ==
  /\ phase = "night"
  /\ AtRest
  /\ day < MaxDays
  /\ day' = day + 1
  /\ phase' = "before"
  /\ plan' = FALSE
  /\ watch' \in BOOLEAN
  /\ closed' = "no"
  /\ stopped' = FALSE
  /\ UNCHANGED <<halt, should, engine, pc, crossed, restarts>>

Restart ==
  /\ restarts < MaxRestarts
  /\ restarts' = restarts + 1
  /\ active' = FALSE
  /\ calls' = FALSE
  /\ guard' = FALSE
  /\ poller' = FALSE
  /\ sync' = 0
  /\ feed' = FALSE
  /\ crossed' = FALSE
  /\ pc' = [t \in Tasks |-> IF t = Watchdog THEN "boot" ELSE "idle"]
  /\ UNCHANGED <<clock, morning, halt, should, closed, stopped>>

Init ==
  /\ phase = "before"
  /\ day = 1
  /\ plan = FALSE
  /\ watch \in BOOLEAN
  /\ halt = FALSE
  /\ should = FALSE
  /\ active = FALSE
  /\ calls = FALSE
  /\ guard = FALSE
  /\ poller = FALSE
  /\ sync = 0
  /\ feed = FALSE
  /\ pc = [t \in Tasks |-> "idle"]
  /\ closed = "no"
  /\ crossed = FALSE
  /\ stopped = FALSE
  /\ restarts = 0

\* What a task does once it was started.
Continues(t) ==
  \/ FindsNothing(t)
  \/ Synced(t)
  \/ Fed(t)
  \/ LoopStopped(t)
  \/ FeedStopped(t)

Next ==
  \/ \E t \in Requests : StartRequest(t) \/ StopRequest(t)
  \/ \E t \in Tasks : Continues(t)
  \/ RunsS6Job
  \/ Watches
  \/ S9Starts
  \/ S9Liquidated
  \/ RefreshStarts
  \/ Refreshed
  \/ SyncEnds
  \/ PlanActivated
  \/ HaltOrResume
  \/ Later
  \/ NextDay
  \/ Restart

Spec == Init /\ [][Next]_vars

\* The cron fires the watchdog, and what it awaits returns.
FairSpec == Spec /\ WF_vars(Watches) /\ WF_vars(Continues(Watchdog))

-------------------------------------------------------------------------------
TypeOK ==
  /\ phase \in {"before", "open", "close", "night"}
  /\ day \in 1 .. MaxDays
  /\ {plan, watch, halt, should, active, calls, guard, poller, feed} \subseteq BOOLEAN
  /\ sync \in 0 .. 1
  /\ pc \in [Tasks -> {"idle", "refresh"} \cup Starting \cup Stopping]
  /\ closed \in {"no", "clean", "overtaken"}
  /\ crossed \in BOOLEAN
  /\ stopped \in BOOLEAN
  /\ restarts \in 0 .. MaxRestarts

\* Unless the last start or stop overlapped another one, the engine that says it is
\* active has its callbacks, the position guard, the poller and the sync loop, and
\* one that says it is off has none of the first three: the watchdog only looks at
\* _active before it leaves the engine alone.
ActiveIsWhole ==
  AtRest /\ ~crossed =>
    /\ calls = active
    /\ guard = active
    /\ poller = active
    /\ active => sync = 1 /\ feed

\* An active engine is meant to be active: what a restart needs to bring it back is
\* saved, whichever task started it.
ActiveIsIntended == AtRest /\ ~crossed /\ active => should

\* Once S9 has stopped the engine it stays off for the day, through restarts and
\* watchdog rounds, unless the operator starts it or an activation was under way.
OffAfterClose == closed = "clean" => ~active /\ ~should

\* An engine that should run and does not, or that missed a late plan, comes back
\* if only the conditions for it last.
Wanted == /\ plan /\ watch /\ ~halt
          /\ phase = "open" \/ (phase = "close" /\ should)
Recovers == Wanted ~> (active \/ ~Wanted)

\* Then the watchdog is never without its next step.
WatchdogCanRun ==
  /\ Wanted /\ ~active /\ pc[Watchdog] \in {"idle", "boot"} => ENABLED <<Watches>>_vars
  /\ Wanted /\ pc[Watchdog] \in {"sync", "feed"} => ENABLED <<Continues(Watchdog)>>_vars

\* The watchdog's docstring: a manual stop is respected - no watchdog round starts an
\* engine that ran today and that the operator stopped.
ManualStopRespected ==
  [][stopped /\ pc[Watchdog] = "idle" => pc'[Watchdog] # "sync"]_vars
===============================================================================

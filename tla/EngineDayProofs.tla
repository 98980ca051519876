---------------------------- MODULE EngineDayProofs ----------------------------
(***************************************************************************)
(* Proofs about EngineDay, for any requests, days and restarts: its types,  *)
(* that the engine is on or off as a whole, that an active one is meant to   *)
(* be active, and that it stays off after S9 has stopped it.                 *)
(***************************************************************************)
EXTENDS EngineDay, TLAPS

-------------------------------------------------------------------------------
(* The inductive invariant *)

\* The types, those with arithmetic apart.
Numbers == day \in 1 .. MaxDays /\ sync \in 0 .. 1 /\ restarts \in 0 .. MaxRestarts

Values ==
  /\ phase \in {"before", "open", "close", "night"}
  /\ {plan, watch, halt, should, active, calls, guard, poller, feed} \subseteq BOOLEAN
  /\ pc \in [Tasks -> {"idle", "refresh"} \cup Starting \cup Stopping]
  /\ closed \in {"no", "clean", "overtaken"}
  /\ crossed \in BOOLEAN
  /\ stopped \in BOOLEAN

\* A task that stands in activate() or deactivate().
Turning == {"sync", "feed", "loop", "socket"}

\* Starts and stops that did not overlap are one at a time, ...
OneAtATime == \A t, u \in Tasks : pc[t] \in Turning /\ pc[u] \in Turning => t = u

\* ... and each finds the engine as its own steps have left it.
StartingKnows ==
  \A t \in Tasks :
    /\ pc[t] \in {"sync", "feed"} => active /\ calls /\ guard
    /\ pc[t] = "feed" => poller /\ sync # 0

StoppingKnows ==
  \A t \in Tasks :
    /\ pc[t] \in {"loop", "socket"} => ~active
    /\ pc[t] = "socket" => ~calls /\ ~guard /\ ~poller

\* With none under way the engine is whole; its feed may be restarting.
Whole ==
  (\A t \in Tasks : pc[t] \notin Turning) =>
    /\ calls = active
    /\ guard = active
    /\ poller = active
    /\ active => sync # 0 /\ (feed \/ pc[Refresh] = "refresh")

\* An active engine is meant to be active once its activation has ended.
Intended == active /\ (\A t \in Tasks : pc[t] \notin {"sync", "feed"}) => should

Uncrossed == ~crossed => OneAtATime /\ StartingKnows /\ StoppingKnows /\ Whole /\ Intended

\* S9 works after the close, and leaves an engine off that nobody is turning on.
S9Late == pc[S9Job] = "liquidate" => phase \in {"close", "night"}

AfterClose ==
  closed = "clean" =>
    /\ phase \in {"close", "night"}
    /\ ~active /\ ~should
    /\ \A t \in Tasks : pc[t] \notin {"sync", "feed"}

IInv == TypeOK /\ Uncrossed /\ S9Late /\ AfterClose

-------------------------------------------------------------------------------
(* The steps *)

\* The tasks there are.
LEMMA TaskFacts ==
  /\ Requests \subseteq Starters /\ Starters \subseteq Tasks /\ Stoppers \subseteq Tasks
  /\ {S6Job, Watchdog} \subseteq Starters /\ S9Job \in Tasks /\ Refresh \in Tasks
  /\ S9Job \notin Starters /\ Refresh \notin Starters /\ Refresh # S9Job
  BY TaskAssumption DEF Tasks, Starters, Stoppers

\* No task stands in a place that none is under way in.
LEMMA NoneUnderway ==
  ASSUME NEW S
  PROVE  Underway(S) = {} <=> \A t \in Tasks : pc[t] \notin S
  BY DEF Underway

\* Every step keeps the counters in their bounds.
LEMMA NumbersKept == ASSUME IInv, Next PROVE Numbers'
<1>1. CASE \E t \in Requests : StartRequest(t)
  <2>1. PICK t \in Requests : StartRequest(t)
    BY <1>1
  <2> QED BY <2>1 DEF StartRequest, Activates, IInv, TypeOK, Numbers, clock
<1>2. CASE \E t \in Requests : StopRequest(t)
  <2>1. PICK t \in Requests : StopRequest(t)
    BY <1>2
  <2> QED BY <2>1 DEF StopRequest, Deactivates, IInv, TypeOK, Numbers, clock
<1>3. CASE \E t \in Tasks : FindsNothing(t)
  <2>1. PICK t \in Tasks : FindsNothing(t)
    BY <1>3
  <2> QED BY <2>1 DEF FindsNothing, StartsLoop, IInv, TypeOK, Numbers, clock
<1>4. CASE \E t \in Tasks : Synced(t)
  <2>1. PICK t \in Tasks : Synced(t)
    BY <1>4
  <2> QED BY <2>1 DEF Synced, StartsLoop, IInv, TypeOK, Numbers, clock
<1>5. CASE \E t \in Tasks : Fed(t)
  <2>1. PICK t \in Tasks : Fed(t)
    BY <1>5
  <2> QED BY <2>1 DEF Fed, IInv, TypeOK, Numbers, clock
<1>6. CASE \E t \in Tasks : LoopStopped(t)
  <2>1. PICK t \in Tasks : LoopStopped(t)
    BY <1>6
  <2> QED BY <2>1 DEF LoopStopped, IInv, TypeOK, Numbers, clock
<1>7. CASE \E t \in Tasks : FeedStopped(t)
  <2>1. PICK t \in Tasks : FeedStopped(t)
    BY <1>7
  <2> QED BY <2>1 DEF FeedStopped, IInv, TypeOK, Numbers, clock
<1>8. CASE RunsS6Job
  BY <1>8 DEF RunsS6Job, JobStarts, Activates, IInv, TypeOK, Numbers, clock
<1>9. CASE Watches
  BY <1>9
  DEF Watches, JobStarts, Activates, Missed, WithinLatePlanWindow, S6ActivatedToday, engine,
      IInv, TypeOK, Numbers, clock
<1>10. CASE S9Starts
  BY <1>10 DEF S9Starts, engine, IInv, TypeOK, Numbers, clock
<1>11. CASE S9Liquidated
  BY <1>11 DEF S9Liquidated, Deactivates, IInv, TypeOK, Numbers, clock
<1>12. CASE RefreshStarts
  BY <1>12 DEF RefreshStarts, IInv, TypeOK, Numbers, clock
<1>13. CASE Refreshed
  BY <1>13 DEF Refreshed, IInv, TypeOK, Numbers, clock
<1>14. CASE SyncEnds
  BY <1>14 DEF SyncEnds, IInv, TypeOK, Numbers, clock
<1>15. CASE PlanActivated
  BY <1>15 DEF PlanActivated, engine, IInv, TypeOK, Numbers, clock
<1>16. CASE HaltOrResume
  BY <1>16 DEF HaltOrResume, engine, IInv, TypeOK, Numbers, clock
<1>17. CASE Later
  BY <1>17 DEF Later, engine, IInv, TypeOK, Numbers, clock
<1>18. CASE NextDay
  BY <1>18, BoundAssumption DEF NextDay, AtRest, engine, IInv, TypeOK, Numbers, clock
<1>19. CASE Restart
  BY <1>19, BoundAssumption DEF Restart, IInv, TypeOK, Numbers, clock
<1> QED BY <1>1, <1>2, <1>3, <1>4, <1>5, <1>6, <1>7, <1>8, <1>9, <1>10, <1>11, <1>12, <1>13,
           <1>14, <1>15, <1>16, <1>17, <1>18, <1>19
        DEF Next, Continues

\* A start that meets no other start or stop stands in activate() alone.
LEMMA ActivatesKeeps ==
  ASSUME Values, NEW t \in Starters, Activates(t)
  PROVE  Uncrossed'
<1> SUFFICES ASSUME ~crossed' PROVE OneAtATime' /\ StartingKnows' /\ StoppingKnows' /\ Whole' /\ Intended'
  BY DEF Uncrossed
<1> DEFINE Busy == {"sync", "feed", "loop", "socket", "refresh"}
<1>1. crossed' = (Underway(Busy) # {})
  BY DEF Activates
<1>2. \A u \in Tasks : pc[u] \notin Busy
  BY <1>1, NoneUnderway
<1>3. /\ t \in Tasks
      /\ pc \in [Tasks -> {"idle", "refresh"} \cup Starting \cup Stopping]
      /\ pc' = [pc EXCEPT ![t] = "sync"]
  BY TaskFacts DEF Values, Activates, At
<1>4. active' = TRUE /\ calls' = TRUE /\ guard' = TRUE
  BY DEF Activates
<1>5. pc'[t] = "sync" /\ \A u \in Tasks \ {t} : pc'[u] = pc[u] /\ pc'[u] \notin Busy
  BY <1>2, <1>3
<1>6. OneAtATime'
  BY <1>5 DEF OneAtATime, Turning
<1>7. StartingKnows' /\ StoppingKnows'
  BY <1>4, <1>5 DEF StartingKnows, StoppingKnows
<1>8. Whole' /\ Intended'
  BY <1>3, <1>5 DEF Whole, Intended, Turning
<1> QED BY <1>6, <1>7, <1>8

\* What the first segment of deactivate() does.
LEMMA DeactivatesDoes ==
  ASSUME Values, NEW t \in Tasks, Deactivates(t)
  PROVE  /\ should' = FALSE /\ active' = FALSE /\ feed' = feed
         /\ \/ /\ pc' = [pc EXCEPT ![t] = "loop"]
               /\ calls' = calls /\ guard' = guard /\ poller' = poller
            \/ /\ pc' = [pc EXCEPT ![t] = "socket"]
               /\ calls' = FALSE /\ guard' = FALSE /\ poller' = FALSE
         /\ crossed' \in BOOLEAN
  BY DEF Deactivates, Quiet, At

\* A stop that meets no other start or stop stands in deactivate() alone.
LEMMA DeactivatesKeeps ==
  ASSUME Values, NEW t \in Stoppers, Deactivates(t)
  PROVE  Uncrossed'
<1> SUFFICES ASSUME ~crossed' PROVE OneAtATime' /\ StartingKnows' /\ StoppingKnows' /\ Whole' /\ Intended'
  BY DEF Uncrossed
<1> DEFINE Busy == {"sync", "feed", "loop", "socket", "refresh"}
<1>1. crossed' = (Underway(Busy) # {})
  BY DEF Deactivates
<1>2. \A u \in Tasks : pc[u] \notin Busy
  BY <1>1, NoneUnderway
<1>3. t \in Tasks /\ pc \in [Tasks -> {"idle", "refresh"} \cup Starting \cup Stopping]
  BY TaskFacts DEF Values
<1>4. /\ should' = FALSE /\ active' = FALSE
      /\ \/ pc' = [pc EXCEPT ![t] = "loop"]
         \/ pc' = [pc EXCEPT ![t] = "socket"] /\ calls' = FALSE /\ guard' = FALSE /\ poller' = FALSE
  BY <1>3, DeactivatesDoes
<1>5. /\ pc'[t] \in {"loop", "socket"}
      /\ pc'[t] = "socket" => calls' = FALSE /\ guard' = FALSE /\ poller' = FALSE
      /\ \A u \in Tasks \ {t} : pc'[u] = pc[u] /\ pc'[u] \notin Busy
  BY <1>2, <1>3, <1>4
<1>6. OneAtATime'
  BY <1>5 DEF OneAtATime, Turning
<1>7. StartingKnows' /\ StoppingKnows'
  BY <1>4, <1>5 DEF StartingKnows, StoppingKnows
<1>8. Whole' /\ Intended'
  BY <1>3, <1>4, <1>5 DEF Whole, Intended, Turning
<1> QED BY <1>6, <1>7, <1>8

\* The end of a start hands over a whole engine.
LEMMA SyncedKeeps ==
  ASSUME Values, sync \in 0 .. 1, Uncrossed, NEW t \in Tasks, Synced(t)
  PROVE  Uncrossed'
<1> SUFFICES ASSUME ~crossed' PROVE OneAtATime' /\ StartingKnows' /\ StoppingKnows' /\ Whole' /\ Intended'
  BY DEF Uncrossed
<1>1. /\ OneAtATime /\ StartingKnows /\ StoppingKnows
      /\ pc[t] = "sync"
      /\ pc \in [Tasks -> {"idle", "refresh"} \cup Starting \cup Stopping]
  BY DEF Synced, history, Uncrossed, Values
<1>2. active /\ calls /\ guard /\ \A u \in Tasks \ {t} : pc[u] \notin Turning
  BY <1>1 DEF OneAtATime, StartingKnows, Turning
<1>3. active' = active /\ calls' = calls /\ guard' = guard /\ poller' = TRUE /\ feed' = TRUE
  BY DEF Synced
<1>4. sync' # 0
  BY DEF Synced, StartsLoop
<1>5. \/ pc' = [pc EXCEPT ![t] = "feed"]
      \/ pc' = [pc EXCEPT ![t] = "idle"] /\ should' = TRUE
  BY DEF Synced, At
<1>6. /\ pc'[t] = "feed" \/ (pc'[t] = "idle" /\ should' = TRUE)
      /\ \A u \in Tasks \ {t} : pc'[u] = pc[u] /\ pc'[u] \notin Turning
  BY <1>1, <1>2, <1>5
<1>7. sync' = 1
  BY DEF Synced, StartsLoop
<1>8. OneAtATime' /\ StoppingKnows'
  BY <1>6 DEF OneAtATime, StoppingKnows, Turning
<1>9. StartingKnows'
  BY <1>2, <1>3, <1>4, <1>6 DEF StartingKnows, Turning
<1>10. Whole' /\ Intended'
  BY <1>2, <1>3, <1>4, <1>6 DEF Whole, Intended, Turning
<1> QED BY <1>8, <1>9, <1>10

\* The restart of the feed leaves the rest as it is.
LEMMA RefreshStartsKeeps ==
  ASSUME Values, Uncrossed, RefreshStarts
  PROVE  Uncrossed'
<1> SUFFICES ASSUME ~crossed' PROVE OneAtATime' /\ StartingKnows' /\ StoppingKnows' /\ Whole' /\ Intended'
  BY DEF Uncrossed
<1>1. /\ OneAtATime /\ StartingKnows /\ StoppingKnows /\ Whole /\ Intended
      /\ Refresh \in Tasks /\ pc[Refresh] = "idle" /\ pc' = [pc EXCEPT ![Refresh] = "refresh"]
      /\ pc \in [Tasks -> {"idle", "refresh"} \cup Starting \cup Stopping]
  BY TaskFacts DEF RefreshStarts, At, history, Uncrossed, Values
<1>2. pc'[Refresh] = "refresh" /\ \A u \in Tasks \ {Refresh} : pc'[u] = pc[u]
  BY <1>1
<1>3. /\ should' = should /\ active' = active /\ calls' = calls /\ guard' = guard
      /\ poller' = poller /\ sync' = sync
  BY DEF RefreshStarts
<1>4. OneAtATime' /\ StartingKnows' /\ StoppingKnows'
  BY <1>1, <1>2, <1>3 DEF OneAtATime, StartingKnows, StoppingKnows, Turning
<1>5. Whole' /\ Intended'
  BY <1>1, <1>2, <1>3 DEF Whole, Intended, Turning
<1> QED BY <1>4, <1>5

\* Every step keeps the other types.
LEMMA ValuesKept == ASSUME IInv, Next PROVE Values'
<1>1. CASE \E t \in Requests : StartRequest(t)
  <2>1. PICK t \in Requests : StartRequest(t)
    BY <1>1
  <2> QED BY <2>1
          DEF StartRequest, Activates, At, IInv, TypeOK, Values, Starting, Stopping, clock,
              morning, history
<1>2. CASE \E t \in Requests : StopRequest(t)
  <2>1. PICK t \in Requests : StopRequest(t)
    BY <1>2
  <2>2. t \in Tasks /\ Values /\ Deactivates(t) /\ stopped' \in BOOLEAN /\ UNCHANGED <<clock, morning, halt, closed>>
    BY <2>1, TaskFacts DEF IInv, TypeOK, Values, StopRequest
  <2> QED BY <2>2, DeactivatesDoes DEF Values, Starting, Stopping, clock, morning
<1>3. CASE \E t \in Tasks : FindsNothing(t)
  <2>1. PICK t \in Tasks : FindsNothing(t)
    BY <1>3
  <2> QED BY <2>1
          DEF FindsNothing, StartsLoop, At, IInv, TypeOK, Values, Starting, Stopping, clock,
              morning, history
<1>4. CASE \E t \in Tasks : Synced(t)
  <2>1. PICK t \in Tasks : Synced(t)
    BY <1>4
  <2>2. Values /\ pc' \in [Tasks -> {"idle", "refresh"} \cup Starting \cup Stopping]
    BY <2>1 DEF IInv, TypeOK, Values, Synced, At, Starting, Stopping
  <2>3. should' \in BOOLEAN
    BY <2>1, <2>2 DEF Values, Synced
  <2> QED BY <2>1, <2>2, <2>3 DEF Values, Synced, clock, morning, history
<1>5. CASE \E t \in Tasks : Fed(t)
  <2>1. PICK t \in Tasks : Fed(t)
    BY <1>5
  <2> QED BY <2>1
          DEF Fed, At, IInv, TypeOK, Values, Starting, Stopping, clock, morning, history
<1>6. CASE \E t \in Tasks : LoopStopped(t)
  <2>1. PICK t \in Tasks : LoopStopped(t)
    BY <1>6
  <2> QED BY <2>1
          DEF LoopStopped, Quiet, At, IInv, TypeOK, Values, Starting, Stopping, clock,
              morning, history
<1>7. CASE \E t \in Tasks : FeedStopped(t)
  <2>1. PICK t \in Tasks : FeedStopped(t)
    BY <1>7
  <2> QED BY <2>1
          DEF FeedStopped, At, IInv, TypeOK, Values, Starting, Stopping, clock, morning,
              history
<1>8. CASE RunsS6Job
  BY <1>8
  DEF RunsS6Job, JobStarts, Activates, At, IInv, TypeOK, Values, Starting, Stopping, clock,
      morning, history
<1>9. CASE Watches
  BY <1>9
  DEF Watches, JobStarts, Activates, Missed, WithinLatePlanWindow, S6ActivatedToday, At,
      engine, IInv, TypeOK, Values, Starting, Stopping, clock, morning, history
<1>10. CASE S9Starts
  BY <1>10
  DEF S9Starts, At, engine, IInv, TypeOK, Values, Starting, Stopping, clock, morning,
      history
<1>11. CASE S9Liquidated
  <2>2. S9Job \in Tasks /\ Values /\ Deactivates(S9Job) /\ stopped' \in BOOLEAN /\ closed' \in {"clean", "overtaken"}
        /\ UNCHANGED <<clock, morning, halt>>
    BY <1>11, TaskFacts DEF IInv, TypeOK, Values, S9Liquidated
  <2> QED BY <2>2, DeactivatesDoes DEF Values, Starting, Stopping, clock, morning
<1>12. CASE RefreshStarts
  BY <1>12
  DEF RefreshStarts, At, IInv, TypeOK, Values, Starting, Stopping, clock, morning, history
<1>13. CASE Refreshed
  BY <1>13
  DEF Refreshed, At, IInv, TypeOK, Values, Starting, Stopping, clock, morning, history
<1>14. CASE SyncEnds
  BY <1>14 DEF SyncEnds, IInv, TypeOK, Values, Starting, Stopping, clock, morning, history
<1>15. CASE PlanActivated
  BY <1>15
  DEF PlanActivated, engine, IInv, TypeOK, Values, Starting, Stopping, clock, morning,
      history
<1>16. CASE HaltOrResume
  BY <1>16
  DEF HaltOrResume, engine, IInv, TypeOK, Values, Starting, Stopping, clock, morning,
      history
<1>17. CASE Later
  BY <1>17
  DEF Later, engine, IInv, TypeOK, Values, Starting, Stopping, clock, morning, history
<1>18. CASE NextDay
  BY <1>18
  DEF NextDay, AtRest, engine, IInv, TypeOK, Values, Starting, Stopping, clock, morning,
      history
<1>19. CASE Restart
  BY <1>19 DEF Restart, IInv, TypeOK, Values, Starting, Stopping, clock, morning, history
<1> QED BY <1>1, <1>2, <1>3, <1>4, <1>5, <1>6, <1>7, <1>8, <1>9, <1>10, <1>11, <1>12, <1>13,
           <1>14, <1>15, <1>16, <1>17, <1>18, <1>19
        DEF Next, Continues

\* Every step keeps what starts and stops that do not overlap know.
LEMMA UncrossedKept == ASSUME IInv, Next PROVE Uncrossed'
<1>1. CASE \E t \in Requests : StartRequest(t)
  <2>1. PICK t \in Requests : StartRequest(t)
    BY <1>1
  <2>2. t \in Starters /\ Values /\ Activates(t)
    BY <2>1, TaskFacts DEF StartRequest, IInv, TypeOK, Values
  <2> QED BY <2>2, ActivatesKeeps
<1>2. CASE \E t \in Requests : StopRequest(t)
  <2>1. PICK t \in Requests : StopRequest(t)
    BY <1>2
  <2>2. t \in Stoppers /\ Values /\ Deactivates(t)
    BY <2>1 DEF StopRequest, Stoppers, IInv, TypeOK, Values
  <2> QED BY <2>2, DeactivatesKeeps
<1>3. CASE \E t \in Tasks : FindsNothing(t)
  <2>1. PICK t \in Tasks : FindsNothing(t)
    BY <1>3
  <2> QED BY <2>1
          DEF FindsNothing, StartsLoop, At, IInv, TypeOK, Turning, Uncrossed, OneAtATime,
              StartingKnows, StoppingKnows, Whole, Intended, history
<1>4. CASE \E t \in Tasks : Synced(t)
  <2>1. PICK t \in Tasks : Synced(t)
    BY <1>4
  <2> QED BY <2>1, SyncedKeeps DEF IInv, TypeOK, Values
<1>5. CASE \E t \in Tasks : Fed(t)
  <2>1. PICK t \in Tasks : Fed(t)
    BY <1>5
  <2> QED BY <2>1
          DEF Fed, At, IInv, TypeOK, Turning, Uncrossed, OneAtATime, StartingKnows,
              StoppingKnows, Whole, Intended, history
<1>6. CASE \E t \in Tasks : LoopStopped(t)
  <2>1. PICK t \in Tasks : LoopStopped(t)
    BY <1>6
  <2> QED BY <2>1
          DEF LoopStopped, Quiet, At, IInv, TypeOK, Turning, Uncrossed, OneAtATime,
              StartingKnows, StoppingKnows, Whole, Intended, history
<1>7. CASE \E t \in Tasks : FeedStopped(t)
  <2>1. PICK t \in Tasks : FeedStopped(t)
    BY <1>7
  <2> QED BY <2>1
          DEF FeedStopped, At, IInv, TypeOK, Turning, Uncrossed, OneAtATime, StartingKnows,
              StoppingKnows, Whole, Intended, history
<1>8. CASE RunsS6Job
  <2>1. S6Job \in Starters /\ Values /\ Activates(S6Job)
    BY <1>8, TaskFacts DEF RunsS6Job, JobStarts, IInv, TypeOK, Values
  <2> QED BY <2>1, ActivatesKeeps
<1>9. CASE Watches
  BY <1>9, TaskFacts, NoneUnderway
  DEF Watches, JobStarts, Activates, Missed, WithinLatePlanWindow, S6ActivatedToday, At,
      engine, IInv, TypeOK, Turning, Uncrossed, OneAtATime, StartingKnows, StoppingKnows,
      Whole, Intended, history
<1>10. CASE S9Starts
  BY <1>10
  DEF S9Starts, At, engine, IInv, TypeOK, Turning, Uncrossed, OneAtATime, StartingKnows,
      StoppingKnows, Whole, Intended, history
<1>11. CASE S9Liquidated
  <2>1. S9Job \in Stoppers /\ Values /\ Deactivates(S9Job)
    BY <1>11 DEF S9Liquidated, Stoppers, IInv, TypeOK, Values
  <2> QED BY <2>1, DeactivatesKeeps
<1>12. CASE RefreshStarts
  BY <1>12, RefreshStartsKeeps DEF IInv, TypeOK, Values
<1>13. CASE Refreshed
  BY <1>13
  DEF Refreshed, At, IInv, TypeOK, Turning, Uncrossed, OneAtATime, StartingKnows,
      StoppingKnows, Whole, Intended, history
<1>14. CASE SyncEnds
  BY <1>14
  DEF SyncEnds, IInv, TypeOK, Turning, Uncrossed, OneAtATime, StartingKnows, StoppingKnows,
      Whole, Intended, history
<1>15. CASE PlanActivated
  BY <1>15
  DEF PlanActivated, engine, IInv, TypeOK, Turning, Uncrossed, OneAtATime, StartingKnows,
      StoppingKnows, Whole, Intended, history
<1>16. CASE HaltOrResume
  BY <1>16
  DEF HaltOrResume, engine, IInv, TypeOK, Turning, Uncrossed, OneAtATime, StartingKnows,
      StoppingKnows, Whole, Intended, history
<1>17. CASE Later
  BY <1>17
  DEF Later, engine, IInv, TypeOK, Turning, Uncrossed, OneAtATime, StartingKnows,
      StoppingKnows, Whole, Intended, history
<1>18. CASE NextDay
  BY <1>18
  DEF NextDay, AtRest, engine, IInv, TypeOK, Turning, Uncrossed, OneAtATime, StartingKnows,
      StoppingKnows, Whole, Intended, history
<1>19. CASE Restart
  BY <1>19
  DEF Restart, IInv, TypeOK, Turning, Uncrossed, OneAtATime, StartingKnows, StoppingKnows,
      Whole, Intended, history
<1> QED BY <1>1, <1>2, <1>3, <1>4, <1>5, <1>6, <1>7, <1>8, <1>9, <1>10, <1>11, <1>12, <1>13,
           <1>14, <1>15, <1>16, <1>17, <1>18, <1>19
        DEF Next, Continues

\* S9 stays an evening task.
LEMMA S9LateKept == ASSUME IInv, Next PROVE S9Late'
<1>1. CASE \E t \in Requests : StartRequest(t)
  <2>1. PICK t \in Requests : StartRequest(t)
    BY <1>1
  <2> QED BY <2>1 DEF StartRequest, Activates, At, IInv, TypeOK, S9Late, clock
<1>2. CASE \E t \in Requests : StopRequest(t)
  <2>1. PICK t \in Requests : StopRequest(t)
    BY <1>2
  <2> QED BY <2>1, TaskFacts
          DEF StopRequest, Deactivates, Quiet, At, IInv, TypeOK, S9Late, clock
<1>3. CASE \E t \in Tasks : FindsNothing(t)
  <2>1. PICK t \in Tasks : FindsNothing(t)
    BY <1>3
  <2> QED BY <2>1 DEF FindsNothing, StartsLoop, At, IInv, TypeOK, S9Late, clock
<1>4. CASE \E t \in Tasks : Synced(t)
  <2>1. PICK t \in Tasks : Synced(t)
    BY <1>4
  <2> QED BY <2>1, TaskFacts DEF Synced, StartsLoop, At, IInv, TypeOK, S9Late, clock
<1>5. CASE \E t \in Tasks : Fed(t)
  <2>1. PICK t \in Tasks : Fed(t)
    BY <1>5
  <2> QED BY <2>1 DEF Fed, At, IInv, TypeOK, S9Late, clock
<1>6. CASE \E t \in Tasks : LoopStopped(t)
  <2>1. PICK t \in Tasks : LoopStopped(t)
    BY <1>6
  <2> QED BY <2>1 DEF LoopStopped, Quiet, At, IInv, TypeOK, S9Late, clock
<1>7. CASE \E t \in Tasks : FeedStopped(t)
  <2>1. PICK t \in Tasks : FeedStopped(t)
    BY <1>7
  <2> QED BY <2>1 DEF FeedStopped, At, IInv, TypeOK, S9Late, clock
<1>8. CASE RunsS6Job
  BY <1>8 DEF RunsS6Job, JobStarts, Activates, At, IInv, TypeOK, S9Late, clock
<1>9. CASE Watches
  BY <1>9, TaskFacts
  DEF Watches, JobStarts, Activates, Missed, WithinLatePlanWindow, S6ActivatedToday, At,
      IInv, TypeOK, S9Late, clock
<1>10. CASE S9Starts
  BY <1>10 DEF S9Starts, At, IInv, TypeOK, S9Late, clock
<1>11. CASE S9Liquidated
  BY <1>11 DEF S9Liquidated, Deactivates, Quiet, At, IInv, TypeOK, S9Late, clock
<1>12. CASE RefreshStarts
  BY <1>12 DEF RefreshStarts, At, IInv, TypeOK, S9Late, clock
<1>13. CASE Refreshed
  BY <1>13 DEF Refreshed, At, IInv, TypeOK, S9Late, clock
<1>14. CASE SyncEnds
  BY <1>14 DEF SyncEnds, IInv, TypeOK, S9Late, clock
<1>15. CASE PlanActivated
  BY <1>15 DEF PlanActivated, IInv, TypeOK, S9Late, clock
<1>16. CASE HaltOrResume
  BY <1>16 DEF HaltOrResume, IInv, TypeOK, S9Late, clock
<1>17. CASE Later
  BY <1>17 DEF Later, IInv, TypeOK, S9Late, clock
<1>18. CASE NextDay
  BY <1>18, TaskFacts DEF NextDay, AtRest, IInv, TypeOK, S9Late, clock
<1>19. CASE Restart
  BY <1>19, TaskFacts DEF Restart, IInv, TypeOK, S9Late, clock
<1> QED BY <1>1, <1>2, <1>3, <1>4, <1>5, <1>6, <1>7, <1>8, <1>9, <1>10, <1>11, <1>12, <1>13,
           <1>14, <1>15, <1>16, <1>17, <1>18, <1>19
        DEF Next, Continues

\* What S9 has stopped stays off.
LEMMA AfterCloseKept == ASSUME IInv, Next PROVE AfterClose'
<1>1. CASE \E t \in Requests : StartRequest(t)
  <2>1. PICK t \in Requests : StartRequest(t)
    BY <1>1
  <2> QED BY <2>1
          DEF StartRequest, Activates, At, IInv, TypeOK, AfterClose, S9Late, clock, history
<1>2. CASE \E t \in Requests : StopRequest(t)
  <2>1. PICK t \in Requests : StopRequest(t)
    BY <1>2
  <2> QED BY <2>1
          DEF StopRequest, Deactivates, Quiet, At, IInv, TypeOK, AfterClose, S9Late, clock,
              history
<1>3. CASE \E t \in Tasks : FindsNothing(t)
  <2>1. PICK t \in Tasks : FindsNothing(t)
    BY <1>3
  <2> QED BY <2>1
          DEF FindsNothing, StartsLoop, At, IInv, TypeOK, AfterClose, S9Late, clock, history
<1>4. CASE \E t \in Tasks : Synced(t)
  <2>1. PICK t \in Tasks : Synced(t)
    BY <1>4
  <2> QED BY <2>1
          DEF Synced, StartsLoop, At, IInv, TypeOK, AfterClose, S9Late, clock, history
<1>5. CASE \E t \in Tasks : Fed(t)
  <2>1. PICK t \in Tasks : Fed(t)
    BY <1>5
  <2> QED BY <2>1 DEF Fed, At, IInv, TypeOK, AfterClose, S9Late, clock, history
<1>6. CASE \E t \in Tasks : LoopStopped(t)
  <2>1. PICK t \in Tasks : LoopStopped(t)
    BY <1>6
  <2> QED BY <2>1
          DEF LoopStopped, Quiet, At, IInv, TypeOK, AfterClose, S9Late, clock, history
<1>7. CASE \E t \in Tasks : FeedStopped(t)
  <2>1. PICK t \in Tasks : FeedStopped(t)
    BY <1>7
  <2> QED BY <2>1 DEF FeedStopped, At, IInv, TypeOK, AfterClose, S9Late, clock, history
<1>8. CASE RunsS6Job
  BY <1>8
  DEF RunsS6Job, JobStarts, Activates, At, IInv, TypeOK, AfterClose, S9Late, clock, history
<1>9. CASE Watches
  BY <1>9
  DEF Watches, JobStarts, Activates, Missed, WithinLatePlanWindow, S6ActivatedToday, At,
      engine, IInv, TypeOK, AfterClose, S9Late, clock, history
<1>10. CASE S9Starts
  BY <1>10 DEF S9Starts, At, engine, IInv, TypeOK, AfterClose, S9Late, clock, history
<1>11. CASE S9Liquidated
  BY <1>11, NoneUnderway
  DEF S9Liquidated, Deactivates, Quiet, At, IInv, TypeOK, AfterClose, S9Late, clock, history
<1>12. CASE RefreshStarts
  BY <1>12 DEF RefreshStarts, At, IInv, TypeOK, AfterClose, S9Late, clock, history
<1>13. CASE Refreshed
  BY <1>13 DEF Refreshed, At, IInv, TypeOK, AfterClose, S9Late, clock, history
<1>14. CASE SyncEnds
  BY <1>14 DEF SyncEnds, IInv, TypeOK, AfterClose, S9Late, clock, history
<1>15. CASE PlanActivated
  BY <1>15 DEF PlanActivated, engine, IInv, TypeOK, AfterClose, S9Late, clock, history
<1>16. CASE HaltOrResume
  BY <1>16 DEF HaltOrResume, engine, IInv, TypeOK, AfterClose, S9Late, clock, history
<1>17. CASE Later
  BY <1>17 DEF Later, engine, IInv, TypeOK, AfterClose, S9Late, clock, history
<1>18. CASE NextDay
  BY <1>18 DEF NextDay, AtRest, engine, IInv, TypeOK, AfterClose, S9Late, clock, history
<1>19. CASE Restart
  BY <1>19 DEF Restart, IInv, TypeOK, AfterClose, S9Late, clock, history
<1> QED BY <1>1, <1>2, <1>3, <1>4, <1>5, <1>6, <1>7, <1>8, <1>9, <1>10, <1>11, <1>12, <1>13,
           <1>14, <1>15, <1>16, <1>17, <1>18, <1>19
        DEF Next, Continues

-------------------------------------------------------------------------------
(* Theorems *)

\* The invariant holds at first ...
LEMMA InitHolds == Init => IInv
<1> SUFFICES ASSUME Init PROVE IInv
  OBVIOUS
<1>1. Numbers
  BY BoundAssumption DEF Init, Numbers
<1>2. Values
  BY DEF Init, Values, Starting, Stopping
<1>3. \A t \in Tasks : pc[t] = "idle"
  BY DEF Init
<1>4. Uncrossed
  BY <1>3
  DEF Init, Uncrossed, OneAtATime, StartingKnows, StoppingKnows, Whole, Intended, Turning
<1>5. S9Late /\ AfterClose
  BY <1>3, TaskFacts DEF Init, S9Late, AfterClose
<1> QED BY <1>1, <1>2, <1>4, <1>5 DEF IInv, TypeOK, Numbers, Values

\* ... and every step keeps it.
LEMMA StepKeeps == IInv /\ [Next]_vars => IInv'
<1> SUFFICES ASSUME IInv, [Next]_vars PROVE IInv'
  OBVIOUS
<1>1. CASE Next
  <2>1. Numbers' /\ Values' /\ Uncrossed' /\ S9Late' /\ AfterClose'
    BY <1>1, NumbersKept, ValuesKept, UncrossedKept, S9LateKept, AfterCloseKept
  <2> QED BY <2>1 DEF IInv, TypeOK, Numbers, Values
<1>2. CASE UNCHANGED vars
  BY <1>2
  DEF vars, IInv, TypeOK, Uncrossed, OneAtATime, StartingKnows, StoppingKnows, Whole,
              Intended, S9Late, AfterClose
<1> QED BY <1>1, <1>2

\* The inductive invariant: what starts and stops that do not overlap know of the
\* engine, and what the day has left.
THEOREM Invariance == Spec => []IInv
  BY InitHolds, StepKeeps, PTL DEF Spec

\* The variables have their types, for any requests, days and restarts: there is one
\* account sync loop at most.
THEOREM TypeCorrect == Spec => []TypeOK
<1>1. IInv => TypeOK
  BY DEF IInv
<1> QED BY <1>1, Invariance, PTL

\* activate() and deactivate(), run one at a time, leave the engine on or off as a
\* whole, whatever a crash, the feed restart and the sync loop do between their steps.
THEOREM WholeEngine == Spec => []ActiveIsWhole
<1>1. IInv => ActiveIsWhole
  <2> SUFFICES ASSUME IInv, AtRest, ~crossed
               PROVE  /\ calls = active /\ guard = active /\ poller = active
                      /\ active => sync = 1 /\ feed
    BY DEF ActiveIsWhole
  <2>1. Whole /\ Refresh \in Tasks
    BY TaskFacts DEF IInv, Uncrossed
  <2>2. \A t \in Tasks : pc[t] = "idle"
    BY DEF AtRest
  <2>3. sync \in 0 .. 1
    BY DEF IInv, TypeOK
  <2>4. sync # 0 => sync = 1
    BY <2>3
  <2> QED BY <2>1, <2>2, <2>4 DEF Whole, Turning
<1> QED BY <1>1, Invariance, PTL

\* Whoever started the engine has saved that it should be active.
THEOREM IntendedEngine == Spec => []ActiveIsIntended
<1>1. IInv => ActiveIsIntended
  BY DEF IInv, Uncrossed, Intended, ActiveIsIntended, AtRest
<1> QED BY <1>1, Invariance, PTL

\* No watchdog round, S6 job or restart turns the engine on again once S9 has stopped
\* it with no activation under way.
THEOREM StaysOff == Spec => []OffAfterClose
<1>1. IInv => OffAfterClose
  BY DEF IInv, AfterClose, OffAfterClose
<1> QED BY <1>1, Invariance, PTL

-------------------------------------------------------------------------------
(* The engine comes back *)

\* Where the watchdog stands: it starts the engine and stops nothing.
WatchdogStands == pc[Watchdog] \in {"idle", "boot", "sync", "feed"}

\* An engine that is wanted and off, by where the watchdog stands.
MissedAndFree    == Wanted /\ ~active /\ pc[Watchdog] \in {"idle", "boot"}
MissedAndFeeding == Wanted /\ ~active /\ pc[Watchdog] = "feed"
MissedAndSyncing == Wanted /\ ~active /\ pc[Watchdog] = "sync"
Back             == active \/ ~Wanted

\* A step moves the watchdog from idle or boot to the sync await, turning the engine
\* on, from there on to the feed or to idle, and from the feed to idle; a restart
\* boots it.
LEMMA WatchdogSteps ==
  ASSUME IInv, WatchdogStands, Next
  PROVE  /\ WatchdogStands'
         /\ pc[Watchdog] \in {"idle", "boot"} => pc'[Watchdog] \in {"idle", "boot"} \/ active'
         /\ pc[Watchdog] = "feed" => pc'[Watchdog] \in {"idle", "boot", "feed"}
<1> DEFINE Moved == /\ WatchdogStands'
                    /\ pc[Watchdog] \in {"idle", "boot"} => pc'[Watchdog] \in {"idle", "boot"} \/ active'
                    /\ pc[Watchdog] = "feed" => pc'[Watchdog] \in {"idle", "boot", "feed"}
<1>1. /\ pc \in [Tasks -> {"idle", "refresh"} \cup Starting \cup Stopping]
      /\ Watchdog \in Tasks /\ Watchdog \notin Requests
      /\ S6Job # Watchdog /\ S9Job # Watchdog /\ Refresh # Watchdog
  BY TaskAssumption, TaskFacts DEF IInv, TypeOK
<1>2. CASE \E t \in Tasks \ {Watchdog}, w \in {"sync", "feed", "loop", "socket", "liquidate", "refresh", "idle"} : At(t, w)
  BY <1>1, <1>2 DEF At, WatchdogStands
<1>3. CASE pc' = pc
  BY <1>3 DEF WatchdogStands
<1>4. CASE \E t \in Requests : StartRequest(t) \/ StopRequest(t)
  BY <1>1, <1>2, <1>4, TaskFacts DEF StartRequest, StopRequest, Activates, Deactivates, Quiet
<1>5. CASE \E t \in Tasks : Continues(t)
  <2>1. PICK t \in Tasks : Continues(t)
    BY <1>5
  <2>2. CASE t # Watchdog
    BY <1>2, <2>1, <2>2 DEF Continues, FindsNothing, Synced, Fed, LoopStopped, FeedStopped, Quiet
  <2>3. CASE t = Watchdog
    BY <1>1, <2>1, <2>3
    DEF Continues, FindsNothing, Synced, Fed, LoopStopped, FeedStopped, Quiet, At, WatchdogStands
  <2> QED BY <2>2, <2>3
<1>6. CASE RunsS6Job \/ S9Starts \/ S9Liquidated \/ RefreshStarts \/ Refreshed
  BY <1>1, <1>2, <1>6, TaskFacts
  DEF RunsS6Job, JobStarts, Activates, S9Starts, S9Liquidated, Deactivates, Quiet, RefreshStarts, Refreshed
<1>7. CASE Watches
  BY <1>1, <1>7 DEF Watches, JobStarts, Activates, At, WatchdogStands
<1>8. CASE SyncEnds \/ PlanActivated \/ HaltOrResume \/ Later \/ NextDay
  BY <1>3, <1>8 DEF SyncEnds, PlanActivated, HaltOrResume, Later, NextDay
<1>9. CASE Restart
  BY <1>1, <1>9 DEF Restart, WatchdogStands
<1> QED BY <1>4, <1>5, <1>6, <1>7, <1>8, <1>9 DEF Next

\* Where the watchdog stands is an invariant.
LEMMA WatchdogPlace == Spec => []WatchdogStands
<1>1. Init => WatchdogStands
  BY TaskFacts DEF Init, WatchdogStands
<1>2. IInv /\ WatchdogStands /\ [Next]_vars => WatchdogStands'
  BY WatchdogSteps DEF vars, WatchdogStands
<1> QED BY <1>1, <1>2, Invariance, PTL DEF Spec

\* A watchdog that awaits the balance or the feed of an activation gets back to its
\* rounds.
LEMMA SyncAwaitEnds == FairSpec /\ []WatchdogCanRun => (MissedAndSyncing ~> MissedAndFeeding \/ MissedAndFree \/ Back)
<1>1. WatchdogStands /\ MissedAndSyncing /\ [Next]_vars /\ WatchdogStands'
        => MissedAndSyncing' \/ MissedAndFeeding' \/ MissedAndFree' \/ Back'
  BY DEF MissedAndSyncing, MissedAndFeeding, MissedAndFree, Back, WatchdogStands
<1>2. IInv /\ MissedAndSyncing /\ <<Next /\ Continues(Watchdog)>>_vars
        => MissedAndFeeding' \/ MissedAndFree' \/ Back'
  BY TaskFacts
  DEF IInv, TypeOK, MissedAndSyncing, MissedAndFeeding, MissedAndFree, Back, Wanted, Continues,
      FindsNothing, Synced, Fed, LoopStopped, FeedStopped, Quiet, At
<1>3. WatchdogCanRun /\ MissedAndSyncing => ENABLED <<Continues(Watchdog)>>_vars
  BY DEF WatchdogCanRun, MissedAndSyncing
<1> QED BY <1>1, <1>2, <1>3, Invariance, WatchdogPlace, PTL DEF FairSpec, Spec

LEMMA FeedAwaitEnds == FairSpec /\ []WatchdogCanRun => (MissedAndFeeding ~> MissedAndFree \/ Back)
<1>1. IInv /\ WatchdogStands /\ MissedAndFeeding /\ [Next]_vars
        => MissedAndFeeding' \/ MissedAndFree' \/ Back'
  BY WatchdogSteps DEF vars, MissedAndFeeding, MissedAndFree, Back, Wanted
<1>2. IInv /\ MissedAndFeeding /\ <<Next /\ Continues(Watchdog)>>_vars => MissedAndFree' \/ Back'
  BY TaskFacts
  DEF IInv, TypeOK, MissedAndFeeding, MissedAndFree, Back, Wanted, Continues, FindsNothing, Synced,
      Fed, LoopStopped, FeedStopped, Quiet, At
<1>3. WatchdogCanRun /\ MissedAndFeeding => ENABLED <<Continues(Watchdog)>>_vars
  BY DEF WatchdogCanRun, MissedAndFeeding
<1> QED BY <1>1, <1>2, <1>3, Invariance, WatchdogPlace, PTL DEF FairSpec, Spec

\* A round that finds the engine wanted and off turns it on.
LEMMA RoundTurnsOn == FairSpec /\ []WatchdogCanRun => (MissedAndFree ~> Back)
<1>1. IInv /\ WatchdogStands /\ MissedAndFree /\ [Next]_vars => MissedAndFree' \/ Back'
  BY WatchdogSteps DEF vars, MissedAndFree, Back, Wanted
<1>2. MissedAndFree /\ <<Next /\ Watches>>_vars => Back'
  BY DEF MissedAndFree, Back, Wanted, Watches, Missed, WithinLatePlanWindow, S6ActivatedToday,
         JobStarts, Activates
<1>3. WatchdogCanRun /\ MissedAndFree => ENABLED <<Watches>>_vars
  BY DEF WatchdogCanRun, MissedAndFree
<1> QED BY <1>1, <1>2, <1>3, Invariance, WatchdogPlace, PTL DEF FairSpec, Spec

\* An engine that should run and does not is started by the watchdog, over any number
\* of restarts, stops and overlapping requests, as long as its cron fires and what it
\* awaits returns. That it has a step to take (WatchdogCanRun) is a hypothesis: it
\* holds in every state, and TLC evaluates it.
THEOREM ComesBack == FairSpec /\ []WatchdogCanRun => Recovers
<1>1. WatchdogStands => MissedAndSyncing \/ MissedAndFeeding \/ MissedAndFree \/ Back
  BY DEF WatchdogStands, MissedAndSyncing, MissedAndFeeding, MissedAndFree, Back
<1>2. FairSpec => []WatchdogStands
  BY WatchdogPlace, PTL DEF FairSpec
<1>3. FairSpec /\ []WatchdogCanRun => (Wanted ~> Back)
  BY <1>1, <1>2, SyncAwaitEnds, FeedAwaitEnds, RoundTurnsOn, PTL
<1> QED BY <1>3, PTL DEF Recovers, Back

===============================================================================

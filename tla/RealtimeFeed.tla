------------------------------ MODULE RealtimeFeed ------------------------------
(***************************************************************************)
(* RealtimeWSManager: start(), stop() and the runner that connects, hands   *)
(* out ticks and connects again, together with the block of new entries a   *)
(* lost feed publishes (data_quality_guard).                                *)
(*                                                                         *)
(* start() and stop() take no lock and await the socket and the old runner. *)
(* They are called by other tasks (account sync, S4, reselection, momentum  *)
(* scanner, S9, API) and, after a trailing-stop exit, by the runner itself: *)
(* its tick callbacks are awaited. What is subscribed is Watchlist's, what  *)
(* a cancelled callback leaves behind is ExitPath's. Left out: is_connected *)
(* (only shown), the moment between the creation of a runner and its first  *)
(* step, and callers that are cancelled themselves.                         *)
(***************************************************************************)
EXTENDS Naturals, FiniteSets

CONSTANTS
  Callers,      \* tasks that restart or stop the feed
  Runners,      \* ids of runner tasks; bounds how many exist at a time
  NoRunner,     \* "no runner", "no socket"
  FailLimit,    \* consecutive failures that publish the block (3 in the code)
  MaxDays,      \* bound on trading days
  MaxRestarts   \* bound on process restarts

ASSUME RunnerAssumption == NoRunner \notin Runners /\ Callers \cap Runners = {}
ASSUME LimitAssumption == FailLimit \in Nat \ {0}
ASSUME BoundAssumption == MaxDays \in Nat \ {0} /\ MaxRestarts \in Nat

Tasks == Callers \cup Runners

VARIABLES
  runner,     \* what each runner task does
  doomed,     \* runners with a cancellation they have not seen yet
  current,    \* _runner_task
  socket,     \* _ws: the runner whose connection it is
  event,      \* _stop_event is set
  fails,      \* _consecutive_fail_count; counted up to FailLimit
  published,  \* _ws_block_published
  block,      \* days with an unresolved ws_consecutive_disconnect event
  day,
  pc,         \* what each caller of start() or stop() awaits
  want,       \* its call: "stop", "start", or "restart" (stop(), then start())
  awaits,     \* the runner it waits for, while that has not ended
  overlap,    \* history: a call began while another one was under way
  unsaved,    \* history: the database lost a publication or a resolution
  since,      \* history: the day the outage reached the limit
  last,       \* history: what the last call to end was
  restarts

session == <<runner, doomed, current, socket, event>>
outage  == <<fails, published, block, unsaved, since>>
calls   == <<pc, want, awaits, overlap, last>>
vars    == <<runner, doomed, current, socket, event, fails, published, block, day,
             pc, want, awaits, overlap, unsaved, since, last, restarts>>

-------------------------------------------------------------------------------
Live    == {r \in Runners : runner[r] # "ended"}
Running == current \in Live
Calling == {c \in Tasks : pc[c] # "idle"}

\* A task object nobody holds any more.
Unused == {r \in Runners \ Live : r # socket}

\* Bound: every call under way may come to create a runner.
Room == Cardinality(Live \ doomed) + Cardinality(Calling) < Cardinality(Runners)

\* The call of c is over.
Done(c) ==
  /\ pc' = [pc EXCEPT ![c] = "idle"]
  /\ want' = [want EXCEPT ![c] = "stop"]

-------------------------------------------------------------------------------
(* start() and stop() *)

LaunchesDeaf(c) ==                                                      \* mutant
  /\ \E r \in Unused :
       /\ current' = r
       /\ runner' = [runner EXCEPT ![r] = "dialing"]
  /\ event' = TRUE
  /\ Done(c)
  /\ last' = "start"
  /\ UNCHANGED awaits

\* The end of start(): a new event and a new runner.
Launches(c) ==
  /\ \E r \in Unused :
       /\ current' = r
       /\ runner' = [runner EXCEPT ![r] = "dialing"]
  /\ event' = FALSE
  /\ Done(c)
  /\ last' = "start"
  /\ UNCHANGED awaits

\* The runner is cancelled and awaited; set is what the event becomes. A runner
\* that stops itself does not wait: the first cancellation is lost on awaiting
\* itself, the second, from within start(), hits it at its next await.
Cancels(c, w, set) ==
  /\ doomed' = doomed \cup {current}
  /\ IF c = current
       THEN Launches(c)
       ELSE /\ pc' = [pc EXCEPT ![c] = "ending"]
            /\ want' = [want EXCEPT ![c] = w]
            /\ awaits' = [awaits EXCEPT ![c] = current]
            /\ event' = set
            /\ UNCHANGED <<runner, current, last>>

\* What follows stop(): nothing, or the rest of start().
Stopped(c) ==
  \/ /\ want[c] = "stop"
     /\ Done(c)
     /\ last' = "stop"
     /\ UNCHANGED <<runner, current, event, awaits>>
  \/ /\ want[c] # "stop"
     /\ Launches(c)

\* stop(): the event, then the socket, then the runner.
Stops(c, w) ==
  \/ /\ socket # NoRunner
     /\ event' = TRUE
     /\ pc' = [pc EXCEPT ![c] = "closing"]
     /\ want' = [want EXCEPT ![c] = w]
     /\ UNCHANGED <<runner, doomed, current, socket, awaits, last>>
  \/ /\ socket = NoRunner
     /\ Running
     /\ Cancels(c, w, TRUE)
     /\ UNCHANGED socket

Enters(c) ==
  /\ pc[c] = "idle"
  /\ Room
  /\ overlap' = (overlap \/ Calling # {})
  /\ UNCHANGED <<outage, day, restarts>>

StartsOver(c) ==                                                        \* mutant
  /\ Enters(c)
  /\ Launches(c)
  /\ UNCHANGED <<doomed, socket>>

CallStart(c) ==
  /\ Enters(c)
  /\ \/ Running /\ Stops(c, "start")
     \/ ~Running /\ Launches(c) /\ UNCHANGED <<doomed, socket>>

CallStop(c) ==
  /\ Enters(c)
  /\ \/ Stops(c, "stop")
     \/ /\ socket = NoRunner /\ ~Running
        /\ event' = TRUE
        /\ last' = "stop"
        /\ UNCHANGED <<runner, doomed, current, socket, pc, want, awaits>>

\* stop(), then start(): refresh_candidates and on_position_slot_opened, the latter
\* within a tick callback of a runner as well.
CallRestart(c) ==
  /\ Enters(c)
  /\ c \in Runners => runner[c] = "up" /\ c \notin doomed
  /\ \/ Stops(c, "restart")
     \/ socket = NoRunner /\ ~Running /\ Launches(c) /\ UNCHANGED <<doomed, socket>>

\* The socket is closed. Another caller may have put a new runner in place.
SocketClosed(c) ==
  /\ pc[c] = "closing"
  /\ c \notin doomed
  /\ socket' = NoRunner
  /\ \/ Running /\ Cancels(c, want[c], event)
     \/ ~Running /\ Stopped(c) /\ UNCHANGED doomed
  /\ UNCHANGED <<overlap, outage, day, restarts>>

\* The runner it waited for has ended. Within start() nothing asks whether another
\* caller has put a new one in place; a start() after stop() does.
RunnerEnded(c) ==
  /\ pc[c] = "ending"
  /\ awaits[c] = NoRunner
  /\ \/ want[c] = "restart" /\ Running /\ Stops(c, "start")
     \/ /\ want[c] # "restart" \/ ~Running
        /\ Stopped(c)
        /\ UNCHANGED <<doomed, socket>>
  /\ UNCHANGED <<overlap, outage, day, restarts>>

-------------------------------------------------------------------------------
(* _run() *)

\* "finally": whoever's socket _ws is.
Leaves(r, where) ==
  /\ runner' = [runner EXCEPT ![r] = where]
  /\ socket' = NoRunner

\* Resolves the events of today, or fails to.
Resolves ==
  \/ block' = block \ {day} /\ UNCHANGED unsaved
  \/ unsaved' = TRUE /\ UNCHANGED block

ConnectsStillPublished(r) ==                                            \* mutant
  /\ runner[r] = "dialing"
  /\ r \notin doomed
  /\ runner' = [runner EXCEPT ![r] = "up"]
  /\ socket' = r
  /\ fails' = 0
  /\ Resolves
  /\ UNCHANGED <<doomed, current, event, published, since, day, calls, restarts>>
ConnectsIfPublished(r) ==                                               \* mutant
  /\ runner[r] = "dialing"
  /\ r \notin doomed
  /\ runner' = [runner EXCEPT ![r] = "up"]
  /\ socket' = r
  /\ fails' = 0
  /\ published' = FALSE
  /\ IF published THEN Resolves ELSE UNCHANGED <<block, unsaved>>
  /\ UNCHANGED <<doomed, current, event, since, day, calls, restarts>>
\* A connection resets the count, and resolves the block an earlier process may
\* have left as well.
Connects(r) ==
  /\ runner[r] = "dialing"
  /\ r \notin doomed
  /\ runner' = [runner EXCEPT ![r] = "up"]
  /\ socket' = r
  /\ fails' = 0
  /\ published' = FALSE
  /\ Resolves
  /\ UNCHANGED <<doomed, current, event, since, day, calls, restarts>>

\* The block is recorded for today, or the record is lost and nobody learns.
Publishes ==
  /\ published' = TRUE
  /\ since' = day
  /\ \/ block' = block \cup {day} /\ UNCHANGED unsaved
     \/ unsaved' = TRUE /\ UNCHANGED block

CountedOnceMore == fails' = IF fails <= FailLimit THEN fails + 1 ELSE fails \* mutant
Counted         == fails' = IF fails < FailLimit THEN fails + 1 ELSE fails

\* Dialing fails, or the connection breaks. _ws is kept through the pause.
Breaks(r) ==
  /\ runner[r] \in {"dialing", "up"}
  /\ r \notin doomed
  /\ pc[r] = "idle"
  /\ Counted
  /\ IF fails' >= FailLimit /\ ~published
       THEN Publishes
       ELSE UNCHANGED <<published, block, unsaved, since>>
  /\ \/ event /\ Leaves(r, "ended")
     \/ ~event /\ runner' = [runner EXCEPT ![r] = "asleep"] /\ UNCHANGED socket
  /\ UNCHANGED <<doomed, current, event, day, calls, restarts>>

\* The pause is over, the connection is closed in an orderly way, or a message
\* finds the event set. The event looked at is the new one if start() made one.
LoopsOn(r) ==
  /\ runner[r] \in {"asleep", "up"}
  /\ r \notin doomed
  /\ pc[r] = "idle"
  /\ Leaves(r, IF event THEN "ended" ELSE "dialing")
  /\ UNCHANGED <<doomed, current, event, outage, day, calls, restarts>>

\* A cancelled runner ends, and the callback it is in with it. Whoever waits for it
\* goes on.
Dies(r) ==
  /\ r \in doomed
  /\ doomed' = doomed \ {r}
  /\ Leaves(r, "ended")
  /\ Done(r)
  /\ awaits' = [c \in Tasks |-> IF awaits[c] = r THEN NoRunner ELSE awaits[c]]
  /\ UNCHANGED <<current, event, outage, day, overlap, last, restarts>>

-------------------------------------------------------------------------------
(* Days and crashes *)

NextDay ==
  /\ day < MaxDays
  /\ day' = day + 1
  /\ UNCHANGED <<session, outage, calls, restarts>>

Restart ==
  /\ restarts < MaxRestarts
  /\ restarts' = restarts + 1
  /\ runner' = [r \in Runners |-> "ended"]
  /\ doomed' = {}
  /\ current' = NoRunner
  /\ socket' = NoRunner
  /\ event' = FALSE
  /\ fails' = 0
  /\ published' = FALSE
  /\ pc' = [c \in Tasks |-> "idle"]
  /\ want' = [c \in Tasks |-> "stop"]
  /\ awaits' = [c \in Tasks |-> NoRunner]
  /\ overlap' = FALSE
  /\ last' = "stop"
  /\ UNCHANGED <<block, unsaved, since, day>>

-------------------------------------------------------------------------------
Init ==
  /\ runner = [r \in Runners |-> "ended"]
  /\ doomed = {}
  /\ current = NoRunner
  /\ socket = NoRunner
  /\ event = FALSE
  /\ fails = 0
  /\ published = FALSE
  /\ block = {}
  /\ day = 1
  /\ pc = [c \in Tasks |-> "idle"]
  /\ want = [c \in Tasks |-> "stop"]
  /\ awaits = [c \in Tasks |-> NoRunner]
  /\ overlap = FALSE
  /\ unsaved = FALSE
  /\ since = 0
  /\ last = "stop"
  /\ restarts = 0

Call(c) == CallStart(c) \/ CallStop(c) \/ CallRestart(c)

Next ==
  \/ \E c \in Callers : Call(c)
  \/ \E r \in Runners : CallRestart(r)
  \/ \E c \in Tasks : SocketClosed(c) \/ RunnerEnded(c)
  \/ \E r \in Runners : Connects(r) \/ Breaks(r) \/ LoopsOn(r) \/ Dies(r)
  \/ NextDay
  \/ Restart

Spec == Init /\ [][Next]_vars

-------------------------------------------------------------------------------
TypeOK ==
  /\ runner \in [Runners -> {"ended", "dialing", "up", "asleep"}]
  /\ doomed \in SUBSET Live
  /\ current \in Runners \cup {NoRunner}
  /\ socket \in Live \cup {NoRunner}
  /\ event \in BOOLEAN
  /\ fails \in 0 .. FailLimit
  /\ published \in BOOLEAN
  /\ block \in SUBSET (1 .. day)
  /\ day \in 1 .. MaxDays
  /\ pc \in [Tasks -> {"idle", "closing", "ending"}]
  /\ want \in [Tasks -> {"stop", "start", "restart"}]
  /\ awaits \in [Tasks -> Runners \cup {NoRunner}]
  /\ overlap \in BOOLEAN
  /\ unsaved \in BOOLEAN
  /\ since \in 0 .. day
  /\ last \in {"stop", "start"}
  /\ restarts \in 0 .. MaxRestarts

\* Calls that do not overlap leave one runner, even when the runner restarts the
\* feed from its own callback: two would hand out every tick twice.
OneRunner == ~overlap => Cardinality(Live \ doomed) <= 1

\* However calls overlap, a feed started last runs; one stopped last does not,
\* unless another call overlapped the stop.
LastCallWins ==
  Calling = {} =>
    /\ last = "start" => current \in Live \ doomed /\ ~event
    /\ last = "stop" /\ ~overlap => Live \subseteq doomed

\* "DQ follows the real state of the feed": an outage that reached the limit today
\* blocks new entries today, unless the database lost the record.
OutageBlocks == fails = FailLimit /\ since = day /\ ~unsaved => day \in block

\* ... and a feed that is up is not blocked, through reconnections, restarts by
\* whichever caller and a new process.
BlockIsOutage ==
  day \in block /\ ~unsaved /\ ~overlap => \A r \in Live \ doomed : runner[r] # "up"
===============================================================================

-------------------------- MODULE RealtimeFeedProofs ---------------------------
(***************************************************************************)
(* Proofs about RealtimeFeed, for any callers, runners and limits: calls    *)
(* that do not overlap leave one runner, the last call decides whether a    *)
(* feed runs, and the block of new entries follows the outage.              *)
(***************************************************************************)
EXTENDS RealtimeFeed, FiniteSetTheorems, TLAPS

-------------------------------------------------------------------------------
(* The inductive invariant *)

\* Without overlap: one call is under way, the runner in place is the only one, and
\* while a call waits for the old runner there is none.
Orderly ==
  ~overlap =>
    /\ \A c, d \in Calling : c = d
    /\ Live \ doomed \subseteq {current}
    /\ (\E c \in Tasks : pc[c] = "ending") => Live \subseteq doomed

\* A runner within a call is up. One that waits for another runner is safe: it is no
\* longer in place, and only the one in place is cancelled. One that is cancelled
\* within its call is waited for by the call that did it.
Callbacks ==
  \A r \in Runners : pc[r] # "idle" =>
    /\ runner[r] = "up"
    /\ pc[r] = "ending" => r \notin doomed /\ r # current
    /\ r \in doomed => \E c \in Tasks : pc[c] = "ending" /\ awaits[c] = r

\* A published block is in the database, or lost, or of an earlier day; one is
\* published when the count is at its limit.
Published ==
  /\ published /\ since = day /\ ~unsaved => day \in block
  /\ fails = FailLimit => published

IInv == TypeOK /\ Orderly /\ Callbacks /\ Published /\ LastCallWins /\ BlockIsOutage

-------------------------------------------------------------------------------
(* What a step of a call comes to *)

Calls == {"stop", "start", "restart"}

\* A call begins, a runner's only in its callback, or goes on when the runner it waits
\* for has ended.
Turn(c) ==
  /\ \/ /\ pc[c] = "idle" /\ overlap' = (overlap \/ Calling # {})
        /\ c \in Runners => runner[c] = "up" /\ c \notin doomed
     \/ /\ pc[c] # "idle" /\ overlap' = overlap
        /\ pc[c] = "ending" => awaits[c] = NoRunner
  /\ socket' \in {socket, NoRunner}
  /\ want' \in [Tasks -> Calls]
  /\ UNCHANGED <<outage, day, restarts>>

\* It waits for the socket to close.
Closing(c) ==
  /\ pc' = [pc EXCEPT ![c] = "closing"]
  /\ pc[c] # "closing"
  /\ event' = TRUE
  /\ UNCHANGED <<runner, doomed, current, awaits, last>>

\* It has cancelled the runner in place, another task, and waits for it.
Ending(c) ==
  /\ Running /\ c # current
  /\ c \in doomed => pc[c] = "ending"
  /\ doomed' = doomed \cup {current}
  /\ pc' = [pc EXCEPT ![c] = "ending"]
  /\ awaits' = [awaits EXCEPT ![c] = current]
  /\ event' \in BOOLEAN
  /\ UNCHANGED <<runner, current, last>>

\* It ends with a new runner: there was none, the old one has ended, or it is the old
\* one itself.
Launching(c) ==
  /\ Launches(c)
  /\ \/ doomed' = doomed /\ (~Running \/ pc[c] = "ending")
     \/ doomed' = doomed \cup {current} /\ Running /\ c = current

\* It ends with a stopped feed.
Leaving(c) ==
  /\ ~Running \/ pc[c] = "ending"
  /\ pc' = [pc EXCEPT ![c] = "idle"]
  /\ event' \in BOOLEAN
  /\ last' = "stop"
  /\ UNCHANGED <<runner, doomed, current, awaits>>

CallStep(c) == Turn(c) /\ (Closing(c) \/ Ending(c) \/ Launching(c) \/ Leaving(c))

\* Every action of start() and stop() is one of these.
LEMMA CallsAreSteps ==
  ASSUME TypeOK, Callbacks, NEW c \in Tasks,
         \/ c \in Callers /\ Call(c)
         \/ c \in Runners /\ CallRestart(c)
         \/ SocketClosed(c) \/ RunnerEnded(c)
  PROVE  CallStep(c)
<1>1. ASSUME NEW w \in Calls, Stops(c, w), pc[c] # "closing",
             c \in doomed => pc[c] = "ending"
      PROVE  /\ Closing(c) \/ Ending(c) \/ Launching(c)
             /\ want' \in [Tasks -> Calls]
             /\ socket' = socket
  BY <1>1 DEF Stops, Cancels, Closing, Ending, Launching, Launches, Done, TypeOK, Calls
<1>2. ASSUME Launches(c) PROVE want' \in [Tasks -> Calls]
  BY <1>2 DEF Launches, Done, TypeOK, Calls
<1>3. c \in Callers => c \notin Runners /\ c \notin doomed
  BY RunnerAssumption DEF TypeOK, Live
<1>4. CASE c \in Callers /\ CallStart(c)
  <2>1. CASE Running /\ Stops(c, "start")
    BY <1>1, <1>3, <1>4, <2>1 DEF CallStart, Enters, CallStep, Turn, Calls
  <2>2. CASE ~Running /\ Launches(c) /\ UNCHANGED <<doomed, socket>>
    BY <1>2, <1>3, <1>4, <2>2 DEF CallStart, Enters, CallStep, Turn, Launching
  <2> QED BY <1>4, <2>1, <2>2 DEF CallStart
<1>5. CASE c \in Callers /\ CallStop(c)
  <2>1. CASE Stops(c, "stop")
    BY <1>1, <1>3, <1>5, <2>1 DEF CallStop, Enters, CallStep, Turn, Calls
  <2>2. CASE ~Stops(c, "stop")
    BY <1>3, <1>5, <2>2 DEF CallStop, Enters, CallStep, Turn, Leaving, TypeOK, Calls
  <2> QED BY <2>1, <2>2
<1>6. CASE CallRestart(c)
  <2>1. CASE Stops(c, "restart")
    BY <1>1, <1>3, <1>6, <2>1 DEF CallRestart, Enters, CallStep, Turn, Calls, Tasks
  <2>2. CASE ~Stops(c, "restart")
    BY <1>2, <1>3, <1>6, <2>2 DEF CallRestart, Enters, CallStep, Turn, Launching
  <2> QED BY <2>1, <2>2
<1>7. CASE SocketClosed(c)
  <2>1. CASE Running /\ Cancels(c, want[c], event)
    BY <1>2, <1>7, <2>1
       DEF SocketClosed, Cancels, CallStep, Turn, Ending, Launching, Launches, TypeOK, Calls
  <2>2. CASE ~Running /\ Stopped(c) /\ UNCHANGED doomed
    BY <1>2, <1>7, <2>2
       DEF SocketClosed, Stopped, Done, CallStep, Turn, Leaving, Launching, TypeOK, Calls
  <2> QED BY <1>7, <2>1, <2>2 DEF SocketClosed
<1>8. CASE RunnerEnded(c)
  <2>1. CASE Stops(c, "start")
    BY <1>1, <1>8, <2>1 DEF RunnerEnded, CallStep, Turn, Calls
  <2>2. CASE Stopped(c) /\ UNCHANGED <<doomed, socket>>
    BY <1>2, <1>8, <2>2
       DEF RunnerEnded, Stopped, Done, CallStep, Turn, Leaving, Launching, TypeOK, Calls
  <2> QED BY <1>8, <2>1, <2>2 DEF RunnerEnded
<1> QED BY <1>4, <1>5, <1>6, <1>7, <1>8 DEF Call

\* The types are kept by a step of a call ...
LEMMA CallStepTypes ==
  ASSUME TypeOK, NEW c \in Tasks, CallStep(c)
  PROVE  TypeOK'
<1>1. /\ socket \in {NoRunner} \cup Live /\ doomed \subseteq Live
      /\ UNCHANGED <<fails, published, block, day, unsaved, since, restarts>>
  BY DEF TypeOK, CallStep, Turn, outage
<1>0. overlap' \in BOOLEAN
  BY DEF TypeOK, CallStep, Turn
<1>2. CASE Closing(c)
  BY <1>1, <1>2 DEF TypeOK, CallStep, Turn, Closing, Live, Calls
<1>3. CASE Ending(c)
  BY <1>1, <1>3 DEF TypeOK, CallStep, Turn, Ending, Running, Live, Calls
<1>4. CASE Launching(c)
  <2>1. PICK r \in Unused : current' = r /\ runner' = [runner EXCEPT ![r] = "dialing"]
    BY <1>4 DEF Launching, Launches
  <2>2. runner' \in [Runners -> {"ended", "dialing", "up", "asleep"}] /\ Live \subseteq Live'
    BY <2>1 DEF TypeOK, Unused, Live
  <2>3. /\ pc' \in [Tasks -> {"idle", "closing", "ending"}]
        /\ event' \in BOOLEAN /\ last' = "start" /\ awaits' = awaits
    BY <1>4 DEF TypeOK, Launching, Launches, Done
  <2>4. doomed' \subseteq Live' /\ socket' \in Live' \cup {NoRunner}
    BY <1>1, <1>4, <2>2 DEF CallStep, Turn, Launching, Running
  <2> QED BY <1>1, <1>0, <2>1, <2>2, <2>3, <2>4 DEF TypeOK, CallStep, Turn, Unused, Calls
<1>5. CASE Leaving(c)
  BY <1>1, <1>5 DEF TypeOK, CallStep, Turn, Leaving, Live, Calls
<1> QED BY <1>2, <1>3, <1>4, <1>5 DEF CallStep

\* A step of a call goes on with what a runner in its callback waits for: the call that
\* waits for a cancelled runner takes no step before that has ended.
LEMMA Waiters ==
  ASSUME IInv, NEW c \in Tasks, Turn(c), NEW r \in Runners, r \in doomed,
         pc[r] # "idle" \/ r = c
  PROVE  \E d \in Tasks \ {c} : pc[d] = "ending" /\ awaits[d] = r
<1>1. pc[r] # "idle"
  BY DEF Turn
<1>2. PICK d \in Tasks : pc[d] = "ending" /\ awaits[d] = r
  BY <1>1 DEF IInv, Callbacks
<1>3. d # c
  BY <1>2, RunnerAssumption DEF Turn
<1> QED BY <1>2, <1>3

\* ... and so is each other part.
LEMMA CallStepKeeps ==
  ASSUME IInv, NEW c \in Tasks, CallStep(c)
  PROVE  IInv'
<1> USE DEF IInv
<1>1. TypeOK'
  BY CallStepTypes
<1>2. Published' /\ UNCHANGED <<block, day, unsaved>>
  BY DEF Published, CallStep, Turn, outage
<1>3. ~overlap' => ~overlap /\ \A d \in Calling : d = c
  <2>1. CASE pc[c] = "idle" /\ overlap' = (overlap \/ Calling # {})
    BY <2>1 DEF TypeOK
  <2>2. CASE pc[c] # "idle" /\ overlap' = overlap
    BY <2>2 DEF Orderly, Calling
  <2> QED BY <2>1, <2>2 DEF CallStep, Turn
<1>4. CASE Closing(c)
  <2>1. Live' = Live /\ c \in Calling' /\ \A d \in Calling' : d \in Calling \/ d = c
    BY <1>4 DEF Closing, Live, Calling, TypeOK
  <2>2. Orderly'
    BY <1>3, <1>4, <2>1 DEF Orderly, Closing, TypeOK
  <2>3. Callbacks'
    BY <1>4, Waiters DEF Callbacks, CallStep, Turn, Closing, TypeOK, Tasks
  <2>4. LastCallWins' /\ BlockIsOutage'
    BY <1>2, <1>3, <1>4, <2>1 DEF LastCallWins, BlockIsOutage, Closing
  <2> QED BY <1>1, <1>2, <2>2, <2>3, <2>4
<1>5. CASE Ending(c)
  <2>1. Live' = Live /\ c \in Calling' /\ \A d \in Calling' : d \in Calling \/ d = c
    BY <1>5 DEF Ending, Live, Calling, TypeOK
  <2>2. Orderly'
    BY <1>3, <1>5, <2>1 DEF Orderly, Ending, TypeOK
  <2>3. Callbacks'
    BY <1>5, Waiters DEF Callbacks, CallStep, Turn, Ending, TypeOK, Tasks
  <2>4. LastCallWins' /\ BlockIsOutage'
    BY <1>2, <1>3, <1>5, <2>1 DEF LastCallWins, BlockIsOutage, Ending
  <2> QED BY <1>1, <1>2, <2>2, <2>3, <2>4
<1>6. CASE Launching(c)
  <2>1. PICK r \in Unused : current' = r /\ runner' = [runner EXCEPT ![r] = "dialing"]
    BY <1>6 DEF Launching, Launches
  <2>2. /\ r \notin Live /\ r \notin doomed' /\ Live' = Live \cup {r}
        /\ ~overlap' => Live \subseteq doomed'
    BY <1>3, <1>6, <2>1 DEF Launching, Unused, Running, Live, TypeOK, Orderly
  <2>3. pc' = [pc EXCEPT ![c] = "idle"] /\ ~event' /\ last' = "start" /\ awaits' = awaits
    BY <1>6 DEF Launching, Launches, Done
  <2>4. Orderly'
    BY <1>3, <2>1, <2>2, <2>3 DEF Orderly, Calling, TypeOK
  <2>5. Callbacks'
    <3>1. \A s \in Runners : pc[s] # "idle" => s # r
      BY <2>2 DEF Callbacks, Live
    <3>2. ASSUME NEW s \in Runners, pc'[s] # "idle"
          PROVE  s # c /\ s # r /\ pc'[s] = pc[s] /\ runner'[s] = runner[s]
      BY <2>1, <2>3, <3>1, <3>2 DEF TypeOK, Tasks
    <3>3. ASSUME NEW s \in Runners, pc'[s] # "idle", s \in doomed'
          PROVE  \E d \in Tasks : pc'[d] = "ending" /\ awaits'[d] = s
      BY <1>6, <2>3, <3>2, <3>3, Waiters DEF Launching, CallStep, TypeOK
    <3>4. ASSUME NEW s \in Runners, pc'[s] = "ending"
          PROVE  s \notin doomed' /\ s # current'
      BY <1>6, <2>1, <3>2, <3>4 DEF Launching, Callbacks
    <3> QED BY <3>2, <3>3, <3>4 DEF Callbacks
  <2>6. LastCallWins' /\ BlockIsOutage'
    <3>1. current' \in Live' \ doomed'
      BY <2>1, <2>2
    <3>2. ~overlap' => Live' \ doomed' \subseteq {r} /\ runner'[r] = "dialing"
      BY <2>1, <2>2 DEF TypeOK, Unused
    <3> QED BY <2>1, <2>3, <3>1, <3>2 DEF LastCallWins, BlockIsOutage
  <2> QED BY <1>1, <1>2, <2>4, <2>5, <2>6
<1>7. CASE Leaving(c)
  <2>1. Live' = Live /\ (~overlap' => Live \subseteq doomed)
    BY <1>3, <1>7 DEF Leaving, Live, Running, Orderly
  <2>2. Orderly'
    BY <1>3, <1>7, <2>1 DEF Orderly, Leaving, Calling, TypeOK
  <2>3. Callbacks'
    BY <1>7, Waiters DEF Callbacks, CallStep, Turn, Leaving, TypeOK, Tasks
  <2>4. LastCallWins' /\ BlockIsOutage'
    BY <1>2, <1>3, <1>7, <2>1 DEF LastCallWins, BlockIsOutage, Leaving
  <2> QED BY <1>1, <1>2, <2>2, <2>3, <2>4
<1> QED BY <1>4, <1>5, <1>6, <1>7 DEF CallStep

-------------------------------------------------------------------------------
(* The steps of a runner *)

\* A connection leaves the calls, the cancellations and every other runner alone.
LEMMA ConnectsKeeps ==
  ASSUME IInv, NEW r \in Runners, Connects(r)
  PROVE  IInv'
<1> USE DEF IInv
<1>1. /\ runner' = [runner EXCEPT ![r] = "up"] /\ Live' = Live /\ r \in Live \ doomed
      /\ UNCHANGED <<doomed, current, event, day, calls>>
  BY DEF Connects, Live, TypeOK
<1>2. TypeOK'
  <2>1. /\ doomed' \in SUBSET Live' /\ socket' \in Live' \cup {NoRunner}
        /\ runner' \in [Runners -> {"ended", "dialing", "up", "asleep"}]
    BY <1>1 DEF Connects, TypeOK
  <2>2. fails' \in 0 .. FailLimit /\ published' \in BOOLEAN
    <3>1. 0 \in 0 .. FailLimit
      BY LimitAssumption
    <3> QED BY <3>1 DEF Connects
  <2>3. day' \in 1 .. MaxDays /\ since' \in 0 .. day' /\ block' \in SUBSET (1 .. day')
    BY DEF Connects, Resolves, TypeOK
  <2>4. unsaved' \in BOOLEAN
    <3>1. unsaved' = TRUE \/ unsaved' = unsaved
      BY DEF Connects, Resolves
    <3> QED BY <3>1 DEF TypeOK
  <2> QED BY <1>1, <2>1, <2>2, <2>3, <2>4 DEF Connects, TypeOK, calls
<1>3. Orderly'
  BY <1>1 DEF Orderly, Calling, calls
<1>4. Callbacks'
  BY <1>1 DEF Callbacks, calls, TypeOK
<1>5. Published' /\ BlockIsOutage'
  BY LimitAssumption, <1>1 DEF Connects, Resolves, Published, BlockIsOutage, TypeOK, calls
<1>6. LastCallWins'
  BY <1>1 DEF LastCallWins, Calling, calls
<1> QED BY <1>2, <1>3, <1>4, <1>5, <1>6

\* A runner goes on to where: it ends on the event only, and is not up.
Turns(r, where) ==
  /\ r \in Live \ doomed /\ pc[r] = "idle"
  /\ where = "ended" => event
  /\ runner' = [runner EXCEPT ![r] = where]
  /\ socket' = NoRunner \/ (where # "ended" /\ socket' = socket)
  /\ UNCHANGED <<doomed, current, event, day, calls, restarts>>

LEMMA TurnsKeeps ==
  ASSUME IInv, NEW r \in Runners, NEW where \in {"ended", "dialing", "asleep"},
         Turns(r, where), Published', unsaved => unsaved',
         fails' \in 0 .. FailLimit, published' \in BOOLEAN, unsaved' \in BOOLEAN,
         since' \in 0 .. day, block' \in SUBSET (1 .. day)
  PROVE  IInv'
<1> USE DEF IInv, Turns
<1>1. Live' \subseteq Live /\ Live' \cup {r} = Live /\ (where # "ended" => Live' = Live)
  BY DEF Live, TypeOK
<1>2. TypeOK'
  <2>1. doomed' \subseteq Live' /\ socket' \in Live' \cup {NoRunner}
    BY <1>1 DEF TypeOK
  <2> QED BY <1>1, <2>1 DEF TypeOK, calls
<1>3. Orderly'
  BY <1>1 DEF Orderly, Calling, calls
<1>4. Callbacks'
  BY DEF Callbacks, calls, TypeOK
<1>5. BlockIsOutage'
  <2>1. CASE overlap
    BY <2>1 DEF BlockIsOutage, calls
  <2>2. CASE ~overlap
    <3>1. Live' \ doomed' \subseteq {r} /\ runner'[r] # "up"
      BY <1>1, <2>2 DEF Orderly, TypeOK
    <3> QED BY <3>1 DEF BlockIsOutage
  <2> QED BY <2>1, <2>2
<1>6. LastCallWins'
  BY <1>1 DEF LastCallWins, Calling, calls
<1> QED BY <1>2, <1>3, <1>4, <1>5, <1>6

LEMMA BreaksKeeps ==
  ASSUME IInv, NEW r \in Runners, Breaks(r)
  PROVE  IInv'
<1> USE DEF IInv
<1>1. fails' \in 0 .. FailLimit /\ (fails' = FailLimit <=> fails' >= FailLimit)
  BY LimitAssumption DEF Breaks, Counted, TypeOK
<1>2. /\ published' \in BOOLEAN /\ unsaved' \in BOOLEAN /\ since' \in 0 .. day
      /\ block' \in SUBSET (1 .. day) /\ (unsaved => unsaved') /\ Published'
  <2>1. CASE fails' >= FailLimit /\ ~published
    <3>1. Publishes /\ UNCHANGED day /\ day \in 1 .. day /\ day \in 0 .. day
      BY <2>1 DEF Breaks, TypeOK
    <3>2. CASE block' = block \cup {day} /\ UNCHANGED unsaved
      BY <3>1, <3>2 DEF Publishes, Published, TypeOK
    <3>3. CASE unsaved' = TRUE /\ UNCHANGED block
      BY <3>1, <3>3 DEF Publishes, Published, TypeOK
    <3> QED BY <3>1, <3>2, <3>3 DEF Publishes
  <2>2. CASE ~(fails' >= FailLimit /\ ~published)
    BY <1>1, <2>2 DEF Breaks, Published, TypeOK
  <2> QED BY <2>1, <2>2
<1>3. r \in Live
  BY DEF Breaks, Live
<1>4. CASE event /\ Leaves(r, "ended")
  <2>1. Turns(r, "ended")
    BY <1>3, <1>4 DEF Breaks, Turns, Leaves
  <2> QED BY <1>1, <1>2, <2>1, TurnsKeeps
<1>5. CASE ~event /\ runner' = [runner EXCEPT ![r] = "asleep"] /\ UNCHANGED socket
  <2>1. Turns(r, "asleep")
    BY <1>3, <1>5 DEF Breaks, Turns
  <2> QED BY <1>1, <1>2, <2>1, TurnsKeeps
<1> QED BY <1>4, <1>5 DEF Breaks

LEMMA LoopsOnKeeps ==
  ASSUME IInv, NEW r \in Runners, LoopsOn(r)
  PROVE  IInv'
<1> DEFINE where == IF event THEN "ended" ELSE "dialing"
<1>1. Turns(r, where)
  BY DEF LoopsOn, Leaves, Turns, Live
<1>2. /\ Published' /\ fails' \in 0 .. FailLimit /\ published' \in BOOLEAN
      /\ unsaved' \in BOOLEAN /\ since' \in 0 .. day /\ block' \in SUBSET (1 .. day)
      /\ unsaved => unsaved'
  BY DEF LoopsOn, outage, Published, IInv, TypeOK
<1>3. where \in {"ended", "dialing", "asleep"}
  OBVIOUS
<1> QED BY <1>1, <1>2, <1>3, TurnsKeeps

\* A runner that dies in its callback leaves the call behind that waits for it.
LEMMA DiesKeeps ==
  ASSUME IInv, NEW r \in Runners, Dies(r)
  PROVE  IInv'
<1> USE DEF IInv
<1>1. /\ doomed' = doomed \ {r} /\ r \in doomed /\ Live' = Live \ {r}
      /\ runner' = [runner EXCEPT ![r] = "ended"] /\ pc' = [pc EXCEPT ![r] = "idle"]
      /\ UNCHANGED <<current, event, outage, day, overlap, last, restarts>>
  BY DEF Dies, Leaves, Done, Live, TypeOK
<1>2. TypeOK'
  BY <1>1 DEF Dies, Leaves, Done, TypeOK, outage
<1>3. Orderly'
  BY <1>1 DEF Orderly, Calling, TypeOK
<1>4. Callbacks'
  <2>1. ASSUME NEW s \in Runners, pc'[s] # "idle"
        PROVE  s # r /\ pc'[s] = pc[s] /\ runner'[s] = runner[s]
    BY <1>1, <2>1 DEF TypeOK, Tasks
  <2>2. ASSUME NEW s \in Runners, pc'[s] # "idle", s \in doomed'
        PROVE  \E d \in Tasks : pc'[d] = "ending" /\ awaits'[d] = s
    <3>1. PICK d \in Tasks : pc[d] = "ending" /\ awaits[d] = s
      BY <1>1, <2>1, <2>2 DEF Callbacks
    <3>2. d # r
      BY <1>1, <3>1 DEF Callbacks
    <3> QED BY <1>1, <2>1, <2>2, <3>1, <3>2 DEF Dies, TypeOK
  <2> QED BY <1>1, <2>1, <2>2 DEF Callbacks
<1>5. Published' /\ BlockIsOutage'
  BY <1>1 DEF Published, BlockIsOutage, TypeOK, outage
<1>6. LastCallWins'
  <2>1. Calling' = {} => Calling = {}
    <3>1. CASE pc[r] = "idle"
      BY <1>1, <3>1 DEF Calling, TypeOK
    <3>2. CASE pc[r] # "idle"
      <4>1. PICK d \in Tasks : pc[d] = "ending"
        BY <1>1, <3>2 DEF Callbacks
      <4>2. d # r
        BY <1>1, <4>1 DEF Callbacks
      <4> QED BY <1>1, <4>1, <4>2 DEF Calling, TypeOK
    <3> QED BY <3>1, <3>2
  <2> QED BY <1>1, <2>1 DEF LastCallWins
<1> QED BY <1>2, <1>3, <1>4, <1>5, <1>6

-------------------------------------------------------------------------------
(* Theorems *)

\* The invariant holds at first ...
LEMMA InitHolds == Init => IInv
<1> SUFFICES ASSUME Init PROVE IInv
  OBVIOUS
<1>1. TypeOK
  <2>1. /\ 1 \in 1 .. MaxDays /\ 0 \in 0 .. FailLimit
        /\ 0 \in 0 .. MaxRestarts /\ 0 \in 0 .. 1
    BY BoundAssumption, LimitAssumption
  <2> QED BY <2>1 DEF Init, TypeOK
<1>2. Orderly /\ Callbacks
  BY DEF Init, Orderly, Callbacks, Calling, Live, Tasks
<1>3. Published /\ LastCallWins /\ BlockIsOutage
  BY LimitAssumption DEF Init, Published, LastCallWins, BlockIsOutage, Live
<1> QED BY <1>1, <1>2, <1>3 DEF IInv

LEMMA RestartKeeps ==
  ASSUME IInv, Restart
  PROVE  IInv'
<1> USE DEF IInv
<1>1. Live' = {} /\ Calling' = {}
  BY DEF Restart, Live, Calling
<1>2. TypeOK'
  <2>1. /\ runner' \in [Runners -> {"ended", "dialing", "up", "asleep"}]
        /\ pc' \in [Tasks -> {"idle", "closing", "ending"}]
        /\ want' \in [Tasks -> {"stop", "start", "restart"}]
        /\ awaits' \in [Tasks -> Runners \cup {NoRunner}]
    BY DEF Restart
  <2>2. fails' \in 0 .. FailLimit /\ restarts' \in 0 .. MaxRestarts
    BY LimitAssumption, BoundAssumption DEF Restart, TypeOK
  <2> QED BY <2>1, <2>2 DEF Restart, TypeOK
<1>3. Orderly' /\ Callbacks'
  BY <1>1 DEF Restart, Orderly, Callbacks, Tasks
<1>4. Published' /\ LastCallWins' /\ BlockIsOutage'
  BY <1>1, LimitAssumption DEF Restart, Published, LastCallWins, BlockIsOutage
<1> QED BY <1>2, <1>3, <1>4

LEMMA NextDayKeeps ==
  ASSUME IInv, NextDay
  PROVE  IInv'
<1> USE DEF IInv
<1>1. Live' = Live /\ Calling' = Calling
  BY DEF NextDay, Live, Calling, session, calls
<1>2. TypeOK' /\ day' \notin block' /\ since' # day'
  <2>1. /\ day' \in 1 .. MaxDays /\ 1 .. day \subseteq 1 .. day' /\ 0 .. day \subseteq 0 .. day'
        /\ day' \notin 0 .. day /\ day' \notin 1 .. day
    BY BoundAssumption DEF NextDay, TypeOK
  <2> QED BY <1>1, <2>1 DEF NextDay, TypeOK, session, outage, calls
<1>3. Orderly' /\ Callbacks'
  BY <1>1 DEF NextDay, Orderly, Callbacks, session, calls
<1>4. Published' /\ LastCallWins' /\ BlockIsOutage'
  BY <1>1, <1>2 DEF NextDay, Published, LastCallWins, BlockIsOutage, session, outage, calls
<1> QED BY <1>2, <1>3, <1>4

\* ... and every step keeps it.
LEMMA StepKeeps == IInv /\ [Next]_vars => IInv'
<1> SUFFICES ASSUME IInv, [Next]_vars PROVE IInv'
  OBVIOUS
<1>1. ASSUME NEW c \in Tasks,
             \/ c \in Callers /\ Call(c)
             \/ c \in Runners /\ CallRestart(c)
             \/ SocketClosed(c) \/ RunnerEnded(c)
      PROVE  IInv'
  <2>1. CallStep(c)
    BY <1>1, CallsAreSteps DEF IInv
  <2> QED BY <2>1, CallStepKeeps
<1>2. CASE \E c \in Callers : Call(c)
  BY <1>1, <1>2 DEF Tasks
<1>3. CASE \E r \in Runners : CallRestart(r)
  BY <1>1, <1>3 DEF Tasks
<1>4. CASE \E c \in Tasks : SocketClosed(c) \/ RunnerEnded(c)
  BY <1>1, <1>4
<1>5. CASE \E r \in Runners : Connects(r) \/ Breaks(r) \/ LoopsOn(r) \/ Dies(r)
  BY <1>5, ConnectsKeeps, BreaksKeeps, LoopsOnKeeps, DiesKeeps
<1>6. CASE NextDay
  BY <1>6, NextDayKeeps
<1>7. CASE Restart
  BY <1>7, RestartKeeps
<1>8. CASE UNCHANGED vars
  <2>1. Live' = Live /\ Calling' = Calling
    BY <1>8 DEF vars, Live, Calling
  <2> QED BY <1>8, <2>1
          DEF vars, IInv, TypeOK, Orderly, Callbacks, Published, LastCallWins, BlockIsOutage
<1> QED BY <1>2, <1>3, <1>4, <1>5, <1>6, <1>7, <1>8 DEF Next

\* The inductive invariant: the calls that do not overlap take turns, a runner waits in
\* its callback only when it is safe, and what is published is recorded or lost.
THEOREM Invariance == Spec => []IInv
  BY InitHolds, StepKeeps, PTL DEF Spec

\* Every variable keeps its type; a cancellation and the socket belong to live runners.
THEOREM TypeCorrect == Spec => []TypeOK
<1>1. IInv => TypeOK
  BY DEF IInv
<1> QED BY <1>1, Invariance, PTL

\* Calls of start() and stop() that do not overlap leave one runner handing out ticks,
\* although they take no lock and a runner may restart the feed from its own callback.
THEOREM SingleRunner == Spec => []OneRunner
<1>1. IInv => OneRunner
  <2> SUFFICES ASSUME IInv, ~overlap PROVE Cardinality(Live \ doomed) <= 1
    BY DEF OneRunner
  <2>1. Live \ doomed \subseteq {current}
    BY DEF IInv, Orderly
  <2>2. IsFiniteSet({current}) /\ Cardinality({current}) = 1
    BY FS_Singleton
  <2>3. IsFiniteSet(Live \ doomed) /\ Cardinality(Live \ doomed) <= Cardinality({current})
    BY <2>1, <2>2, FS_Subset
  <2> QED BY <2>2, <2>3
<1> QED BY <1>1, Invariance, PTL

\* However start() and stop() overlap, the last call to end decides: a feed started last
\* runs, and one stopped last does not unless another call overlapped the stop.
THEOREM LastDecides == Spec => []LastCallWins
<1>1. IInv => LastCallWins
  BY DEF IInv
<1> QED BY <1>1, Invariance, PTL

\* An outage that reached the limit today blocks new entries today, whatever restarts
\* and reconnections came before, unless the database lost the record.
THEOREM OutageIsRecorded == Spec => []OutageBlocks
<1>1. IInv => OutageBlocks
  BY DEF IInv, Published, OutageBlocks
<1> QED BY <1>1, Invariance, PTL

\* A feed that is up is not blocked: whichever runner connects resolves the block of the
\* day, one of an earlier process as well.
THEOREM BlockEnds == Spec => []BlockIsOutage
<1>1. IInv => BlockIsOutage
  BY DEF IInv
<1> QED BY <1>1, Invariance, PTL

===============================================================================

----------------------------- MODULE ServiceProofs -----------------------------
(***************************************************************************)
(* Proofs about three services of the engine that share no state: the KIS   *)
(* client keeps its pace and the newest token, the feed watches the         *)
(* holdings that the engine's list covers, the crash defence and the SET in *)
(* force have their causes. The KIS client is extended, the other two are   *)
(* instances on variables of this module, Watchlist under its assumption.   *)
(* What the two promise is stated in Subscription and in MarketDay.         *)
(***************************************************************************)
EXTENDS KisClient, Subscription, MarketDay, FiniteSetTheorems, SequenceTheorems, TLAPS

CONSTANTS
  Cap, MaxHeld, MaxBusy,                        \* of Watchlist
  Levels, CrashLevel, DownLevel, UpLevel, Sets, SetsFor, Slots, MaxDays, MaxRestarts   \* of EntryDefense

VARIABLES
  candidates, screened, fresh, polled,
  slot, kospi, vol, rebound, sample, recent, owed, check, restarts

W == INSTANCE Watchlist
D == INSTANCE EntryDefense WITH due <- owed

-------------------------------------------------------------------------------
(* KisClient: the inductive invariant *)

\* The queue q of a lock, when the calls are c: every task is in it once, and wants the
\* lock or has it; whoever has taken it is the head.
QueueOf(q, c, places, taken) ==
  /\ q \in Seq(Tasks)
  /\ \A i, j \in 1 .. Len(q) : q[i] = q[j] => i = j
  /\ \A i \in 1 .. Len(q) : c[q[i]].pc \in places
  /\ \A u \in Tasks : c[u].pc = taken => q # <<>> /\ q[1] = u

Pacing  == {"pace", "nap"}
Keeping == {"token", "issue", "forget"}

Globals ==
  /\ since \in 0 .. MaxPace
  /\ token \in 0 .. MaxTokens
  /\ over \in BOOLEAN
  /\ issued \in 0 .. MaxTokens
  /\ good \subseteq 1 .. issued
  /\ received \in 0 .. issued
  /\ putBack \in BOOLEAN

\* What a call c works with has been received, but for the token that KIS has issued for
\* it, which is newer. One that was refused, and is to get a token, gets a newer one:
\* there is none in place, or one received since, or the renewal has put one back. One
\* that sleeps has slept as long as it must when it wakes up.
Known(c) ==
  /\ c.token <= received /\ c.refused <= received /\ c.granted <= issued
  /\ c.granted # 0 => c.pc = "issue" /\ received < c.granted
  /\ c.refused # 0 => c.pc \in {"token", "issue", "sent", "forget"}
  /\ c.refused # 0 /\ c.pc \in {"token", "issue"} =>
       token = 0 \/ putBack = TRUE \/ c.refused < received
  /\ c.pc = "nap" => Pace <= since + c.nap

\* The renewal sends no request, so that none of its own is refused.
RenewalAsks == call[Renewal].pc \in {"idle", "token", "issue"} /\ call[Renewal].refused = 0

ClientInv ==
  /\ call \in [Tasks -> Call]
  /\ RenewalAsks
  /\ Globals
  /\ QueueOf(pacers, call, Pacing, "nap")
  /\ QueueOf(keepers, call, Keeping, "issue")
  /\ \A t \in Tasks : Known(call[t])
  /\ token <= received
  /\ token # 0 /\ putBack = FALSE => token = received

\* It covers the type invariant.
LEMMA ClientTyped == ClientInv => TypeOK
<1> SUFFICES ASSUME ClientInv PROVE TypeOK
  OBVIOUS
<1>1. /\ pacers \in Seq(Tasks) /\ keepers \in Seq(Tasks)
      /\ \A i, j \in 1 .. Len(pacers) : pacers[i] = pacers[j] => i = j
      /\ \A i, j \in 1 .. Len(keepers) : keepers[i] = keepers[j] => i = j
  BY DEF ClientInv, QueueOf
<1>2. /\ \A i, j \in DOMAIN pacers : pacers[i] \in Tasks /\ (pacers[i] = pacers[j] => i = j)
      /\ \A i, j \in DOMAIN keepers : keepers[i] \in Tasks /\ (keepers[i] = keepers[j] => i = j)
  BY <1>1
<1>3. call \in [Tasks -> Call] /\ Globals
  BY DEF ClientInv
<1> QED BY <1>2, <1>3 DEF TypeOK, Globals

-------------------------------------------------------------------------------
(* KisClient: queues *)

\* A task that comes to want the lock joins the queue.
LEMMA Joins ==
  ASSUME NEW q, NEW c, NEW d, NEW places, NEW taken, NEW t \in Tasks,
         QueueOf(q, c, places, taken),
         c[t].pc \notin places, d[t].pc \in places, d[t].pc # taken,
         \A u \in Tasks \ {t} : d[u].pc = c[u].pc
  PROVE  QueueOf(Append(q, t), d, places, taken)
<1> DEFINE r == Append(q, t)
<1>1. q \in Seq(Tasks)
  BY DEF QueueOf
<1>2. /\ r \in Seq(Tasks) /\ r # <<>> /\ Len(r) = Len(q) + 1
      /\ \A i \in 1 .. Len(q) : r[i] = q[i]
      /\ r[Len(q) + 1] = t
  BY <1>1, AppendProperties
<1>3. Len(q) \in Nat /\ \A i \in 1 .. Len(q) : q[i] \in Tasks
  BY <1>1
<1> HIDE DEF r
<1>4. \A i \in 1 .. Len(q) : q[i] # t
  BY DEF QueueOf
<1>5. \A i, j \in 1 .. Len(r) : r[i] = r[j] => i = j
  BY <1>2, <1>3, <1>4 DEF QueueOf
<1>6. \A i \in 1 .. Len(r) : d[r[i]].pc \in places
  BY <1>2, <1>3, <1>4 DEF QueueOf
<1>7. ASSUME NEW u \in Tasks, d[u].pc = taken PROVE r # <<>> /\ r[1] = u
  <2>1. u # t /\ c[u].pc = taken
    BY <1>7
  <2>2. q # <<>> /\ q[1] = u
    BY <2>1 DEF QueueOf
  <2>3. 1 \in 1 .. Len(q)
    BY <1>1, <2>2
  <2> QED BY <1>2, <2>2, <2>3
<1> QED BY <1>2, <1>5, <1>6, <1>7 DEF QueueOf, r

\* The task that has the lock gives it back; nobody else has taken it.
LEMMA GivesBack ==
  ASSUME NEW q, NEW c, NEW d, NEW places, NEW taken, NEW t \in Tasks,
         QueueOf(q, c, places, taken), q # <<>>, q[1] = t,
         d[t].pc # taken,
         \A u \in Tasks \ {t} : d[u].pc = c[u].pc
  PROVE  /\ QueueOf(Tail(q), d, places, taken)
         /\ \A i \in 1 .. Len(Tail(q)) : Tail(q)[i] # t
<1> DEFINE r == Tail(q)
<1>1. q \in Seq(Tasks)
  BY DEF QueueOf
<1>2. /\ r \in Seq(Tasks) /\ Len(r) = Len(q) - 1 /\ Len(q) \in Nat
      /\ \A i \in 1 .. Len(r) : r[i] = q[i + 1]
  BY <1>1, HeadTailProperties
<1> HIDE DEF r
<1>3. \A i \in 1 .. Len(r) : i + 1 \in 1 .. Len(q) /\ 1 \in 1 .. Len(q) /\ q[i + 1] \in Tasks
  BY <1>1, <1>2
<1>4. \A i \in 1 .. Len(r) : r[i] # t
  BY <1>2, <1>3 DEF QueueOf
<1>5. \A i, j \in 1 .. Len(r) : r[i] = r[j] => i = j
  BY <1>2, <1>3 DEF QueueOf
<1>6. \A i \in 1 .. Len(r) : d[r[i]].pc \in places
  BY <1>2, <1>3, <1>4 DEF QueueOf
<1>7. \A u \in Tasks : d[u].pc # taken
  BY DEF QueueOf
<1> QED BY <1>2, <1>4, <1>5, <1>6, <1>7 DEF QueueOf, r

\* Nobody comes or goes; only the head takes the lock.
LEMMA StaysInLine ==
  ASSUME NEW q, NEW c, NEW d, NEW places, NEW taken,
         QueueOf(q, c, places, taken),
         \A u \in Tasks : c[u].pc \in places => d[u].pc \in places,
         \A u \in Tasks : d[u].pc = taken => c[u].pc = taken \/ (q # <<>> /\ q[1] = u)
  PROVE  QueueOf(q, d, places, taken)
<1>1. \A i \in 1 .. Len(q) : q[i] \in Tasks
  BY DEF QueueOf
<1> QED BY <1>1 DEF QueueOf

-------------------------------------------------------------------------------
(* KisClient: one call moves *)

\* Call t becomes c, the others stay.
Becomes(t, c) ==
  /\ c \in Call /\ call' = [call EXCEPT ![t] = c]
  /\ t = Renewal => c.pc \in {"idle", "token", "issue"} /\ c.refused = 0

LEMMA BecomesCalls ==
  ASSUME ClientInv, NEW t \in Tasks, NEW c, Becomes(t, c)
  PROVE  /\ call' \in [Tasks -> Call]
         /\ call'[t] = c
         /\ \A u \in Tasks \ {t} : call'[u] = call[u]
  BY DEF ClientInv, Becomes

\* What a call that stays knows, it knows after a step of another: no token was received
\* but by one that had the lock, and none was put in place that is not newer.
LEMMA StillKnown ==
  ASSUME ClientInv, NEW c \in Call, Known(c), Globals',
         received <= received', issued <= issued',
         since' = since \/ c.pc # "nap",
         received' = received \/ c.pc # "issue",
         \/ token' = 0 \/ putBack' = TRUE \/ received < received'
         \/ token' = token /\ putBack' = putBack
  PROVE  Known(c)'
<1>1. /\ c.token \in Nat /\ c.refused \in Nat /\ c.granted \in Nat /\ c.nap \in Nat
      /\ received \in Nat /\ issued \in Nat /\ received' \in Nat /\ issued' \in Nat
  BY DEF Call, ClientInv, Globals
<1>2. (c.token <= received /\ c.refused <= received /\ c.granted <= issued)'
  BY <1>1 DEF Known
<1>3. (c.granted # 0 => c.pc = "issue" /\ received < c.granted)'
  BY <1>1 DEF Known
<1>4. (c.refused # 0 /\ c.pc \in {"token", "issue"} =>
         token = 0 \/ putBack = TRUE \/ c.refused < received)'
  BY <1>1 DEF Known
<1> QED BY <1>2, <1>3, <1>4 DEF Known

\* A step of one call keeps the invariant when it keeps the queues and knows what it does.
LEMMA CallKeeps ==
  ASSUME ClientInv, NEW t \in Tasks, NEW c, Becomes(t, c), Known(c)', Globals',
         QueueOf(pacers, call, Pacing, "nap")', QueueOf(keepers, call, Keeping, "issue")',
         since' = since \/ call[t].pc = "nap",
         received <= received', issued <= issued',
         received' = received \/ call[t].pc = "issue",
         \/ token' = 0 \/ putBack' = TRUE \/ received < received'
         \/ token' = token /\ putBack' = putBack,
         token' <= received',
         token' # 0 /\ putBack' = FALSE => token' = received'
  PROVE  ClientInv'
<1>1. /\ call' \in [Tasks -> Call]
      /\ call'[t] = c
      /\ \A u \in Tasks \ {t} : call'[u] = call[u]
  BY BecomesCalls
<1>2. ASSUME NEW u \in Tasks \ {t} PROVE Known(call[u])'
  <2>1. call[u] \in Call /\ Known(call[u])
    BY DEF ClientInv
  <2>2. since' = since \/ call[u].pc # "nap"
    BY DEF ClientInv, QueueOf
  <2>3. received' = received \/ call[u].pc # "issue"
    BY DEF ClientInv, QueueOf
  <2> DEFINE d == call[u]
  <2>4. Known(d) /\ d \in Call /\ call'[u] = d
    BY <1>1, <2>1
  <2> QED BY <2>2, <2>3, <2>4, StillKnown DEF Known
<1>3. \A u \in Tasks : Known(call[u])'
  BY <1>1, <1>2 DEF Known
<1>4. RenewalAsks'
  BY <1>1 DEF ClientInv, RenewalAsks, Becomes, Tasks
<1> QED BY <1>1, <1>3, <1>4 DEF ClientInv

\* So does one that leaves the token and the limiter's clock alone.
LEMMA PlainKeeps ==
  ASSUME ClientInv, NEW t \in Tasks, NEW c, Becomes(t, c), Known(c)', Globals',
         QueueOf(pacers, call, Pacing, "nap")', QueueOf(keepers, call, Keeping, "issue")',
         UNCHANGED <<since, token, putBack, received, issued>>
  PROVE  ClientInv'
<1>1. received <= received' /\ issued <= issued'
  BY DEF ClientInv, Globals
<1>2. token' <= received' /\ (token' # 0 /\ putBack' = FALSE => token' = received')
  BY DEF ClientInv
<1> QED BY <1>1, <1>2, CallKeeps

\* Both queues stay when a call goes between places that are none of theirs, or waits on.
LEMMA QueuesStay ==
  ASSUME ClientInv, NEW t \in Tasks, NEW c, Becomes(t, c),
         call[t].pc \in Pacing <=> c.pc \in Pacing,
         call[t].pc \in Keeping <=> c.pc \in Keeping,
         c.pc = "nap" => pacers # <<>> /\ pacers[1] = t,
         c.pc = "issue" => keepers # <<>> /\ keepers[1] = t
  PROVE  /\ UNCHANGED pacers => QueueOf(pacers, call, Pacing, "nap")'
         /\ UNCHANGED keepers => QueueOf(keepers, call, Keeping, "issue")'
<1>1. /\ call'[t] = c
      /\ \A u \in Tasks \ {t} : call'[u] = call[u]
  BY BecomesCalls
<1>2. /\ QueueOf(pacers, call, Pacing, "nap")
      /\ QueueOf(keepers, call, Keeping, "issue")
  BY DEF ClientInv
<1>3. /\ \A u \in Tasks : call[u].pc \in Pacing => call'[u].pc \in Pacing
      /\ \A u \in Tasks : call'[u].pc = "nap" =>
           call[u].pc = "nap" \/ (pacers # <<>> /\ pacers[1] = u)
      /\ \A u \in Tasks : call[u].pc \in Keeping => call'[u].pc \in Keeping
      /\ \A u \in Tasks : call'[u].pc = "issue" =>
           call[u].pc = "issue" \/ (keepers # <<>> /\ keepers[1] = u)
  BY <1>1
<1>4. QueueOf(pacers, call', Pacing, "nap")
  BY <1>2, <1>3, StaysInLine
<1>5. QueueOf(keepers, call', Keeping, "issue")
  BY <1>2, <1>3, StaysInLine
<1> QED BY <1>4, <1>5 DEF QueueOf

\* A call that is over, or sleeps before a retry, has forgotten everything.
Blank(c) ==
  /\ c \in Call
  /\ c.pc \in {"idle", "backoff"}
  /\ c.token = 0 /\ c.refused = 0 /\ c.granted = 0

\* An error or an answer leaves nothing, but the count of the attempts.
LEMMA Blanks ==
  ASSUME ClientInv, NEW t \in Tasks
  PROVE  Blank(NoCall) /\ Blank(Retried(t))
<1>1. Retries \in Nat \ {0} /\ TokenTries \in Nat \ {0} /\ MaxPace \in Nat /\ MaxTokens \in Nat
  BY ClientAssumption
<1>2. NoCall \in Call
  BY <1>1 DEF NoCall, Call, Places
<1>3. Blank(NoCall)
  BY <1>2 DEF Blank, NoCall
<1>4. ASSUME call[t].tries + 1 < Retries PROVE Blank(Retried(t))
  <2>1. call[t] \in Call
    BY DEF ClientInv
  <2>2. call[t].tries + 1 \in 0 .. Retries - 1
    BY <1>1, <1>4, <2>1 DEF Call
  <2>3. PICK c : c = [NoCall EXCEPT !.pc = "backoff", !.tries = call[t].tries + 1]
    OBVIOUS
  <2>4. c = Retried(t)
    BY <1>4, <2>3 DEF Retried
  <2>5. c \in Call
    BY <1>2, <2>2, <2>3 DEF Call, Places
  <2>6. c.pc = "backoff" /\ c.token = 0 /\ c.refused = 0 /\ c.granted = 0
    BY <2>3 DEF NoCall
  <2> QED BY <2>4, <2>5, <2>6 DEF Blank
<1>5. ~(call[t].tries + 1 < Retries) => Blank(Retried(t))
  BY <1>3 DEF Retried
<1> QED BY <1>3, <1>4, <1>5

\* A call of which nothing is left has nothing to know.
LEMMA BlankKnows ==
  ASSUME NEW c, Blank(c), Globals' PROVE Known(c)'
  BY DEF Blank, Known, Globals

-------------------------------------------------------------------------------
(* KisClient: the limiter *)

\* Begins keeps the invariant.
LEMMA BeginsKeeps ==
  ASSUME ClientInv, NEW t \in Tasks, Begins(t) PROVE ClientInv'
<1>1. PICK c : c = [call[t] EXCEPT !.pc = "pace"]
  OBVIOUS
<1>2. call[t] \in Call /\ Known(call[t]) /\ call[t].pc \in {"idle", "backoff"}
  BY DEF ClientInv, Begins
<1>3. /\ c \in Call /\ c.pc = "pace" /\ c.token = call[t].token /\ c.refused = call[t].refused
      /\ c.granted = call[t].granted
  BY <1>1, <1>2 DEF Call, Places
<1>4. Becomes(t, c)
  BY <1>1, <1>3, ClientAssumption DEF Becomes, Begins
<1>5. /\ pacers' = Append(pacers, t)
      /\ UNCHANGED <<since, token, keepers, over, received, putBack, issued, good>>
  BY DEF Begins, tokens, kis
<1>6. /\ call'[t] = c
      /\ \A u \in Tasks \ {t} : call'[u] = call[u]
  BY <1>4, BecomesCalls
<1>7. QueueOf(pacers, call, Pacing, "nap")'
  <2>1. QueueOf(Append(pacers, t), call', Pacing, "nap")
    BY <1>2, <1>3, <1>6, Joins DEF ClientInv, Pacing
  <2> QED BY <2>1, <1>5 DEF QueueOf
<1>8. QueueOf(keepers, call, Keeping, "issue")'
  <2>1. QueueOf(keepers, call', Keeping, "issue")
    BY <1>2, <1>3, <1>6, StaysInLine DEF ClientInv, Keeping
  <2> QED BY <2>1, <1>5 DEF QueueOf
<1>9. Globals' /\ Known(c)'
  BY <1>2, <1>3, <1>5 DEF ClientInv, Globals, Known
<1> QED BY <1>4, <1>5, <1>7, <1>8, <1>9, PlainKeeps

\* Paces keeps the invariant: the sleep is what is missing of a delay.
LEMMA PacesKeeps ==
  ASSUME ClientInv, NEW t \in Tasks, Paces(t) PROVE ClientInv'
<1>1. PICK d \in Delays : call' = [call EXCEPT ![t].pc = "nap", ![t].nap = d - Least(since, d)]
  BY DEF Paces
<1>2. PICK c : c = [call[t] EXCEPT !.pc = "nap", !.nap = d - Least(since, d)]
  OBVIOUS
<1>3. call[t] \in Call /\ Known(call[t]) /\ call[t].pc = "pace" /\ t # Renewal
  BY DEF ClientInv, RenewalAsks, Paces
<1>4. /\ d - Least(since, d) \in 0 .. MaxPace
      /\ Pace <= since + (d - Least(since, d))
  <2>1. d \in Nat /\ Pace <= d /\ d <= MaxPace /\ MaxPace \in Nat /\ Pace \in Nat
    BY ClientAssumption DEF Delays
  <2>2. since \in Nat
    BY DEF ClientInv, Globals
  <2> QED BY <2>1, <2>2 DEF Least
<1>5. /\ c \in Call /\ c.pc = "nap" /\ c.token = call[t].token /\ c.refused = call[t].refused
      /\ c.granted = call[t].granted /\ c.nap = d - Least(since, d)
  BY <1>2, <1>3, <1>4 DEF Call, Places
<1>6. Becomes(t, c)
  BY <1>1, <1>2, <1>3, <1>5 DEF Becomes
<1>7. /\ UNCHANGED <<pacers, since, token, keepers, over, received, putBack, issued, good>>
      /\ pacers # <<>> /\ pacers[1] = t
  BY DEF Paces, limiter, tokens, kis, Turn
<1>8. QueueOf(pacers, call, Pacing, "nap")' /\ QueueOf(keepers, call, Keeping, "issue")'
  BY <1>3, <1>5, <1>6, <1>7, QueuesStay DEF Pacing, Keeping
<1>9. Globals' /\ Known(c)'
  BY <1>3, <1>4, <1>5, <1>7 DEF ClientInv, Globals, Known
<1> QED BY <1>6, <1>7, <1>8, <1>9, PlainKeeps

\* Steps keeps the invariant: what a sleep comes nearer to its end, the last call is
\* longer ago.
LEMMA StepsKeeps == ASSUME ClientInv, Steps PROVE ClientInv'
<1>1. /\ call' = [t \in Tasks |-> [call[t] EXCEPT !.nap = Greatest(@, 1) - 1]]
      /\ since' = Least(since + 1, MaxPace)
      /\ UNCHANGED <<pacers, token, keepers, over, received, putBack, issued, good>>
  BY DEF Steps, tokens, kis
<1>2. Pace \in Nat /\ MaxPace \in Nat /\ Pace <= MaxPace /\ since \in 0 .. MaxPace
  BY ClientAssumption DEF ClientInv, Globals
<1>3. since' \in 0 .. MaxPace
  BY <1>1, <1>2 DEF Least
<1>4. ASSUME NEW t \in Tasks
      PROVE  call'[t] \in Call /\ call'[t].pc = call[t].pc /\ Known(call[t])'
  <2>1. call[t] \in Call /\ Known(call[t])
    BY DEF ClientInv
  <2>2. PICK n : n = Greatest(call[t].nap, 1) - 1
    OBVIOUS
  <2>3. call[t].nap \in 0 .. MaxPace
    BY <2>1 DEF Call
  <2>4. n \in 0 .. MaxPace /\ (n = call[t].nap - 1 \/ (call[t].nap = 0 /\ n = 0))
    BY <1>2, <2>2, <2>3 DEF Greatest
  <2>5. call'[t] = [call[t] EXCEPT !.nap = n]
    BY <1>1, <2>2
  <2>6. /\ call'[t] \in Call
        /\ \A f \in {"pc", "token", "refused", "granted"} : call'[t][f] = call[t][f]
        /\ call'[t].nap = n
    BY <2>1, <2>4, <2>5 DEF Call
  <2>7. Pace <= since + call[t].nap => Pace <= since' + n
    BY <1>1, <1>2, <2>3, <2>4 DEF Least
  <2> QED BY <1>1, <2>1, <2>6, <2>7 DEF Known
<1>5. call' \in [Tasks -> Call]
  BY <1>1, <1>4
<1>6. QueueOf(pacers, call', Pacing, "nap") /\ QueueOf(keepers, call', Keeping, "issue")
  BY <1>4, StaysInLine DEF ClientInv
<1>7. QueueOf(pacers, call, Pacing, "nap")' /\ QueueOf(keepers, call, Keeping, "issue")'
  BY <1>1, <1>6 DEF QueueOf
<1>8. Globals'
  BY <1>1, <1>3 DEF ClientInv, Globals
<1>9. RenewalAsks'
  <2>1. Renewal \in Tasks
    BY DEF Tasks
  <2>2. call[Renewal] \in Call /\ call'[Renewal] = [call[Renewal] EXCEPT !.nap = Greatest(@, 1) - 1]
    BY <1>1, <2>1 DEF ClientInv
  <2> QED BY <2>2 DEF ClientInv, RenewalAsks, Call
<1> QED BY <1>1, <1>4, <1>5, <1>7, <1>8, <1>9 DEF ClientInv

\* Passes keeps the invariant: it gives back the limiter's lock, and nobody else sleeps
\* with it while the clock starts anew.
LEMMA PassesKeeps ==
  ASSUME ClientInv, NEW t \in Tasks, Passes(t) PROVE ClientInv'
<1>1. /\ call[t] \in Call /\ Known(call[t]) /\ call[t].pc = "nap" /\ t # Renewal
      /\ pacers # <<>> /\ pacers[1] = t
  BY DEF ClientInv, RenewalAsks, Passes, QueueOf
<1>2. /\ since' = 0 /\ pacers' = Tail(pacers)
      /\ UNCHANGED <<token, over, received, putBack, issued, good>>
  BY DEF Passes, kis
<1>3. Globals'
  BY <1>2, ClientAssumption DEF ClientInv, Globals
<1>4. ASSUME NEW c, Becomes(t, c), Known(c)', c.pc \in {"sent", "token"},
             QueueOf(keepers, call, Keeping, "issue")'
      PROVE  ClientInv'
  <2>1. call'[t] = c /\ \A u \in Tasks \ {t} : call'[u] = call[u]
    BY <1>4, BecomesCalls
  <2>2. QueueOf(Tail(pacers), call', Pacing, "nap")
    BY <1>1, <1>4, <2>1, GivesBack DEF ClientInv
  <2>3. QueueOf(pacers, call, Pacing, "nap")'
    BY <1>2, <2>2 DEF QueueOf
  <2>4. received <= received' /\ issued <= issued'
    BY <1>2 DEF ClientInv, Globals
  <2>5. token' <= received' /\ (token' # 0 /\ putBack' = FALSE => token' = received')
    BY <1>2 DEF ClientInv
  <2> QED BY <1>1, <1>2, <1>3, <1>4, <2>3, <2>4, <2>5, CallKeeps
<1>5. CASE TokenIsValid
  <2>1. PICK c : c = [call[t] EXCEPT !.pc = "sent", !.token = token]
    OBVIOUS
  <2>2. token \in 0 .. MaxTokens /\ token <= received
    BY DEF ClientInv, Globals
  <2>3. /\ c \in Call /\ c.pc = "sent" /\ c.token = token /\ c.refused = call[t].refused
        /\ c.granted = call[t].granted
    BY <1>1, <2>1, <2>2 DEF Call, Places
  <2>4. Becomes(t, c) /\ UNCHANGED keepers
    BY <1>1, <1>5, <2>1, <2>3 DEF Becomes, Passes
  <2>5. Known(c)'
    BY <1>1, <1>2, <2>2, <2>3 DEF Known
  <2>6. call'[t] = c /\ \A u \in Tasks \ {t} : call'[u] = call[u]
    BY <2>4, BecomesCalls
  <2>7. QueueOf(keepers, call', Keeping, "issue")
    BY <1>1, <2>3, <2>6, StaysInLine DEF ClientInv, Keeping
  <2>8. QueueOf(keepers, call, Keeping, "issue")'
    BY <2>4, <2>7 DEF QueueOf
  <2> QED BY <1>4, <2>3, <2>4, <2>5, <2>8
<1>6. CASE ~TokenIsValid
  <2>1. PICK c : c = [call[t] EXCEPT !.pc = "token"]
    OBVIOUS
  <2>2. /\ c \in Call /\ c.pc = "token" /\ c.token = call[t].token /\ c.refused = call[t].refused
        /\ c.granted = call[t].granted
    BY <1>1, <2>1 DEF Call, Places
  <2>3. Becomes(t, c) /\ keepers' = Append(keepers, t)
    BY <1>1, <1>6, <2>1, <2>2 DEF Becomes, Passes
  <2>4. Known(c)'
    BY <1>1, <1>2, <2>2 DEF Known
  <2>5. call'[t] = c /\ \A u \in Tasks \ {t} : call'[u] = call[u]
    BY <2>3, BecomesCalls
  <2>6. QueueOf(Append(keepers, t), call', Keeping, "issue")
    BY <1>1, <2>2, <2>5, Joins DEF ClientInv, Keeping
  <2>7. QueueOf(keepers, call, Keeping, "issue")'
    BY <2>3, <2>6 DEF QueueOf
  <2> QED BY <1>4, <2>2, <2>3, <2>4, <2>7
<1> QED BY <1>5, <1>6

-------------------------------------------------------------------------------
(* KisClient: the token *)

\* A call that gives back the token lock and knows what it does keeps the invariant.
LEMMA LeavesKeeps ==
  ASSUME ClientInv, NEW t \in Tasks, NEW c, Becomes(t, c), Known(c)', Globals',
         call[t].pc \in {"token", "issue"}, c.pc \in {"idle", "sent", "backoff"},
         keepers # <<>>, keepers[1] = t, Leaves,
         UNCHANGED <<pacers, since, issued>>,
         received <= received',
         received' = received \/ call[t].pc = "issue",
         \/ putBack' = TRUE \/ received < received'
         \/ token' = token /\ putBack' = putBack,
         token' <= received',
         token' # 0 /\ putBack' = FALSE => token' = received'
  PROVE  ClientInv'
<1>1. call'[t] = c /\ \A u \in Tasks \ {t} : call'[u] = call[u]
  BY BecomesCalls
<1>2. QueueOf(Tail(keepers), call', Keeping, "issue")
  BY <1>1, GivesBack DEF ClientInv
<1>3. QueueOf(keepers, call, Keeping, "issue")'
  BY <1>2 DEF QueueOf, Leaves
<1>4. QueueOf(pacers, call', Pacing, "nap")
  BY <1>1, StaysInLine DEF ClientInv, Pacing
<1>5. QueueOf(pacers, call, Pacing, "nap")'
  BY <1>4 DEF QueueOf
<1>6. issued <= issued'
  BY DEF ClientInv, Globals
<1> QED BY <1>3, <1>5, <1>6, CallKeeps

\* get_token's request goes out, or the renewal is done.
LEMMA SentCall ==
  ASSUME ClientInv, NEW t \in Tasks, NEW g \in 0 .. MaxTokens,
         call[t].pc \in {"token", "issue"}, Sent(t, g)
  PROVE  \E c : /\ Becomes(t, c)
                /\ c.pc \in {"idle", "sent"} /\ c.token \in {0, g}
                /\ c.granted = 0 /\ c.refused = call[t].refused
                /\ c.pc = "idle" => c.refused = 0
                /\ c.pc = "sent" => c.token = g
<1>1. call[t] \in Call
  BY DEF ClientInv
<1>2. PICK place \in {"idle", "sent"} : place = IF t = Renewal THEN "idle" ELSE "sent"
  OBVIOUS
<1>3. PICK h \in {0, g} : h = IF t = Renewal THEN 0 ELSE g
  OBVIOUS
<1>4. PICK c : c = [call[t] EXCEPT !.pc = place, !.token = h, !.asked = 0, !.granted = 0]
  OBVIOUS
<1>5. 0 \in 0 .. TokenTries - 1 /\ 0 \in 0 .. MaxTokens /\ h \in 0 .. MaxTokens /\ place \in Places
  BY <1>2, <1>3, ClientAssumption DEF Places
<1>6. c \in Call
  BY <1>1, <1>4, <1>5 DEF Call
<1>7. c.pc = place /\ c.token = h /\ c.granted = 0 /\ c.refused = call[t].refused
  BY <1>1, <1>4 DEF Call
<1>8. call' = [call EXCEPT ![t] = c]
  BY <1>2, <1>3, <1>4 DEF Sent
<1>9. t = Renewal => call[t].refused = 0
  BY DEF ClientInv, RenewalAsks
<1> QED BY <1>2, <1>3, <1>6, <1>7, <1>8, <1>9 DEF Becomes

\* Locks keeps the invariant: a token in place is newer than the one refused, unless it
\* was put back.
LEMMA LocksKeeps ==
  ASSUME ClientInv, NEW t \in Tasks, Locks(t) PROVE ClientInv'
<1>1. /\ call[t] \in Call /\ Known(call[t]) /\ call[t].pc = "token"
      /\ keepers # <<>> /\ keepers[1] = t
  BY DEF ClientInv, Locks, Turn
<1>2. UNCHANGED <<pacers, since, token, over, received, putBack, issued, good>>
  BY DEF Locks, limiter, kis
<1>3. Globals'
  BY <1>2 DEF ClientInv, Globals
<1>4. token \in 0 .. MaxTokens /\ token <= received /\ received \in Nat
  BY DEF ClientInv, Globals
<1>5. CASE TokenIsValid
  <2>1. Sent(t, token) /\ Leaves
    BY <1>5 DEF Locks
  <2>2. PICK c : /\ Becomes(t, c)
                 /\ c.pc \in {"idle", "sent"} /\ c.token \in {0, token}
                 /\ c.granted = 0 /\ c.refused = call[t].refused
                 /\ c.pc = "idle" => c.refused = 0
    BY <1>1, <1>4, <2>1, SentCall
  <2>3. Known(c)'
    BY <1>1, <1>2, <1>4, <2>2 DEF Known, ClientInv, Globals
  <2>4. received <= received' /\ token' <= received'
    BY <1>2, <1>4
  <2>5. token' # 0 /\ putBack' = FALSE => token' = received'
    BY <1>2 DEF ClientInv
  <2> QED BY <1>1, <1>2, <1>3, <2>1, <2>2, <2>3, <2>4, <2>5, LeavesKeeps
<1>6. CASE ~TokenIsValid
  <2>1. PICK c : c = [call[t] EXCEPT !.pc = "issue"]
    OBVIOUS
  <2>2. /\ c \in Call /\ c.pc = "issue" /\ c.token = call[t].token /\ c.refused = call[t].refused
        /\ c.granted = call[t].granted
    BY <1>1, <2>1 DEF Call, Places
  <2>3. t = Renewal => c.refused = 0
    BY <2>2 DEF ClientInv, RenewalAsks
  <2>4. Becomes(t, c) /\ UNCHANGED keepers
    BY <1>6, <2>1, <2>2, <2>3 DEF Becomes, Locks
  <2>5. Known(c)'
    BY <1>1, <1>2, <2>2 DEF Known
  <2>6. QueueOf(pacers, call, Pacing, "nap")' /\ QueueOf(keepers, call, Keeping, "issue")'
    BY <1>1, <1>2, <2>2, <2>4, QueuesStay DEF Pacing, Keeping
  <2> QED BY <1>2, <1>3, <2>4, <2>5, <2>6, PlainKeeps
<1> QED BY <1>5, <1>6

\* Grants keeps the invariant: what KIS issues is newer than what has been received.
LEMMA GrantsKeeps == ASSUME ClientInv, NEW t \in Tasks, Grants(t) PROVE ClientInv'
<1>1. /\ call[t] \in Call /\ Known(call[t]) /\ call[t].pc = "issue"
      /\ keepers # <<>> /\ keepers[1] = t
  BY DEF ClientInv, Grants, QueueOf
<1>2. /\ issued < MaxTokens /\ issued' = issued + 1 /\ good' = good \cup {issued + 1}
      /\ UNCHANGED <<pacers, since, token, keepers, over, received, putBack>>
  BY DEF Grants, limiter, tokens
<1>3. issued \in Nat /\ MaxTokens \in Nat /\ received \in Nat /\ received <= issued
  BY ClientAssumption DEF ClientInv, Globals
<1>4. Globals'
  BY <1>2, <1>3 DEF ClientInv, Globals
<1>5. PICK c : c = [call[t] EXCEPT !.granted = issued + 1]
  OBVIOUS
<1>6. /\ c \in Call /\ c.pc = "issue" /\ c.token = call[t].token /\ c.refused = call[t].refused
      /\ c.granted = issued + 1
  <2>1. issued + 1 \in 0 .. MaxTokens
    BY <1>2, <1>3
  <2> QED BY <1>1, <1>5, <2>1 DEF Call
<1>7. t = Renewal => c.refused = 0
  BY <1>6 DEF ClientInv, RenewalAsks
<1>8. Becomes(t, c)
  BY <1>5, <1>6, <1>7 DEF Becomes, Grants
<1>9. Known(c)'
  BY <1>1, <1>2, <1>3, <1>6 DEF Known
<1>10. QueueOf(pacers, call, Pacing, "nap")' /\ QueueOf(keepers, call, Keeping, "issue")'
  BY <1>1, <1>2, <1>6, <1>8, QueuesStay DEF Pacing, Keeping
<1>11. received <= received' /\ issued <= issued' /\ token' <= received'
  BY <1>2, <1>3 DEF ClientInv
<1>12. token' # 0 /\ putBack' = FALSE => token' = received'
  BY <1>2 DEF ClientInv
<1> QED BY <1>2, <1>4, <1>8, <1>9, <1>10, <1>11, <1>12, CallKeeps

\* Issued keeps the invariant: the token put in place is the newest received.
LEMMA IssuedKeeps ==
  ASSUME ClientInv, NEW t \in Tasks, Issued(t) PROVE ClientInv'
<1> DEFINE g == call[t].granted
<1>1. /\ call[t] \in Call /\ Known(call[t]) /\ call[t].pc = "issue" /\ g # 0
      /\ keepers # <<>> /\ keepers[1] = t
  BY DEF ClientInv, Issued, QueueOf
<1>2. g \in 0 .. MaxTokens /\ received < g /\ g <= issued /\ received \in Nat /\ issued \in Nat
  BY <1>1 DEF Call, Known, ClientInv, Globals
<1>3. /\ token' = g /\ over' = FALSE /\ putBack' = FALSE
      /\ received' = Greatest(received, g)
      /\ Sent(t, g) /\ Leaves
      /\ UNCHANGED <<pacers, since, issued, good>>
  BY DEF Issued, limiter, kis
<1>4. received' = g
  BY <1>2, <1>3 DEF Greatest
<1>5. Globals'
  <2>1. over' \in BOOLEAN /\ putBack' \in BOOLEAN
    BY <1>3
  <2>2. issued' = issued /\ token' = g
    BY <1>3
  <2>3. received' \in 0 .. issued'
    BY <1>2, <1>4, <2>2
  <2>4. token' \in 0 .. MaxTokens
    BY <1>2, <2>2
  <2> QED BY <1>3, <2>1, <2>3, <2>4 DEF ClientInv, Globals
<1>6. PICK c : /\ Becomes(t, c)
               /\ c.pc \in {"idle", "sent"} /\ c.token \in {0, g}
               /\ c.granted = 0 /\ c.refused = call[t].refused
               /\ c.pc = "idle" => c.refused = 0
  BY <1>1, <1>2, <1>3, SentCall
<1>7. call[t].refused \in Nat /\ call[t].refused <= received
  BY <1>1 DEF Call, Known
<1> HIDE DEF g
<1>8. Known(c)'
  BY <1>2, <1>3, <1>4, <1>6, <1>7 DEF Known
<1>9. /\ received <= received' /\ received < received' /\ token' <= received' /\ token' = received'
      /\ c.pc \in {"idle", "sent", "backoff"} /\ call[t].pc \in {"token", "issue"}
  BY <1>1, <1>2, <1>3, <1>4, <1>6
<1> QED BY <1>1, <1>3, <1>5, <1>6, <1>8, <1>9, LeavesKeeps

\* A call of which nothing is left: it comes from an answer, or from the token lock.
LEMMA BlankBecomes ==
  ASSUME NEW t \in Tasks, NEW c, Blank(c), call' = [call EXCEPT ![t] = c],
         t = Renewal => c.pc = "idle"
  PROVE  Becomes(t, c)
  BY DEF Blank, Becomes

\* NotIssued keeps the invariant: what the renewal puts back is marked.
LEMMA NotIssuedKeeps ==
  ASSUME ClientInv, NEW t \in Tasks, NotIssued(t) PROVE ClientInv'
<1>1. /\ call[t] \in Call /\ Known(call[t]) /\ call[t].pc = "issue"
      /\ keepers # <<>> /\ keepers[1] = t
  BY DEF ClientInv, NotIssued, QueueOf
<1>2. UNCHANGED <<pacers, since, received, issued, good>>
  BY DEF NotIssued, limiter, kis
<1>3. CASE /\ call[t].asked + 1 < TokenTries
           /\ call' = [call EXCEPT ![t].asked = @ + 1, ![t].granted = 0]
           /\ UNCHANGED <<token, over, keepers, putBack>>
  <2>1. PICK n : n = call[t].asked + 1
    OBVIOUS
  <2>2. PICK c : c = [call[t] EXCEPT !.asked = n, !.granted = 0]
    OBVIOUS
  <2>3. n \in 0 .. TokenTries - 1 /\ 0 \in 0 .. MaxTokens
    BY <1>1, <1>3, <2>1, ClientAssumption DEF Call
  <2>4. c \in Call
    BY <1>1, <2>2, <2>3 DEF Call
  <2>5. /\ c.pc = "issue" /\ c.token = call[t].token /\ c.refused = call[t].refused
        /\ c.granted = 0
    BY <1>1, <2>2 DEF Call
  <2>6. t = Renewal => c.refused = 0
    BY <2>5 DEF ClientInv, RenewalAsks
  <2>7. call' = [call EXCEPT ![t] = c]
    BY <1>3, <2>1, <2>2
  <2>8. Becomes(t, c)
    BY <2>4, <2>5, <2>6, <2>7 DEF Becomes
  <2>9. Globals'
    BY <1>2, <1>3 DEF ClientInv, Globals
  <2>10. Known(c)'
    BY <1>1, <1>2, <1>3, <2>5 DEF Known, ClientInv, Globals
  <2>11. QueueOf(pacers, call, Pacing, "nap")' /\ QueueOf(keepers, call, Keeping, "issue")'
    BY <1>1, <1>2, <1>3, <2>5, <2>8, QueuesStay DEF Pacing, Keeping
  <2> QED BY <1>2, <1>3, <2>8, <2>9, <2>10, <2>11, PlainKeeps
<1>4. ASSUME NEW c, Blank(c), call' = [call EXCEPT ![t] = c], t = Renewal => c.pc = "idle",
             Leaves,
             \/ UNCHANGED <<token, over, putBack>>
             \/ token' = call[t].token /\ over' \in BOOLEAN /\ putBack' = TRUE
      PROVE  ClientInv'
  <2>1. Becomes(t, c) /\ c.pc \in {"idle", "sent", "backoff"}
    BY <1>4, BlankBecomes DEF Blank
  <2>2. call[t].token \in 0 .. MaxTokens /\ call[t].token <= received
    BY <1>1 DEF Call, Known
  <2>3. Globals'
    BY <1>2, <1>4, <2>2 DEF ClientInv, Globals
  <2>4. Known(c)'
    BY <1>4, <2>3, BlankKnows
  <2>5. received <= received' /\ token' <= received'
    BY <1>2, <1>4, <2>2 DEF ClientInv, Globals
  <2>6. token' # 0 /\ putBack' = FALSE => token' = received'
    BY <1>2, <1>4 DEF ClientInv
  <2> QED BY <1>1, <1>2, <1>4, <2>1, <2>3, <2>4, <2>5, <2>6, LeavesKeeps
<1>5. CASE t # Renewal /\ Leaves /\ Fails(t) /\ UNCHANGED <<token, over, putBack>>
  <2>1. PICK c \in {Retried(t), NoCall} : call' = [call EXCEPT ![t] = c]
    BY <1>5 DEF Fails
  <2> QED BY <1>4, <1>5, <2>1, Blanks
<1>6. CASE t = Renewal /\ Leaves /\ PutsBack(t) /\ call' = [call EXCEPT ![t] = NoCall]
  <2>1. NoCall.pc = "idle"
    BY DEF NoCall
  <2>2. \/ UNCHANGED <<token, over, putBack>>
        \/ token' = call[t].token /\ over' \in BOOLEAN /\ putBack' = TRUE
    BY <1>6 DEF PutsBack
  <2> QED BY <1>4, <1>6, <2>1, <2>2, Blanks
<1> QED BY <1>3, <1>5, <1>6 DEF NotIssued

\* Without a token the invariant asks nothing of it.
LEMMA Forgotten ==
  ASSUME ClientInv, NoToken, UNCHANGED <<since, received, issued, good>>
  PROVE  /\ Globals'
         /\ token' = 0 /\ putBack' = FALSE
         /\ received <= received' /\ issued <= issued' /\ token' <= received'
<1>1. token' = 0 /\ over' = FALSE /\ putBack' = FALSE
  BY DEF NoToken
<1>2. over' \in BOOLEAN /\ putBack' \in BOOLEAN
  BY <1>1
<1>3. token' \in 0 .. MaxTokens
  BY <1>1, ClientAssumption
<1>4. Globals'
  BY <1>2, <1>3 DEF ClientInv, Globals
<1>5. received \in Nat /\ issued \in Nat
  BY DEF ClientInv, Globals
<1>6. received <= received' /\ issued <= issued' /\ token' <= received'
  BY <1>1, <1>5
<1> QED BY <1>1, <1>4, <1>6

\* Renews keeps the invariant.
LEMMA RenewsKeeps == ASSUME ClientInv, Renews PROVE ClientInv'
<1>1. /\ Renewal \in Tasks
      /\ call[Renewal] \in Call /\ Known(call[Renewal]) /\ call[Renewal].pc = "idle"
      /\ call[Renewal].refused = 0
  BY DEF ClientInv, RenewalAsks, Renews, Tasks
<1>2. /\ keepers' = Append(keepers, Renewal) /\ NoToken
      /\ UNCHANGED <<pacers, since, received, issued, good>>
  BY DEF Renews, limiter, kis
<1>3. PICK c : c = [call[Renewal] EXCEPT !.pc = "token", !.token = token]
  OBVIOUS
<1>4. token \in 0 .. MaxTokens /\ token <= received
  BY DEF ClientInv, Globals
<1>5. /\ c \in Call /\ c.pc = "token" /\ c.token = token /\ c.refused = 0
      /\ c.granted = call[Renewal].granted
  BY <1>1, <1>3, <1>4 DEF Call, Places
<1>6. Becomes(Renewal, c)
  BY <1>3, <1>5 DEF Becomes, Renews
<1>7. /\ call'[Renewal] = c /\ \A u \in Tasks \ {Renewal} : call'[u] = call[u]
  BY <1>1, <1>6, BecomesCalls
<1>8. QueueOf(Append(keepers, Renewal), call', Keeping, "issue")
  BY <1>1, <1>5, <1>7, Joins DEF ClientInv, Keeping
<1>9. QueueOf(pacers, call', Pacing, "nap")
  BY <1>1, <1>5, <1>7, StaysInLine DEF ClientInv, Pacing
<1>10. QueueOf(pacers, call, Pacing, "nap")' /\ QueueOf(keepers, call, Keeping, "issue")'
  BY <1>2, <1>8, <1>9 DEF QueueOf
<1>11. Known(c)'
  BY <1>1, <1>2, <1>4, <1>5 DEF Known
<1> QED BY <1>1, <1>2, <1>6, <1>10, <1>11, Forgotten, CallKeeps

-------------------------------------------------------------------------------
(* KisClient: answers, KIS and the clock *)

\* A call that was sent and is over, or backs off, keeps the invariant.
LEMMA OverKeeps ==
  ASSUME ClientInv, NEW t \in Tasks, call[t].pc = "sent",
         NEW c \in {Retried(t), NoCall}, call' = [call EXCEPT ![t] = c],
         UNCHANGED <<pacers, keepers, since, received, issued, good>>,
         NoToken \/ UNCHANGED <<token, over, putBack>>
  PROVE  ClientInv'
<1>1. Blank(c)
  BY Blanks
<1>2. t # Renewal
  BY DEF ClientInv, RenewalAsks
<1>3. Becomes(t, c) /\ c.pc \in {"idle", "backoff"}
  BY <1>1, <1>2, BlankBecomes DEF Blank
<1>4. QueueOf(pacers, call, Pacing, "nap")' /\ QueueOf(keepers, call, Keeping, "issue")'
  BY <1>3, QueuesStay DEF Pacing, Keeping
<1>5. CASE NoToken
  <2>1. Known(c)'
    BY <1>1, <1>5, Forgotten, BlankKnows
  <2> QED BY <1>3, <1>4, <1>5, <2>1, Forgotten, CallKeeps
<1>6. CASE UNCHANGED <<token, over, putBack>>
  <2>1. Globals'
    BY <1>6 DEF ClientInv, Globals
  <2>2. Known(c)'
    BY <1>1, <2>1, BlankKnows
  <2> QED BY <1>3, <1>4, <1>6, <2>1, <2>2, PlainKeeps
<1> QED BY <1>5, <1>6

\* Answered, Limited, Errs and ForgetsExpired keep the invariant.
LEMMA AnswersKeep ==
  ASSUME ClientInv, NEW t \in Tasks,
         \/ Answered(t) \/ Limited(t) \/ Errs(t) \/ ForgetsExpired(t)
  PROVE  ClientInv'
<1>1. /\ call[t].pc = "sent"
      /\ \E c \in {Retried(t), NoCall} : call' = [call EXCEPT ![t] = c]
  BY DEF Answered, Limited, Errs, ForgetsExpired, Fails
<1>2. UNCHANGED <<pacers, keepers, since, received, issued, good>>
  BY DEF Answered, Limited, Errs, ForgetsExpired, limiter, tokens, kis
<1>3. NoToken \/ UNCHANGED <<token, over, putBack>>
  BY DEF Answered, Limited, Errs, ForgetsExpired, tokens
<1> QED BY <1>1, <1>2, <1>3, OverKeeps

\* Unauthorized keeps the invariant.
LEMMA UnauthorizedKeeps ==
  ASSUME ClientInv, NEW t \in Tasks, Unauthorized(t) PROVE ClientInv'
<1>1. /\ call[t] \in Call /\ Known(call[t]) /\ call[t].pc = "sent" /\ t # Renewal
  BY DEF ClientInv, RenewalAsks, Unauthorized
<1>2. /\ keepers' = Append(keepers, t)
      /\ UNCHANGED <<pacers, since, token, over, received, putBack, issued, good>>
  BY DEF Unauthorized, limiter, kis
<1>3. PICK c : c = [call[t] EXCEPT !.pc = "forget", !.refused = call[t].token, !.token = 0]
  OBVIOUS
<1>4. 0 \in 0 .. MaxTokens /\ call[t].token \in 0 .. MaxTokens /\ 0 <= received
  BY <1>1, ClientAssumption DEF Call, ClientInv, Globals
<1>5. c \in Call
  BY <1>1, <1>3, <1>4 DEF Call, Places
<1>6. /\ c.pc = "forget" /\ c.token = 0 /\ c.refused = call[t].token
      /\ c.granted = call[t].granted
  BY <1>1, <1>3 DEF Call
<1>7. Becomes(t, c)
  BY <1>1, <1>3, <1>5 DEF Becomes, Unauthorized
<1>8. /\ call'[t] = c /\ \A u \in Tasks \ {t} : call'[u] = call[u]
  BY <1>7, BecomesCalls
<1>9. QueueOf(Append(keepers, t), call', Keeping, "issue")
  BY <1>1, <1>6, <1>8, Joins DEF ClientInv, Keeping
<1>10. QueueOf(pacers, call', Pacing, "nap")
  BY <1>1, <1>6, <1>8, StaysInLine DEF ClientInv, Pacing
<1>11. QueueOf(pacers, call, Pacing, "nap")' /\ QueueOf(keepers, call, Keeping, "issue")'
  BY <1>2, <1>9, <1>10 DEF QueueOf
<1>12. Globals'
  BY <1>2 DEF ClientInv, Globals
<1>13. Known(c)'
  BY <1>1, <1>2, <1>4, <1>6 DEF Known
<1> QED BY <1>2, <1>7, <1>11, <1>12, <1>13, PlainKeeps

\* Forgets keeps the invariant: the call leaves the queue and joins it again.
LEMMA ForgetsKeeps ==
  ASSUME ClientInv, NEW t \in Tasks, Forgets(t) PROVE ClientInv'
<1>1. /\ call[t] \in Call /\ Known(call[t]) /\ call[t].pc = "forget" /\ t # Renewal
      /\ keepers # <<>> /\ keepers[1] = t
  BY DEF ClientInv, RenewalAsks, Forgets, Turn
<1>2. /\ keepers' = Append(Tail(keepers), t) /\ NoToken
      /\ UNCHANGED <<pacers, since, received, issued, good>>
  BY DEF Forgets, limiter, kis
<1>3. PICK c : c = [call[t] EXCEPT !.pc = "token"]
  OBVIOUS
<1>4. /\ c \in Call /\ c.pc = "token" /\ c.token = call[t].token /\ c.refused = call[t].refused
      /\ c.granted = call[t].granted
  BY <1>1, <1>3 DEF Call, Places
<1>5. Becomes(t, c)
  BY <1>1, <1>3, <1>4 DEF Becomes, Forgets
<1>6. /\ call'[t] = c /\ \A u \in Tasks \ {t} : call'[u] = call[u]
  BY <1>5, BecomesCalls
<1>7. PICK d : d = [call EXCEPT ![t] = NoCall]
  OBVIOUS
<1>8. d[t].pc = "idle" /\ \A u \in Tasks \ {t} : d[u] = call[u]
  BY <1>7 DEF ClientInv, NoCall
<1>9. QueueOf(Tail(keepers), d, Keeping, "issue")
  BY <1>1, <1>8, GivesBack DEF ClientInv
<1>10. QueueOf(Append(Tail(keepers), t), call', Keeping, "issue")
  BY <1>4, <1>6, <1>8, <1>9, Joins DEF Keeping
<1>11. QueueOf(pacers, call', Pacing, "nap")
  BY <1>1, <1>4, <1>6, StaysInLine DEF ClientInv, Pacing
<1>12. QueueOf(pacers, call, Pacing, "nap")' /\ QueueOf(keepers, call, Keeping, "issue")'
  BY <1>2, <1>10, <1>11 DEF QueueOf
<1>13. Known(c)'
  BY <1>1, <1>2, <1>4, Forgotten DEF Known
<1> QED BY <1>2, <1>5, <1>12, <1>13, Forgotten, CallKeeps

\* Revokes and Expires keep the invariant, and so does no step at all.
LEMMA NobodyMoves ==
  ASSUME ClientInv, Globals', UNCHANGED <<call, pacers, keepers, since, token, issued, received, putBack>>
  PROVE  ClientInv'
  BY DEF ClientInv, RenewalAsks, QueueOf, Known

-------------------------------------------------------------------------------
(* KisClient: the theorems *)

\* The initial states satisfy the invariant.
LEMMA ClientInit == Init => ClientInv
<1> SUFFICES ASSUME Init PROVE ClientInv
  OBVIOUS
<1>1. /\ Retries \in Nat \ {0} /\ TokenTries \in Nat \ {0} /\ MaxPace \in Nat /\ MaxTokens \in Nat
      /\ Renewal \in Tasks
  BY ClientAssumption DEF Tasks
<1>2. NoCall \in Call
  BY <1>1 DEF NoCall, Call, Places
<1>3. call \in [Tasks -> Call] /\ \A t \in Tasks : call[t] = NoCall
  BY <1>2 DEF Init
<1>4. Globals
  <2>1. over \in BOOLEAN /\ putBack \in BOOLEAN
    BY DEF Init
  <2>2. since \in 0 .. MaxPace /\ token \in 0 .. MaxTokens /\ issued \in 0 .. MaxTokens
    BY <1>1 DEF Init
  <2>3. received \in 0 .. issued /\ good \subseteq 1 .. issued
    BY DEF Init
  <2> QED BY <2>1, <2>2, <2>3 DEF Globals
<1>5. QueueOf(<<>>, call, Pacing, "nap") /\ QueueOf(<<>>, call, Keeping, "issue")
  BY <1>3 DEF QueueOf, NoCall
<1>6. \A t \in Tasks : Known(call[t])
  BY <1>3 DEF Known, NoCall, Init
<1>7. RenewalAsks
  BY <1>1, <1>3 DEF RenewalAsks, NoCall
<1> QED BY <1>3, <1>4, <1>5, <1>6, <1>7 DEF ClientInv, Init

\* Every step keeps it.
LEMMA ClientNext == ClientInv /\ [Next]_vars => ClientInv'
<1> SUFFICES ASSUME ClientInv, [Next]_vars PROVE ClientInv'
  OBVIOUS
<1>1. ASSUME NEW t \in Tasks, Continues(t) PROVE ClientInv'
  BY <1>1, BeginsKeeps, PacesKeeps, PassesKeeps, LocksKeeps, IssuedKeeps, NotIssuedKeeps, AnswersKeep,
     UnauthorizedKeeps, ForgetsKeeps
     DEF Continues, Gets, Answers
<1>2. ASSUME NEW g \in Tokens, Revokes(g) PROVE ClientInv'
  <2>1. UNCHANGED <<call, pacers, keepers, since, token, over, issued, received, putBack>>
    BY <1>2 DEF Revokes, limiter, tokens
  <2>2. Globals'
    BY <1>2, <2>1 DEF Revokes, ClientInv, Globals
  <2> QED BY <2>1, <2>2, NobodyMoves
<1>3. CASE Expires
  <2>1. UNCHANGED <<call, pacers, keepers, since, token, issued, good, received, putBack>>
    BY <1>3 DEF Expires, limiter, kis
  <2>2. Globals'
    BY <1>3, <2>1 DEF Expires, ClientInv, Globals
  <2> QED BY <2>1, <2>2, NobodyMoves
<1>4. CASE UNCHANGED vars
  <2>1. UNCHANGED <<call, pacers, keepers, since, token, over, issued, good, received, putBack>>
    BY <1>4 DEF vars
  <2>2. Globals'
    BY <2>1 DEF ClientInv, Globals
  <2> QED BY <2>1, <2>2, NobodyMoves
<1> QED BY <1>1, <1>2, <1>3, <1>4, BeginsKeeps, GrantsKeeps, RenewsKeeps, StepsKeeps DEF Next

\* The inductive invariant of the client holds for any callers, delays, attempts and
\* number of tokens.
THEOREM ClientInvariance == Spec => []ClientInv
<1>1. Init => ClientInv
  BY ClientInit
<1>2. ClientInv /\ [Next]_vars => ClientInv'
  BY ClientNext
<1> QED BY <1>1, <1>2, PTL DEF Spec

\* The variables of the client have their types; no task is in a lock's queue twice.
THEOREM ClientTypes == Spec => []TypeOK
<1>1. ClientInv => TypeOK
  BY ClientTyped
<1> QED BY <1>1, ClientInvariance, PTL

\* The token in place is the newest that KIS has given, unless the renewal has put an
\* older one back, whatever 401s and re-issues cross.
THEOREM NewestInPlace == Spec => []NewestToken
<1>1. ClientInv => NewestToken
  BY DEF ClientInv, Globals, NewestToken
<1> QED BY <1>1, ClientInvariance, PTL

-------------------------------------------------------------------------------
(* KisClient: the action properties *)

\* A task moves its own call only.
LEMMA OthersStay ==
  ASSUME ClientInv, NEW u \in Tasks, NEW t \in Tasks \ {u},
         Begins(u) \/ Continues(u) \/ Grants(u)
  PROVE  call'[t] = call[t]
<1>1. CASE Begins(u) \/ Grants(u) \/ Paces(u) \/ Passes(u)
  BY <1>1 DEF ClientInv, Begins, Grants, Paces, Passes
<1>2. CASE Locks(u) \/ Issued(u)
  BY <1>2 DEF ClientInv, Locks, Issued, Sent
<1>3. CASE NotIssued(u)
  BY <1>3 DEF ClientInv, NotIssued, Fails
<1>4. CASE Answers(u) \/ Forgets(u)
  BY <1>4 DEF ClientInv, Answers, Answered, Limited, Errs, Fails, Unauthorized,
              ForgetsExpired, Forgets
<1> QED BY <1>1, <1>2, <1>3, <1>4 DEF Continues, Gets

\* Neither do the renewal's start, time, or KIS move the call of a caller.
LEMMA PlacesStay ==
  ASSUME ClientInv, NEW t \in Callers,
         \/ Renews \/ Steps \/ Expires \/ UNCHANGED vars
         \/ \E g \in Tokens : Revokes(g)
  PROVE  call'[t].pc = call[t].pc
<1>1. t \in Tasks /\ t # Renewal
  BY ClientAssumption DEF Tasks
<1>2. CASE Steps
  <2>1. call'[t] = [call[t] EXCEPT !.nap = Greatest(@, 1) - 1]
    BY <1>1, <1>2 DEF Steps
  <2>2. call[t] \in Call
    BY <1>1 DEF ClientInv
  <2> QED BY <2>1, <2>2 DEF Call
<1>3. CASE Renews
  BY <1>1, <1>3 DEF ClientInv, Renews
<1>4. CASE Expires \/ UNCHANGED vars \/ \E g \in Tokens : Revokes(g)
  BY <1>4 DEF Expires, vars, Revokes
<1> QED BY <1>2, <1>3, <1>4

\* Who wakes up has the limiter's delay behind the last that passed.
LEMMA WakesLate ==
  ASSUME ClientInv, [Next]_vars,
         NEW t \in Callers, call[t].pc = "nap", call'[t].pc # "nap"
  PROVE  since >= Pace
<1>1. t \in Tasks /\ call[t] \in Call /\ Known(call[t])
  BY DEF ClientInv, Tasks
<1>2. PICK u \in Tasks : Begins(u) \/ Continues(u) \/ Grants(u)
  BY PlacesStay DEF Next
<1>3. u = t
  BY <1>1, <1>2, OthersStay
<1>4. Passes(t)
  BY <1>2, <1>3 DEF Begins, Grants, Continues, Paces, Gets, Locks, Issued, NotIssued,
     Answers, Answered, Limited, Errs, Unauthorized, ForgetsExpired, Forgets
<1>5. call[t].nap = 0
  BY <1>4 DEF Passes
<1>6. Pace <= since + call[t].nap
  BY <1>1 DEF Known
<1> QED BY <1>5, <1>6, ClientAssumption DEF ClientInv, Globals

\* What is sent after a 401 goes with a newer token than the one refused, unless an old
\* one was put back.
LEMMA SentAgain ==
  ASSUME ClientInv, [Next]_vars,
         NEW t \in Callers, call[t].pc # "sent", call'[t].pc = "sent", call'[t].refused # 0
  PROVE  call'[t].token > call'[t].refused \/ putBack
<1>1. t \in Tasks /\ t # Renewal /\ call[t] \in Call /\ Known(call[t])
  BY ClientAssumption DEF ClientInv, Tasks
<1>2. PICK u \in Tasks : Begins(u) \/ Continues(u) \/ Grants(u)
  BY PlacesStay DEF Next
<1>3. u = t
  BY <1>1, <1>2, OthersStay
<1>4. /\ call[t].refused \in Nat /\ call[t].granted \in Nat /\ token \in Nat /\ received \in Nat
      /\ call[t].refused <= received
  BY <1>1 DEF Call, Known, ClientInv, Globals
<1>5. CASE Passes(t)
  <2>1. call[t].refused = 0
    BY <1>1, <1>5 DEF Known, Passes
  <2>2. call'[t].refused = call[t].refused
    BY <1>1, <1>5 DEF ClientInv, Passes, Call
  <2> QED BY <2>1, <2>2
<1>6. CASE Locks(t)
  <2>1. call[t].pc = "token"
    BY <1>6 DEF Locks
  <2>2. TokenIsValid /\ Sent(t, token)
    BY <1>1, <1>6, <2>1 DEF Locks, ClientInv, Call
  <2>3. token # 0 /\ token \in 0 .. MaxTokens
    BY <2>2 DEF TokenIsValid, ClientInv, Globals
  <2>4. PICK c : Becomes(t, c) /\ c.refused = call[t].refused /\ (c.pc = "sent" => c.token = token)
    BY <2>1, <2>2, <2>3, <1>1, SentCall
  <2>5. call'[t].token = token /\ call'[t].refused = call[t].refused
    BY <1>1, <2>4, BecomesCalls
  <2>6. token = 0 \/ putBack = TRUE \/ call[t].refused < received
    BY <1>1, <2>1, <2>5 DEF Known
  <2>7. putBack = FALSE => token = received
    BY <2>3 DEF ClientInv
  <2>8. putBack = TRUE \/ putBack = FALSE
    BY DEF ClientInv, Globals
  <2>9. CASE putBack = FALSE
    BY <1>4, <2>3, <2>5, <2>6, <2>7, <2>9
  <2> QED BY <2>8, <2>9
<1>7. CASE Issued(t)
  <2> DEFINE g == call[t].granted
  <2>1. call[t].pc = "issue" /\ g # 0 /\ Sent(t, g)
    BY <1>7 DEF Issued
  <2>2. g \in 0 .. MaxTokens /\ received < g
    BY <1>1, <2>1 DEF Call, Known
  <2>3. PICK c : Becomes(t, c) /\ c.refused = call[t].refused /\ (c.pc = "sent" => c.token = g)
    BY <2>1, <2>2, <1>1, SentCall
  <2>4. call'[t].token = g /\ call'[t].refused = call[t].refused
    BY <1>1, <2>3, BecomesCalls
  <2> QED BY <1>4, <2>2, <2>4
<1>8. ~Begins(t) /\ ~Grants(t) /\ ~Paces(t) /\ ~Forgets(t) /\ ~Answers(t)
  BY <1>1 DEF ClientInv, Call, Begins, Grants, Paces, Forgets, Answers, Answered,
     Limited, Errs, Unauthorized, ForgetsExpired
<1>9. ~NotIssued(t)
  <2> SUFFICES ASSUME NotIssued(t) PROVE FALSE
    OBVIOUS
  <2>1. ASSUME call' = [call EXCEPT ![t].asked = @ + 1, ![t].granted = 0] PROVE FALSE
    BY <1>1, <2>1 DEF ClientInv, Call
  <2>2. ASSUME Fails(t) \/ call' = [call EXCEPT ![t] = NoCall] PROVE FALSE
    <3>1. PICK c \in {Retried(t), NoCall} : call' = [call EXCEPT ![t] = c]
      BY <2>2 DEF Fails
    <3>2. c.pc # "sent"
      BY Blanks, <1>1 DEF Blank
    <3> QED BY <1>1, <3>1, <3>2 DEF ClientInv
  <2> QED BY <2>1, <2>2 DEF NotIssued
<1> QED BY <1>2, <1>3, <1>5, <1>6, <1>7, <1>8, <1>9 DEF Continues, Gets

\* Calls pass the limiter one delay apart at least, however many of them wait: an action
\* property, of every step.
THEOREM CallsPaced == Spec => Paced
<1>1. ClientInv /\ [Next]_vars =>
        [\A t \in Callers : call[t].pc = "nap" /\ call'[t].pc # "nap" => since >= Pace]_(vars)
  BY WakesLate
<1> QED BY <1>1, ClientInvariance, PTL DEF Spec, Paced

\* A request that was refused with 401 is sent again with a newer token, unless the renewal
\* has put the refused one back in between: an action property, of every step.
THEOREM NewerResent == Spec => ResentWithNewer
<1>1. ClientInv /\ [Next]_vars =>
        [\A t \in Callers :
           call[t].pc # "sent" /\ call'[t].pc = "sent" /\ call'[t].refused # 0 =>
             call'[t].token > call'[t].refused \/ putBack]_call
  BY SentAgain
<1> QED BY <1>1, ClientInvariance, PTL DEF Spec, ResentWithNewer

-------------------------------------------------------------------------------
(* KisClient: a call winds down *)

\* How far the attempt of a call has got. A token refused puts the call behind where it
\* was sent from, to be sent once more.
Base(c) == MaxPace + 3 + (IF c.refused = 0 THEN 0 ELSE 2 * TokenTries + 3)

Stage(c) ==
  CASE c.pc = "backoff" -> 0
    [] c.pc = "pace"    -> 1
    [] c.pc = "nap"     -> 2 + (MaxPace - c.nap)
    [] c.pc = "token"   -> Base(c)
    [] c.pc = "issue"   -> Base(c) + 1 + 2 * c.asked + (IF c.granted = 0 THEN 0 ELSE 1)
    [] c.pc = "sent"    -> Base(c) + 2 * TokenTries + 1
    [] OTHER            -> MaxPace + 2 * TokenTries + 5   \* to forget the token refused

LastStage == MaxPace + 4 * TokenTries + 7

\* Call d is further than c: in a later attempt, or in a later stage of the same.
Further(c, d) == c.tries < d.tries \/ (c.tries = d.tries /\ Stage(c) < Stage(d))

\* A call that has begun only gets further, whatever moves it, until it is over. With
\* Retries attempts of LastStage + 1 stages each, it moves that many times at most.
CallsWindDown ==
  [][\A t \in Tasks :
       call[t].pc # "idle" /\ call'[t].pc # "idle" /\ call'[t] # call[t] =>
         Further(call[t], call'[t])]_vars

\* What is sent goes with a token, only a token refused is forgotten, and only the
\* limiter's sleep takes time.
Settled(c) ==
  /\ c.pc = "sent" => c.token # 0
  /\ c.pc = "forget" => c.refused # 0
  /\ c.pc # "nap" => c.nap = 0

AllSettled == \A t \in Tasks : Settled(call[t])

\* The counts of a call are numbers within their bounds.
LEMMA Counts ==
  ASSUME NEW c \in Call
  PROVE  /\ c.pc \in Places /\ c.tries \in Nat
         /\ c.asked \in Nat /\ c.asked + 1 <= TokenTries
         /\ c.nap \in Nat /\ c.nap <= MaxPace
         /\ c.granted \in Nat /\ c.token \in Nat /\ c.refused \in Nat
         /\ MaxPace \in Nat /\ MaxPace >= 1 /\ TokenTries \in Nat /\ TokenTries >= 1
         /\ Retries \in Nat /\ c.tries + 1 <= Retries
<1>1. Retries \in Nat \ {0} /\ TokenTries \in Nat \ {0} /\ MaxPace \in Nat \ {0}
  BY ClientAssumption
<1> QED BY <1>1 DEF Call

\* A stage is a number up to the last.
LEMMA StageBounds ==
  ASSUME NEW c \in Call PROVE Stage(c) \in 0 .. LastStage
<1>1. /\ c.asked \in Nat /\ c.asked + 1 <= TokenTries /\ c.nap \in Nat /\ c.nap <= MaxPace
      /\ MaxPace \in Nat /\ TokenTries \in Nat /\ TokenTries >= 1
  BY Counts
<1>2. Base(c) \in Nat /\ Base(c) <= MaxPace + 2 * TokenTries + 6
  BY <1>1 DEF Base
<1> QED BY <1>1, <1>2 DEF Stage, LastStage

\* A call that is as it was, but in a place of a later stage, is further.
LEMMA GoesOn ==
  ASSUME NEW c \in Call, NEW d \in Call, c.tries = d.tries,
         \/ c.pc = "backoff" /\ d.pc = "pace"
         \/ c.pc = "pace" /\ d.pc = "nap"
         \/ c.pc = "nap" /\ d.pc = "nap" /\ d.nap < c.nap
         \/ c.pc = "nap" /\ d.pc \in {"token", "sent"}
         \/ c.pc = "token" /\ d.pc \in {"issue", "sent"} /\ d.refused = c.refused
         \/ c.pc = "issue" /\ d.pc = "issue" /\ d.refused = c.refused
              /\ \/ d.asked = c.asked + 1
                 \/ d.asked = c.asked /\ c.granted = 0 /\ d.granted # 0
         \/ c.pc = "issue" /\ d.pc = "sent" /\ d.refused = c.refused
         \/ c.pc = "sent" /\ d.pc = "forget" /\ c.refused = 0
         \/ c.pc = "forget" /\ d.pc = "token" /\ d.refused # 0
  PROVE  Further(c, d)
<1>1. /\ c.asked \in Nat /\ c.asked + 1 <= TokenTries /\ c.nap \in Nat /\ c.nap <= MaxPace
      /\ d.asked \in Nat /\ d.asked + 1 <= TokenTries /\ d.nap \in Nat /\ d.nap <= MaxPace
      /\ MaxPace \in Nat /\ TokenTries \in Nat /\ TokenTries >= 1
  BY Counts
<1>2. Base(c) \in Nat /\ Base(d) \in Nat /\ Base(c) >= MaxPace + 3 /\ Base(d) >= MaxPace + 3
  BY <1>1 DEF Base
<1>3. c.refused = d.refused => Base(c) = Base(d)
  BY DEF Base
<1>4. c.refused = 0 => Base(c) = MaxPace + 3
  BY <1>1 DEF Base
<1>5. d.refused # 0 => Base(d) = MaxPace + 2 * TokenTries + 6
  BY <1>1 DEF Base
<1>6. Stage(c) < Stage(d)
  BY <1>1, <1>2, <1>3, <1>4, <1>5 DEF Stage
<1> QED BY <1>6 DEF Further

\* A step of a call leaves it settled and, when it goes on, further.
WindsDown(c, d) == Settled(d) /\ (c.pc # "idle" /\ d.pc # "idle" /\ d # c => Further(c, d))

\* An error ends the call or begins its next attempt.
LEMMA FailedWindsDown ==
  ASSUME ClientInv, NEW t \in Tasks
  PROVE  WindsDown(call[t], Retried(t)) /\ WindsDown(call[t], NoCall)
<1>1. call[t] \in Call /\ call[t].tries \in Nat
  BY Counts DEF ClientInv
<1>2. WindsDown(call[t], NoCall)
  BY DEF WindsDown, Settled, NoCall
<1>3. ASSUME call[t].tries + 1 < Retries PROVE WindsDown(call[t], Retried(t))
  <2>1. PICK c : c = [NoCall EXCEPT !.pc = "backoff", !.tries = call[t].tries + 1]
    OBVIOUS
  <2>2. c = Retried(t)
    BY <1>3, <2>1 DEF Retried
  <2>3. c.pc = "backoff" /\ c.nap = 0 /\ c.tries = call[t].tries + 1
    BY <2>1 DEF NoCall
  <2> QED BY <1>1, <2>2, <2>3 DEF WindsDown, Settled, Further
<1>4. ~(call[t].tries + 1 < Retries) => WindsDown(call[t], Retried(t))
  BY <1>2 DEF Retried
<1> QED BY <1>2, <1>3, <1>4

\* get_token's request goes out, further than the call was.
LEMMA SentWindsDown ==
  ASSUME ClientInv, NEW t \in Tasks, NEW g \in 1 .. MaxTokens, Settled(call[t]),
         call[t].pc \in {"token", "issue"}, Sent(t, g)
  PROVE  WindsDown(call[t], call'[t])
<1>1. call[t] \in Call
  BY DEF ClientInv
<1>2. PICK place \in {"idle", "sent"} : place = IF t = Renewal THEN "idle" ELSE "sent"
  OBVIOUS
<1>3. PICK h \in {0, g} : h = IF t = Renewal THEN 0 ELSE g
  OBVIOUS
<1>4. PICK c : c = [call[t] EXCEPT !.pc = place, !.token = h, !.asked = 0, !.granted = 0]
  OBVIOUS
<1>5. 0 \in 0 .. TokenTries - 1 /\ 0 \in 0 .. MaxTokens /\ h \in 0 .. MaxTokens /\ place \in Places
  BY <1>2, <1>3, ClientAssumption DEF Places
<1>6. c \in Call
  BY <1>1, <1>4, <1>5 DEF Call
<1>7. /\ c.pc = place /\ c.token = h /\ c.nap = call[t].nap
      /\ c.tries = call[t].tries /\ c.refused = call[t].refused
  BY <1>1, <1>4 DEF Call
<1>8. call'[t] = c
  BY <1>2, <1>3, <1>4 DEF Sent, ClientInv
<1>9. Settled(c)
  BY <1>2, <1>3, <1>7 DEF Settled
<1>10. c.pc # "idle" => Further(call[t], c)
  BY <1>1, <1>2, <1>6, <1>7, GoesOn
<1> QED BY <1>8, <1>9, <1>10 DEF WindsDown

\* Every step that a task takes.
LEMMA StepWindsDown ==
  ASSUME ClientInv, ClientInv', NEW t \in Tasks, Settled(call[t]),
         Begins(t) \/ Continues(t) \/ Grants(t)
  PROVE  WindsDown(call[t], call'[t])
<1> DEFINE c == call[t]
           d == call'[t]
<1>1. c \in Call /\ d \in Call
  BY DEF ClientInv
<1>2. c.nap \in Nat /\ c.granted \in Nat /\ c.asked \in Nat
  BY <1>1, Counts
<1>3. CASE Begins(t)
  <2>1. d.pc = "pace" /\ d.tries = c.tries /\ d.nap = c.nap /\ c.pc \in {"idle", "backoff"}
    BY <1>1, <1>3 DEF Begins, Call, ClientInv
  <2>2. c.pc = "backoff" => Further(c, d)
    BY <1>1, <2>1, GoesOn
  <2> QED BY <2>1, <2>2 DEF WindsDown, Settled
<1>4. CASE Paces(t)
  <2>1. d.pc = "nap" /\ d.tries = c.tries /\ c.pc = "pace"
    BY <1>1, <1>4 DEF Paces, Call, ClientInv
  <2>2. Further(c, d)
    BY <1>1, <2>1, GoesOn
  <2> QED BY <2>1, <2>2 DEF WindsDown, Settled
<1>5. CASE Passes(t)
  <2>1. c.pc = "nap" /\ c.nap = 0
    BY <1>5 DEF Passes
  <2>2. /\ d.pc \in {"token", "sent"} /\ d.tries = c.tries /\ d.nap = c.nap
        /\ d.pc = "sent" => d.token # 0
    BY <1>1, <1>5 DEF Passes, Call, ClientInv, TokenIsValid
  <2>3. Further(c, d)
    BY <1>1, <2>1, <2>2, GoesOn
  <2> QED BY <2>1, <2>2, <2>3 DEF WindsDown, Settled
<1>6. CASE Locks(t)
  <2>1. c.pc = "token"
    BY <1>6 DEF Locks
  <2>2. CASE TokenIsValid
    <3>1. token \in 1 .. MaxTokens
      BY <2>2 DEF TokenIsValid, ClientInv, Globals
    <3> QED BY <1>6, <2>1, <2>2, <3>1, SentWindsDown DEF Locks
  <2>3. CASE ~TokenIsValid
    <3>1. d.pc = "issue" /\ d.tries = c.tries /\ d.nap = c.nap /\ d.refused = c.refused
      BY <1>1, <1>6, <2>3 DEF Locks, Call, ClientInv
    <3>2. Further(c, d)
      BY <1>1, <2>1, <3>1, GoesOn
    <3> QED BY <2>1, <3>1, <3>2 DEF WindsDown, Settled
  <2> QED BY <2>2, <2>3
<1>7. CASE Grants(t)
  <2>1. c.pc = "issue" /\ c.granted = 0
    BY <1>7 DEF Grants
  <2>2. /\ d.pc = "issue" /\ d.tries = c.tries /\ d.nap = c.nap /\ d.refused = c.refused
        /\ d.asked = c.asked /\ d.granted = issued + 1
    BY <1>1, <1>7 DEF Grants, Call, ClientInv
  <2>3. d.granted # 0
    BY <2>2 DEF ClientInv, Globals
  <2>4. Further(c, d)
    BY <1>1, <2>1, <2>2, <2>3, GoesOn
  <2> QED BY <2>1, <2>2, <2>4 DEF WindsDown, Settled
<1>8. CASE Issued(t)
  <2>1. c.pc = "issue" /\ c.granted # 0 /\ Sent(t, c.granted)
    BY <1>8 DEF Issued
  <2>2. c.granted \in 1 .. MaxTokens
    BY <1>1, <2>1 DEF Call
  <2> QED BY <2>1, <2>2, SentWindsDown
<1>9. CASE NotIssued(t)
  <2>1. c.pc = "issue"
    BY <1>9 DEF NotIssued
  <2>2. ASSUME call' = [call EXCEPT ![t].asked = @ + 1, ![t].granted = 0]
        PROVE  WindsDown(c, d)
    <3>1. /\ d.pc = "issue" /\ d.tries = c.tries /\ d.nap = c.nap /\ d.refused = c.refused
          /\ d.asked = c.asked + 1
      BY <1>1, <2>1, <2>2 DEF Call, ClientInv
    <3>2. Further(c, d)
      BY <1>1, <2>1, <3>1, GoesOn
    <3> QED BY <2>1, <3>1, <3>2 DEF WindsDown, Settled
  <2>3. ASSUME Fails(t) \/ call' = [call EXCEPT ![t] = NoCall] PROVE WindsDown(c, d)
    <3>1. d \in {Retried(t), NoCall}
      BY <2>3 DEF Fails, ClientInv
    <3> QED BY <3>1, FailedWindsDown
  <2> QED BY <1>9, <2>2, <2>3 DEF NotIssued
<1>10. CASE Answered(t) \/ Limited(t) \/ Errs(t) \/ ForgetsExpired(t)
  <2>1. d \in {Retried(t), NoCall}
    BY <1>10 DEF Answered, Limited, Errs, Fails, ForgetsExpired, ClientInv
  <2> QED BY <2>1, FailedWindsDown
<1>11. CASE Unauthorized(t)
  <2>1. c.pc = "sent" /\ c.refused = 0
    BY <1>11 DEF Unauthorized
  <2>2. d.pc = "forget" /\ d.tries = c.tries /\ d.nap = c.nap /\ d.refused = c.token
    BY <1>1, <1>11 DEF Unauthorized, Call, ClientInv
  <2>3. Further(c, d)
    BY <1>1, <2>1, <2>2, GoesOn
  <2> QED BY <2>1, <2>2, <2>3 DEF WindsDown, Settled
<1>12. CASE Forgets(t)
  <2>1. c.pc = "forget"
    BY <1>12 DEF Forgets
  <2>2. d.pc = "token" /\ d.tries = c.tries /\ d.nap = c.nap /\ d.refused = c.refused
    BY <1>1, <1>12 DEF Forgets, Call, ClientInv
  <2>3. Further(c, d)
    BY <1>1, <2>1, <2>2, GoesOn DEF Settled
  <2> QED BY <2>1, <2>2, <2>3 DEF WindsDown, Settled
<1> QED BY <1>3, <1>4, <1>5, <1>6, <1>7, <1>8, <1>9, <1>10, <1>11, <1>12
        DEF Continues, Gets, Answers

\* Time wears a sleep away.
LEMMA TimeWindsDown ==
  ASSUME ClientInv, ClientInv', NEW t \in Tasks, Settled(call[t]), Steps
  PROVE  WindsDown(call[t], call'[t])
<1> DEFINE c == call[t]
           d == call'[t]
<1>1. c \in Call /\ d \in Call /\ c.nap \in Nat
  BY Counts DEF ClientInv
<1>2. d = [c EXCEPT !.nap = Greatest(@, 1) - 1]
  BY DEF Steps
<1>3. d.pc = c.pc /\ d.tries = c.tries /\ d.token = c.token /\ d.refused = c.refused
  BY <1>1, <1>2 DEF Call
<1>4. CASE c.nap = 0
  <2>1. d = c
    BY <1>1, <1>2, <1>4 DEF Call, Greatest
  <2> QED BY <2>1 DEF WindsDown
<1>5. CASE c.nap # 0
  <2>1. c.pc = "nap" /\ d.nap < c.nap
    BY <1>1, <1>2, <1>5 DEF Call, Greatest, Settled
  <2>2. Further(c, d)
    BY <1>1, <1>3, <2>1, GoesOn
  <2> QED BY <1>3, <2>1, <2>2 DEF WindsDown, Settled
<1> QED BY <1>4, <1>5

\* So every call winds down in every step.
LEMMA NextWindsDown ==
  ASSUME ClientInv, ClientInv', AllSettled, [Next]_vars, NEW t \in Tasks
  PROVE  WindsDown(call[t], call'[t])
<1>1. Settled(call[t])
  BY DEF AllSettled
<1>2. ASSUME call'[t] = call[t] PROVE WindsDown(call[t], call'[t])
  BY <1>1, <1>2 DEF WindsDown
<1>3. ASSUME NEW u \in Tasks, Begins(u) \/ Continues(u) \/ Grants(u)
      PROVE  WindsDown(call[t], call'[t])
  <2>1. CASE u = t
    BY <1>1, <1>3, <2>1, StepWindsDown
  <2>2. CASE u # t
    BY <1>2, <1>3, <2>2, OthersStay
  <2> QED BY <2>1, <2>2
<1>4. CASE Renews
  <2>1. CASE t = Renewal
    <3>1. call[t].pc = "idle" /\ call'[t].pc = "token" /\ call'[t].nap = call[t].nap
      BY <1>4, <2>1 DEF Renews, ClientInv, Call
    <3> QED BY <1>1, <3>1 DEF WindsDown, Settled
  <2>2. CASE t # Renewal
    BY <1>2, <1>4, <2>2 DEF Renews, ClientInv
  <2> QED BY <2>1, <2>2
<1>5. CASE Steps
  BY <1>1, <1>5, TimeWindsDown
<1>6. CASE Expires \/ UNCHANGED vars \/ \E g \in Tokens : Revokes(g)
  BY <1>2, <1>6 DEF Expires, vars, Revokes
<1> QED BY <1>3, <1>4, <1>5, <1>6 DEF Next

\* Whatever comes between (limits, refused tokens, failed issues, other tasks, time), a call
\* that has begun only gets further until it is over: what EveryCallEnds rests on, for any
\* callers, delays and attempts.
THEOREM NoCallGoesRound == Spec => CallsWindDown
<1>1. Init => AllSettled
  BY ClientAssumption DEF Init, AllSettled, Settled, NoCall
<1>2. ClientInv /\ ClientInv' /\ AllSettled /\ [Next]_vars => AllSettled'
  BY NextWindsDown DEF AllSettled, WindsDown
<1>3. ClientInv /\ ClientInv' /\ AllSettled /\ [Next]_vars =>
        [\A t \in Tasks :
           call[t].pc # "idle" /\ call'[t].pc # "idle" /\ call'[t] # call[t] =>
             Further(call[t], call'[t])]_vars
  BY NextWindsDown DEF WindsDown
<1>4. Spec => []AllSettled
  BY <1>1, <1>2, ClientInvariance, PTL DEF Spec
<1> QED BY <1>3, <1>4, ClientInvariance, PTL DEF Spec, CallsWindDown

\* The stages are numbers up to LastStage, in every attempt of every call.
THEOREM StagesEnd == Spec => [](\A t \in Tasks : Stage(call[t]) \in 0 .. LastStage)
<1>1. ClientInv => \A t \in Tasks : Stage(call[t]) \in 0 .. LastStage
  BY StageBounds DEF ClientInv
<1> QED BY <1>1, ClientInvariance, PTL

-------------------------------------------------------------------------------
(* KisClient: nobody waits for a lock that nobody has *)

\* Every task in one of the places is in the queue q.
Lined(q, c, places) ==
  \A u \in Tasks : c[u].pc \in places => \E i \in 1 .. Len(q) : q[i] = u

AllLined == Lined(pacers, call, Pacing) /\ Lined(keepers, call, Keeping)

\* What a task can do about its call now, without a step of another call.
CanGo(u) ==
  \/ call[u].pc \in {"backoff", "nap", "issue", "sent"}
  \/ call[u].pc = "pace" /\ Turn(u, pacers)
  \/ call[u].pc \in {"token", "forget"} /\ Turn(u, keepers)

\* While a call is under way, there is a task that can go on with its own.
SomebodyCanGo ==
  (\E t \in Tasks : call[t].pc # "idle") => \E u \in Tasks : CanGo(u)

\* A task moves in the queue, or out of it with its call.
MovesInLine(q, r, t, places) ==
  \/ r = q /\ (call'[t].pc \in places => call[t].pc \in places)
  \/ r = Append(q, t)
  \/ q # <<>> /\ q[1] = t /\ r = Tail(q) /\ call'[t].pc \notin places
  \/ q # <<>> /\ q[1] = t /\ r = Append(Tail(q), t)

\* The others stay in line when the first leaves.
LEMMA OthersInLine ==
  ASSUME NEW q \in Seq(Tasks), q # <<>>, NEW i \in 1 .. Len(q), q[i] # q[1]
  PROVE  \E j \in 1 .. Len(Tail(q)) : Tail(q)[j] = q[i]
<1>1. /\ Len(Tail(q)) = Len(q) - 1
      /\ \A j \in 1 .. Len(Tail(q)) : Tail(q)[j] = q[j + 1]
  BY HeadTailProperties
<1>2. i \in Nat /\ i >= 1 /\ i <= Len(q) /\ i # 1 /\ Len(q) \in Nat
  OBVIOUS
<1>3. i - 1 \in 1 .. Len(Tail(q)) /\ (i - 1) + 1 = i
  BY <1>1, <1>2
<1> QED BY <1>1, <1>3

\* Nor does anybody lose his place when one joins.
LEMMA LinedAgain ==
  ASSUME NEW q \in Seq(Tasks), NEW t \in Tasks
  PROVE  /\ \A i \in 1 .. Len(q) : \E j \in 1 .. Len(Append(q, t)) : Append(q, t)[j] = q[i]
         /\ \E j \in 1 .. Len(Append(q, t)) : Append(q, t)[j] = t
<1>1. /\ Len(Append(q, t)) = Len(q) + 1 /\ Len(q) \in Nat
      /\ \A i \in 1 .. Len(q) : Append(q, t)[i] = q[i]
      /\ Append(q, t)[Len(q) + 1] = t
  BY AppendProperties
<1>2. Len(q) + 1 \in 1 .. Len(Append(q, t))
  BY <1>1
<1>3. \A i \in 1 .. Len(q) : i \in 1 .. Len(Append(q, t))
  BY <1>1
<1> QED BY <1>1, <1>2, <1>3

LEMMA StaysLined ==
  ASSUME NEW q \in Seq(Tasks), NEW r, NEW t \in Tasks, NEW places,
         Lined(q, call, places), MovesInLine(q, r, t, places),
         \A u \in Tasks \ {t} : call'[u].pc = call[u].pc
  PROVE  Lined(r, call', places)
<1> SUFFICES ASSUME NEW u \in Tasks, call'[u].pc \in places
             PROVE  \E i \in 1 .. Len(r) : r[i] = u
  BY DEF Lined
<1>1. u # t => \E i \in 1 .. Len(q) : q[i] = u
  BY DEF Lined
<1>2. CASE r = q /\ (call'[t].pc \in places => call[t].pc \in places)
  BY <1>1, <1>2 DEF Lined
<1>3. CASE r = Append(q, t)
  BY <1>1, <1>3, LinedAgain
<1>4. ASSUME q # <<>>, q[1] = t, u # t PROVE \E j \in 1 .. Len(Tail(q)) : Tail(q)[j] = u
  BY <1>1, <1>4, OthersInLine
<1>5. CASE q # <<>> /\ q[1] = t /\ r = Tail(q) /\ call'[t].pc \notin places
  BY <1>4, <1>5
<1>6. CASE q # <<>> /\ q[1] = t /\ r = Append(Tail(q), t)
  <2>1. Tail(q) \in Seq(Tasks)
    BY <1>6, HeadTailProperties
  <2>2. ASSUME u = t PROVE \E j \in 1 .. Len(r) : r[j] = u
    <3>1. PICK h \in Seq(Tasks) : h = Tail(q)
      BY <2>1
    <3>2. r = Append(h, t)
      BY <1>6, <3>1
    <3> QED BY <2>2, <3>1, <3>2, LinedAgain
  <2>3. ASSUME u # t PROVE \E j \in 1 .. Len(r) : r[j] = u
    <3>1. PICK i \in 1 .. Len(Tail(q)) : Tail(q)[i] = u
      BY <1>4, <1>6, <2>3
    <3> QED BY <1>6, <2>1, <3>1, LinedAgain
  <2> QED BY <2>2, <2>3
<1> QED BY <1>2, <1>3, <1>5, <1>6 DEF MovesInLine

\* How a step of a task moves it in the queues.
LEMMA StepInLine ==
  ASSUME ClientInv, NEW t \in Tasks, Begins(t) \/ Continues(t) \/ Grants(t)
  PROVE  /\ MovesInLine(pacers, pacers', t, Pacing)
         /\ MovesInLine(keepers, keepers', t, Keeping)
<1>1. /\ call \in [Tasks -> Call] /\ call[t] \in Call
      /\ call[t].pc = "nap" => pacers # <<>> /\ pacers[1] = t
      /\ call[t].pc = "issue" => keepers # <<>> /\ keepers[1] = t
      /\ \A q : Turn(t, q) => q # <<>> /\ q[1] = t
  BY DEF ClientInv, QueueOf, Turn
<1>2. CASE Begins(t)
  <2>1. call'[t].pc = "pace" /\ pacers' = Append(pacers, t) /\ keepers' = keepers
    BY <1>1, <1>2 DEF Begins, Call, tokens
  <2> QED BY <2>1 DEF MovesInLine, Keeping
<1>3. CASE Paces(t)
  <2>1. call[t].pc = "pace" /\ call'[t].pc = "nap" /\ pacers' = pacers /\ keepers' = keepers
    BY <1>1, <1>3 DEF Paces, Call, limiter, tokens
  <2> QED BY <2>1 DEF MovesInLine, Keeping, Pacing
<1>4. CASE Passes(t)
  <2>1. call[t].pc = "nap" /\ pacers' = Tail(pacers)
    BY <1>4 DEF Passes
  <2>2. \/ call'[t].pc = "sent" /\ keepers' = keepers
        \/ call'[t].pc = "token" /\ keepers' = Append(keepers, t)
    BY <1>1, <1>4 DEF Passes, Call
  <2> QED BY <1>1, <2>1, <2>2 DEF MovesInLine, Keeping, Pacing
<1>5. ASSUME NEW g, Sent(t, g) PROVE call'[t].pc \in {"idle", "sent"}
  BY <1>1, <1>5 DEF Sent, Call
<1>6. CASE Locks(t)
  <2>1. call[t].pc = "token" /\ pacers' = pacers /\ keepers # <<>> /\ keepers[1] = t
    BY <1>1, <1>6 DEF Locks, limiter
  <2>2. \/ call'[t].pc \in {"idle", "sent"} /\ keepers' = Tail(keepers)
        \/ call'[t].pc = "issue" /\ keepers' = keepers
    BY <1>1, <1>5, <1>6 DEF Locks, Leaves, Call
  <2> QED BY <2>1, <2>2 DEF MovesInLine, Keeping, Pacing
<1>7. CASE Issued(t)
  <2>1. /\ call[t].pc = "issue" /\ pacers' = pacers /\ keepers' = Tail(keepers)
        /\ call'[t].pc \in {"idle", "sent"}
    BY <1>5, <1>7 DEF Issued, limiter, Leaves
  <2> QED BY <1>1, <2>1 DEF MovesInLine, Keeping, Pacing
<1>8. CASE NotIssued(t)
  <2>1. call[t].pc = "issue" /\ pacers' = pacers
    BY <1>8 DEF NotIssued, limiter
  <2>2. \/ call'[t].pc = "issue" /\ keepers' = keepers
        \/ call'[t] \in {Retried(t), NoCall} /\ keepers' = Tail(keepers)
    BY <1>1, <1>8 DEF NotIssued, Call, Fails, Leaves
  <2>3. Retried(t).pc \in {"idle", "backoff"} /\ NoCall.pc = "idle"
    BY Blanks DEF Blank, NoCall
  <2> QED BY <1>1, <2>1, <2>2, <2>3 DEF MovesInLine, Keeping, Pacing
<1>9. CASE Grants(t)
  <2>1. call'[t].pc = call[t].pc /\ pacers' = pacers /\ keepers' = keepers
    BY <1>1, <1>9 DEF Grants, Call, limiter, tokens
  <2> QED BY <2>1 DEF MovesInLine
<1>10. CASE Answered(t) \/ Limited(t) \/ Errs(t) \/ ForgetsExpired(t)
  <2>1. call'[t] \in {Retried(t), NoCall} /\ pacers' = pacers /\ keepers' = keepers
    BY <1>1, <1>10 DEF Answered, Limited, Errs, Fails, ForgetsExpired, limiter, tokens
  <2>2. Retried(t).pc \in {"idle", "backoff"} /\ NoCall.pc = "idle"
    BY Blanks DEF Blank, NoCall
  <2> QED BY <2>1, <2>2 DEF MovesInLine, Keeping, Pacing
<1>11. CASE Unauthorized(t)
  <2>1. call'[t].pc = "forget" /\ pacers' = pacers /\ keepers' = Append(keepers, t)
    BY <1>1, <1>11 DEF Unauthorized, Call, limiter
  <2> QED BY <2>1 DEF MovesInLine, Pacing
<1>12. CASE Forgets(t)
  <2>1. /\ keepers # <<>> /\ keepers[1] = t
        /\ call'[t].pc = "token" /\ pacers' = pacers /\ keepers' = Append(Tail(keepers), t)
    BY <1>1, <1>12 DEF Forgets, Call, limiter
  <2> QED BY <2>1 DEF MovesInLine, Pacing
<1> QED BY <1>2, <1>3, <1>4, <1>6, <1>7, <1>8, <1>9, <1>10, <1>11, <1>12
        DEF Continues, Gets, Answers

\* Every step keeps the tasks in line.
LEMMA NextLined ==
  ASSUME ClientInv, ClientInv', AllLined, [Next]_vars PROVE AllLined'
<1>1. pacers \in Seq(Tasks) /\ keepers \in Seq(Tasks) /\ call \in [Tasks -> Call]
  BY DEF ClientInv, QueueOf
<1>2. Lined(pacers, call, Pacing) /\ Lined(keepers, call, Keeping)
  BY DEF AllLined
<1>3. ASSUME NEW t \in Tasks, Begins(t) \/ Continues(t) \/ Grants(t) PROVE AllLined'
  <2>1. \A u \in Tasks \ {t} : call'[u].pc = call[u].pc
    BY <1>3, OthersStay
  <2>2. /\ MovesInLine(pacers, pacers', t, Pacing)
        /\ MovesInLine(keepers, keepers', t, Keeping)
    BY <1>3, StepInLine
  <2>3. Lined(pacers', call', Pacing) /\ Lined(keepers', call', Keeping)
    BY <1>1, <1>2, <2>1, <2>2, StaysLined
  <2> QED BY <2>3 DEF AllLined, Lined
<1>4. CASE Renews
  <2>1. /\ \A u \in Tasks \ {Renewal} : call'[u].pc = call[u].pc
        /\ Renewal \in Tasks /\ call'[Renewal].pc = "token"
    BY <1>1, <1>4 DEF Renews, Tasks, Call
  <2>2. pacers' = pacers /\ keepers' = Append(keepers, Renewal)
    BY <1>4 DEF Renews, limiter
  <2>3. /\ MovesInLine(pacers, pacers', Renewal, Pacing)
        /\ MovesInLine(keepers, keepers', Renewal, Keeping)
    BY <2>1, <2>2 DEF MovesInLine, Pacing
  <2>4. Lined(pacers', call', Pacing) /\ Lined(keepers', call', Keeping)
    BY <1>1, <1>2, <2>1, <2>3, StaysLined
  <2> QED BY <2>4 DEF AllLined, Lined
<1>5. ASSUME UNCHANGED <<pacers, keepers>>, \A u \in Tasks : call'[u].pc = call[u].pc
      PROVE  AllLined'
  BY <1>2, <1>5 DEF AllLined, Lined
<1>6. CASE Steps
  <2>1. \A u \in Tasks : call'[u] = [call[u] EXCEPT !.nap = Greatest(@, 1) - 1]
    BY <1>6 DEF Steps
  <2>2. \A u \in Tasks : call'[u].pc = call[u].pc
    BY <1>1, <2>1 DEF Call
  <2> QED BY <1>5, <1>6, <2>2 DEF Steps, tokens
<1>7. CASE Expires \/ UNCHANGED vars \/ \E g \in Tokens : Revokes(g)
  BY <1>5, <1>7 DEF Expires, vars, Revokes, limiter, tokens
<1> QED BY <1>3, <1>4, <1>6, <1>7 DEF Next

\* The two locks never jam: a task that waits is in line, and the first in line, whichever
\* lock it is, can go on without anybody else. With NoCallGoesRound, each of these steps
\* brings some call nearer to its end.
THEOREM LocksNeverJam == Spec => []SomebodyCanGo
<1>1. Init => AllLined
  BY DEF Init, AllLined, Lined, NoCall, Pacing, Keeping
<1>2. ClientInv /\ ClientInv' /\ AllLined /\ [Next]_vars => AllLined'
  BY NextLined
<1>3. ClientInv /\ AllLined => SomebodyCanGo
  <2> SUFFICES ASSUME ClientInv, AllLined, NEW t \in Tasks, call[t].pc # "idle"
               PROVE  \E u \in Tasks : CanGo(u)
    BY DEF SomebodyCanGo
  <2>1. call[t].pc \in Places
    BY DEF ClientInv, Call
  <2>2. ASSUME call[t].pc = "pace" PROVE \E u \in Tasks : CanGo(u)
    <3>1. PICK i \in 1 .. Len(pacers) : pacers[i] = t
      BY <2>2 DEF AllLined, Lined, Pacing
    <3>2. pacers \in Seq(Tasks) /\ \A j \in 1 .. Len(pacers) : call[pacers[j]].pc \in Pacing
      BY DEF ClientInv, QueueOf
    <3>3. pacers # <<>> /\ 1 \in 1 .. Len(pacers)
      BY <3>1, <3>2
    <3>4. pacers[1] \in Tasks /\ call[pacers[1]].pc \in Pacing /\ Turn(pacers[1], pacers)
      BY <3>2, <3>3 DEF Turn
    <3> QED BY <3>4 DEF CanGo, Pacing
  <2>3. ASSUME call[t].pc \in {"token", "forget"} PROVE \E u \in Tasks : CanGo(u)
    <3>1. PICK i \in 1 .. Len(keepers) : keepers[i] = t
      BY <2>3 DEF AllLined, Lined, Keeping
    <3>2. keepers \in Seq(Tasks) /\ \A j \in 1 .. Len(keepers) : call[keepers[j]].pc \in Keeping
      BY DEF ClientInv, QueueOf
    <3>3. keepers # <<>> /\ 1 \in 1 .. Len(keepers)
      BY <3>1, <3>2
    <3>4. keepers[1] \in Tasks /\ call[keepers[1]].pc \in Keeping /\ Turn(keepers[1], keepers)
      BY <3>2, <3>3 DEF Turn
    <3> QED BY <3>4 DEF CanGo, Keeping
  <2> QED BY <2>1, <2>2, <2>3 DEF CanGo, Places
<1>4. Spec => []AllLined
  BY <1>1, <1>2, ClientInvariance, PTL DEF Spec
<1> QED BY <1>3, <1>4, ClientInvariance, PTL

-------------------------------------------------------------------------------
(* Watchlist: the inductive invariant *)

\* A list that waits to be installed covers the holdings, unless the task knows that it
\* does not.
WillCover == \A t \in W!Tasks : W!Installs(t) /\ ~task[t].late => managed \subseteq task[t].list

\* The engine's list covers them unless a newer one is about to come, and it ticks
\* unless a task stopped it that will start it.
Covers ==
  kept /\ (\A t \in W!Tasks : ~W!Installs(t)) =>
    /\ managed \subseteq list
    /\ (\A t \in W!Tasks : task[t].pc # "screen") => feed

WatchInv == W!TypeOK /\ WillCover /\ Covers

-------------------------------------------------------------------------------
(* Watchlist: lists *)

\* The module's finite sets and their sizes are those of the theorems about them.
LEMMA SameSizes == \A S : /\ W!IsFiniteSet(S) <=> IsFiniteSet(S)
                          /\ W!Cardinality(S) = Cardinality(S)
<1>1. ASSUME NEW S PROVE W!IsFiniteSet(S) <=> IsFiniteSet(S)
  BY DEF W!IsFiniteSet, IsFiniteSet
<1>2. ASSUME NEW S PROVE W!Cardinality(S) = Cardinality(S)
  BY DEF W!Cardinality, Cardinality
<1> QED BY <1>1, <1>2

\* The symbols are finitely many, and so are any of them.
LEMMA FiniteSymbols ==
  ASSUME W!WatchAssumption, NEW S \in SUBSET Symbols
  PROVE  IsFiniteSet(S) /\ Cardinality(S) \in Nat
<1>1. IsFiniteSet(Symbols)
  BY SameSizes DEF W!WatchAssumption
<1>2. IsFiniteSet(S)
  BY <1>1, FS_Subset
<1> QED BY <1>2, FS_CardinalityType

\* What _subscription_symbols makes fits the cap and holds every position.
LEMMA HeldFirstFits ==
  ASSUME W!WatchAssumption, NEW h \in SUBSET Symbols, NEW c \in SUBSET Symbols,
         NEW L \in W!HeldFirst(h, c)
  PROVE  L \in W!Some /\ h \subseteq L
<1> DEFINE size == Cardinality(h \cup c)
<1>1. size \in Nat
  BY FiniteSymbols
<1>2. L \subseteq Symbols /\ h \subseteq L /\ Cardinality(L) = W!Least(size, Cap)
  BY SameSizes DEF W!HeldFirst
<1>3. Cap \in Nat
  BY DEF W!WatchAssumption
<1> HIDE DEF size
<1>4. W!Least(size, Cap) <= Cap
  BY <1>1, <1>3 DEF W!Least
<1> QED BY <1>2, <1>4, SameSizes DEF W!Some

\* No symbols make a list.
LEMMA NoneFits == ASSUME W!WatchAssumption PROVE {} \in W!Some /\ W!Idle \in W!Waiting
<1>1. {} \in W!Some
  <2>1. Cardinality({}) = 0 /\ Cap \in Nat
    BY FS_EmptySet DEF W!WatchAssumption
  <2> QED BY <2>1, SameSizes DEF W!Some
<1> QED BY <1>1 DEF W!Idle, W!Waiting, W!Places

\* A position more, where there is room, or a position less.
LEMMA OneHolding ==
  ASSUME W!WatchAssumption, managed \in W!Held, NEW x \in Symbols
  PROVE  /\ W!Cardinality(managed) < MaxHeld => managed \cup {x} \in W!Held
         /\ managed \ {x} \in W!Held
<1>1. managed \subseteq Symbols /\ Cardinality(managed) <= MaxHeld
  BY SameSizes DEF W!Held
<1>2. IsFiniteSet(managed) /\ Cardinality(managed) \in Nat
  BY <1>1, FiniteSymbols
<1>3. /\ Cardinality(managed \cup {x}) \in {Cardinality(managed), Cardinality(managed) + 1}
      /\ Cardinality(managed \ {x}) \in {Cardinality(managed), Cardinality(managed) - 1}
  BY <1>2, FS_AddElement, FS_RemoveElement
<1>4. Cardinality(managed) < MaxHeld => Cardinality(managed \cup {x}) <= MaxHeld
  BY <1>2, <1>3 DEF W!WatchAssumption
<1>5. Cardinality(managed \ {x}) <= MaxHeld
  BY <1>1, <1>2, <1>3 DEF W!WatchAssumption
<1> QED BY <1>1, <1>4, <1>5, SameSizes DEF W!Held

\* The tasks that are told of new holdings A stay where they are.
LEMMA LateTyped ==
  ASSUME task \in [W!Tasks -> W!Waiting], NEW u \in W!Tasks, NEW A
  PROVE  /\ W!Late(u, A) \in W!Waiting
         /\ W!Late(u, A).pc = task[u].pc
         /\ W!Late(u, A).list = task[u].list
         /\ W!Installs(u) /\ ~W!Late(u, A).late => ~task[u].late /\ A \subseteq task[u].list
<1> DEFINE told == IF task[u].late \/ ~(A \subseteq task[u].list) THEN TRUE ELSE FALSE
<1>1. task[u] \in W!Waiting
  OBVIOUS
<1>2. (task[u].late \/ ~(A \subseteq task[u].list)) = told
  BY <1>1 DEF W!Waiting
<1>3. CASE ~W!Installs(u)
  BY <1>1, <1>3 DEF W!Late
<1>4. CASE W!Installs(u)
  <2>1. W!Late(u, A) = [task[u] EXCEPT !.late = told]
    BY <1>2, <1>4 DEF W!Late
  <2>2. [task[u] EXCEPT !.late = told] \in W!Waiting
    BY <1>1 DEF W!Waiting
  <2>3. /\ [task[u] EXCEPT !.late = told].pc = task[u].pc
        /\ [task[u] EXCEPT !.late = told].list = task[u].list
        /\ [task[u] EXCEPT !.late = told].late = told
    BY <1>1 DEF W!Waiting
  <2>4. ~told => ~task[u].late /\ A \subseteq task[u].list
    OBVIOUS
  <2> QED BY <2>1, <2>2, <2>3, <2>4
<1> QED BY <1>3, <1>4

\* A task moves and has a list to install that covers the holdings, or it is done with
\* its own; nobody else moves.
Moves(t, w) ==
  /\ w \in W!Waiting
  /\ task' = [task EXCEPT ![t] = w]
  /\ w.pc \in {"stop", "start"} /\ ~w.late => managed \subseteq w.list

\* Such a step keeps the invariant when the list in force is no longer the engine's, or
\* is unless the task goes on to install a newer one.
LEMMA MoveKeeps ==
  ASSUME WatchInv, NEW t \in W!Tasks, NEW w, Moves(t, w),
         UNCHANGED managed,
         candidates' \subseteq Symbols, screened' \subseteq Symbols,
         list' \in W!Some, feed' \in BOOLEAN, kept' \in BOOLEAN,
         UNCHANGED W!prices,
         \/ kept' = FALSE
         \/ w.pc \in {"stop", "start"}
         \/ feed' = TRUE /\ managed \subseteq list'
         \/ ~W!Installs(t) /\ task[t].pc # "screen" /\ w.pc # "screen" /\ UNCHANGED W!lists
         \/ ~W!Installs(t) /\ w.pc = "screen" /\ UNCHANGED <<list, kept>>
  PROVE  WatchInv'
<1>1. /\ task' \in [W!Tasks -> W!Waiting]
      /\ task'[t] = w
      /\ \A u \in W!Tasks \ {t} : task'[u] = task[u]
  BY DEF WatchInv, W!TypeOK, Moves
<1>2. W!TypeOK'
  BY <1>1 DEF WatchInv, W!TypeOK, W!prices
<1>3. WillCover'
  BY <1>1 DEF WatchInv, WillCover, W!Installs, Moves
<1>4. Covers'
  BY <1>1 DEF WatchInv, Covers, W!Installs, W!lists
<1> QED BY <1>2, <1>3, <1>4 DEF WatchInv

\* Going to a place with a list is a move, if the list covers the holdings where it will
\* be installed from there.
LEMMA TurnsTyped ==
  ASSUME NEW t \in W!Tasks, NEW place \in W!Places, NEW L \in W!Some, W!Turns(t, place, L),
         place \in {"stop", "start"} => managed \subseteq L
  PROVE  \E w : Moves(t, w) /\ w.pc = place
<1> DEFINE w == [pc |-> place, list |-> L, late |-> FALSE]
<1>1. w \in W!Waiting /\ w.pc = place /\ w.list = L
  BY DEF W!Waiting
<1>2. task' = [task EXCEPT ![t] = w]
  BY DEF W!Turns
<1> HIDE DEF w
<1>3. Moves(t, w)
  BY <1>1, <1>2 DEF Moves
<1> QED BY <1>1, <1>3

\* Setting out to install a list that covers the holdings keeps the invariant.
LEMMA TurnKeeps ==
  ASSUME WatchInv, NEW t \in W!Tasks, NEW place \in {"stop", "start"}, NEW L \in W!Some,
         W!Turns(t, place, L), managed \subseteq L,
         UNCHANGED managed,
         candidates' \subseteq Symbols, screened' \subseteq Symbols,
         list' \in W!Some, feed' \in BOOLEAN, kept' \in BOOLEAN,
         UNCHANGED W!prices
  PROVE  WatchInv'
<1>1. PICK w : Moves(t, w) /\ w.pc = place
  BY TurnsTyped DEF W!Places
<1> QED BY <1>1, MoveKeeps

\* A task that rests is done with its list.
LEMMA RestsTyped ==
  ASSUME W!WatchAssumption, NEW t \in W!Tasks, W!Rests(t)
  PROVE  Moves(t, W!Idle) /\ W!Idle.pc = "idle"
  BY NoneFits DEF Moves, W!Rests, W!Idle

-------------------------------------------------------------------------------
(* Watchlist: what changes the list *)

\* A task that only stops the feed keeps the invariant.
LEMMA StopsOnlyKeeps ==
  ASSUME W!WatchAssumption, WatchInv, NEW t \in W!Tasks, W!StopsOnly(t),
         UNCHANGED <<managed, candidates>>, screened' \subseteq Symbols, UNCHANGED W!prices
  PROVE  WatchInv'
<1>1. W!Turns(t, "halt", {}) /\ feed' = FALSE /\ kept' = FALSE /\ UNCHANGED list
  BY DEF W!StopsOnly
<1>2. "halt" \in W!Places
  BY DEF W!Places
<1>3. PICK w : Moves(t, w)
  BY <1>1, <1>2, NoneFits, TurnsTyped
<1> QED BY <1>1, <1>3, MoveKeeps DEF WatchInv, W!TypeOK

\* SlotOpens keeps the invariant.
LEMMA SlotKeeps == ASSUME W!WatchAssumption, WatchInv, W!SlotOpens PROVE WatchInv'
<1>1. "slot" \in W!Tasks /\ "stop" \in {"stop", "start"}
  BY DEF W!Tasks
<1>2. managed \in SUBSET Symbols /\ candidates \in SUBSET Symbols
  BY DEF WatchInv, W!TypeOK, W!Held
<1>3. UNCHANGED <<managed, candidates, screened>> /\ UNCHANGED W!prices
  BY DEF W!SlotOpens
<1>4. ASSUME NEW L \in W!HeldFirst(managed, candidates), W!Turns("slot", "stop", L), W!Silenced
      PROVE  WatchInv'
  <2>1. L \in W!Some /\ managed \subseteq L
    BY <1>2, HeldFirstFits
  <2>2. UNCHANGED <<list, kept>> /\ feed' = FALSE
    BY <1>4 DEF W!Silenced
  <2> QED BY <1>1, <1>3, <1>4, <2>1, <2>2, TurnKeeps DEF WatchInv, W!TypeOK
<1>5. CASE W!StopsOnly("slot")
  BY <1>1, <1>3, <1>5, StopsOnlyKeeps DEF WatchInv, W!TypeOK
<1> QED BY <1>4, <1>5 DEF W!SlotOpens

\* Adds keeps the invariant.
LEMMA AddsKeeps ==
  ASSUME W!WatchAssumption, WatchInv, NEW C \in W!Some, W!Adds(C) PROVE WatchInv'
<1>1. PICK L \in W!HeldFirst(managed, candidates \cup C) : W!Turns("scan", "start", L)
  BY DEF W!Adds
<1>2. managed \in SUBSET Symbols /\ candidates \cup C \in SUBSET Symbols
  BY DEF WatchInv, W!TypeOK, W!Held, W!Some
<1>3. L \in W!Some /\ managed \subseteq L
  BY <1>2, HeldFirstFits
<1>4. "scan" \in W!Tasks /\ "start" \in {"stop", "start"}
  BY DEF W!Tasks
<1>5. /\ UNCHANGED <<managed, screened, list, kept>>
      /\ UNCHANGED W!prices
      /\ feed' = FALSE
      /\ candidates' \subseteq Symbols
  BY <1>2 DEF W!Adds, W!Silenced
<1> QED BY <1>1, <1>3, <1>4, <1>5, TurnKeeps DEF WatchInv, W!TypeOK

\* Screens keeps the invariant: what it subscribes is not the engine's list, and a
\* feed it stops alone is nobody's.
LEMMA ScreensKeeps ==
  ASSUME W!WatchAssumption, WatchInv, NEW t \in W!Tasks, NEW C \in W!Some, W!Screens(t, C)
  PROVE  WatchInv'
<1>1. screened' \subseteq Symbols /\ UNCHANGED <<managed, candidates>> /\ UNCHANGED W!prices
  BY DEF W!Screens, W!Some
<1>2. "screen" \in W!Places
  BY DEF W!Places
<1>3. task[t].pc = "idle" /\ ~W!Installs(t)
  BY DEF W!Screens, W!Room, W!Free, W!Installs
<1>4. CASE W!Turns(t, "screen", C) /\ W!Silenced
  <2>1. UNCHANGED <<list, kept>> /\ feed' = FALSE
    BY <1>4 DEF W!Silenced
  <2>2. PICK w : Moves(t, w) /\ w.pc = "screen"
    BY <1>2, <1>4, TurnsTyped
  <2> QED BY <1>1, <1>3, <2>1, <2>2, MoveKeeps DEF WatchInv, W!TypeOK
<1>5. CASE W!StopsOnly(t)
  BY <1>1, <1>5, StopsOnlyKeeps
<1>6. CASE UNCHANGED <<list, feed, kept, task>>
  BY <1>1, <1>6 DEF WatchInv, W!TypeOK, WillCover, Covers, W!Installs, W!prices
<1> QED BY <1>4, <1>5, <1>6 DEF W!Screens, W!lists

\* ScreenedByHand keeps the invariant.
LEMMA ByHandKeeps == ASSUME W!WatchAssumption, WatchInv, W!ScreenedByHand PROVE WatchInv'
<1>1. "hand" \in W!Tasks
  BY DEF W!Tasks
<1>2. /\ UNCHANGED <<managed, candidates, screened>> /\ UNCHANGED W!prices
      /\ kept' = FALSE /\ feed' = TRUE /\ list' = task["hand"].list
      /\ W!Rests("hand")
  BY DEF W!ScreenedByHand, W!Installed
<1>3. list' \in W!Some
  BY <1>1, <1>2 DEF WatchInv, W!TypeOK, W!Waiting
<1>4. Moves("hand", W!Idle)
  BY <1>1, <1>2, RestsTyped
<1> QED BY <1>1, <1>2, <1>3, <1>4, MoveKeeps DEF WatchInv, W!TypeOK

\* Reselected keeps the invariant.
LEMMA ReselectedKeeps == ASSUME W!WatchAssumption, WatchInv, W!Reselected PROVE WatchInv'
<1>1. "reselect" \in W!Tasks /\ "stop" \in {"stop", "start"}
  BY DEF W!Tasks
<1>2. /\ UNCHANGED <<managed, screened>> /\ UNCHANGED W!prices
      /\ kept' = FALSE /\ list' = task["reselect"].list
  BY DEF W!Reselected
<1>3. /\ list' \in W!Some
      /\ managed \in SUBSET Symbols /\ screened \in SUBSET Symbols /\ candidates \in SUBSET Symbols
  BY <1>1, <1>2 DEF WatchInv, W!TypeOK, W!Waiting, W!Held
<1>4. CASE feed' = TRUE /\ W!Rests("reselect") /\ UNCHANGED candidates
  <2>1. Moves("reselect", W!Idle)
    BY <1>1, <1>4, RestsTyped
  <2> QED BY <1>1, <1>2, <1>3, <1>4, <2>1, MoveKeeps DEF WatchInv, W!TypeOK
<1>5. ASSUME candidates' = screened, feed' = FALSE,
             NEW L \in W!HeldFirst(managed, screened), W!Turns("reselect", "stop", L)
      PROVE  WatchInv'
  <2>1. L \in W!Some /\ managed \subseteq L
    BY <1>3, HeldFirstFits
  <2> QED BY <1>1, <1>2, <1>3, <1>5, <2>1, TurnKeeps DEF WatchInv, W!TypeOK
<1> QED BY <1>4, <1>5 DEF W!Reselected

\* Halted keeps the invariant.
LEMMA HaltedKeeps ==
  ASSUME W!WatchAssumption, WatchInv, NEW t \in W!Tasks, W!Halted(t) PROVE WatchInv'
<1>1. "stop" \in {"stop", "start"}
  OBVIOUS
<1>2. /\ UNCHANGED <<managed, screened>> /\ UNCHANGED W!prices
      /\ ~W!Installs(t) /\ task[t].pc # "screen"
  BY DEF W!Halted, W!Installs
<1>3. managed \in SUBSET Symbols /\ screened \in SUBSET Symbols
  BY DEF WatchInv, W!TypeOK, W!Held
<1>4. CASE W!Rests(t) /\ UNCHANGED candidates /\ UNCHANGED W!lists
  <2>1. Moves(t, W!Idle) /\ W!Idle.pc = "idle"
    BY <1>4, RestsTyped
  <2> QED BY <1>2, <1>4, <2>1, MoveKeeps DEF WatchInv, W!TypeOK, W!lists
<1>5. ASSUME candidates' = screened, W!Silenced,
             NEW L \in W!HeldFirst(managed, screened), W!Turns(t, "stop", L)
      PROVE  WatchInv'
  <2>1. L \in W!Some /\ managed \subseteq L
    BY <1>3, HeldFirstFits
  <2>2. UNCHANGED <<list, kept>> /\ feed' = FALSE
    BY <1>5 DEF W!Silenced
  <2> QED BY <1>1, <1>2, <1>3, <1>5, <2>1, <2>2, TurnKeeps DEF WatchInv, W!TypeOK
<1> QED BY <1>4, <1>5 DEF W!Halted

\* StopsAgain keeps the invariant.
LEMMA StopsAgainKeeps ==
  ASSUME WatchInv, NEW t \in W!Tasks, W!StopsAgain(t) PROVE WatchInv'
<1> DEFINE w == [task[t] EXCEPT !.pc = "start"]
<1>1. task[t] \in W!Waiting
  BY DEF WatchInv, W!TypeOK
<1>2. w \in W!Waiting /\ w.pc = "start" /\ w.late = task[t].late /\ w.list = task[t].list
  BY <1>1 DEF W!Waiting, W!Places
<1>3. task' = [task EXCEPT ![t] = w] /\ W!Installs(t)
  BY DEF W!StopsAgain, W!Installs
<1> HIDE DEF w
<1>4. Moves(t, w)
  BY <1>2, <1>3 DEF Moves, WatchInv, WillCover
<1>5. /\ UNCHANGED <<managed, candidates, screened, list, kept>>
      /\ UNCHANGED W!prices
      /\ feed' = FALSE
  BY DEF W!StopsAgain, W!Silenced
<1> QED BY <1>2, <1>4, <1>5, MoveKeeps DEF WatchInv, W!TypeOK

\* Starts keeps the invariant: the list it installs covers what it knows of.
LEMMA WatchStartsKeeps ==
  ASSUME W!WatchAssumption, WatchInv, NEW t \in W!Tasks, W!Starts(t) PROVE WatchInv'
<1>1. task[t] \in W!Waiting
  BY DEF WatchInv, W!TypeOK
<1>2. /\ UNCHANGED <<managed, candidates, screened>> /\ UNCHANGED W!prices
      /\ feed' = TRUE /\ list' = task[t].list /\ kept' = ~task[t].late
      /\ W!Rests(t)
  BY DEF W!Starts, W!Installed
<1>3. list' \in W!Some /\ kept' \in BOOLEAN
  BY <1>1, <1>2 DEF W!Waiting
<1>4. kept' = FALSE \/ managed \subseteq list'
  BY <1>1, <1>2 DEF W!Starts, W!Installs, WatchInv, WillCover, W!Waiting
<1>5. Moves(t, W!Idle)
  BY <1>2, RestsTyped
<1> QED BY <1>2, <1>3, <1>4, <1>5, MoveKeeps DEF WatchInv, W!TypeOK

-------------------------------------------------------------------------------
(* Watchlist: what changes the holdings, and the prices *)

\* The holdings become h, and all tasks but those excepted are told of what is new.
LEMMA HoldsTyped ==
  ASSUME WatchInv, NEW h \in W!Held, W!Holds(h)
  PROVE  managed' \in W!Held /\ due' \subseteq managed'
  BY DEF WatchInv, W!TypeOK, W!Holds, W!Held

\* Syncs keeps the invariant: its own list covers what it took over, and the others know
\* whether theirs does.
LEMMA SyncsKeeps ==
  ASSUME W!WatchAssumption, WatchInv, NEW h \in W!Held, W!Syncs(h) PROVE WatchInv'
<1>1. /\ managed' = h /\ managed' \in W!Held /\ due' \subseteq managed'
      /\ UNCHANGED <<candidates, screened, fresh, polled>>
  BY HoldsTyped DEF W!Syncs, W!Holds
<1>2. CASE h = managed /\ UNCHANGED W!lists /\ UNCHANGED task
  BY <1>1, <1>2 DEF WatchInv, W!TypeOK, WillCover, Covers, W!Installs, W!lists
<1>3. ASSUME NEW L \in W!HeldFirst(h, candidates), L \in {{}, list},
             task' = [u \in W!Tasks |-> W!Late(u, h \ managed)],
             UNCHANGED W!lists
      PROVE  WatchInv'
  <2>1. h \subseteq list
    BY <1>3 DEF W!HeldFirst
  <2>2. /\ task' \in [W!Tasks -> W!Waiting]
        /\ \A u \in W!Tasks : task'[u].pc = task[u].pc /\ task'[u].list = task[u].list
        /\ \A u \in W!Tasks : W!Installs(u) /\ ~task'[u].late =>
             ~task[u].late /\ h \ managed \subseteq task[u].list
    BY <1>3, LateTyped DEF WatchInv, W!TypeOK, W!Installs
  <2>3. W!TypeOK'
    BY <1>1, <1>3, <2>2 DEF WatchInv, W!TypeOK, W!lists
  <2>4. WillCover'
    BY <1>1, <2>2 DEF WatchInv, WillCover, W!Installs
  <2>5. Covers'
    BY <1>1, <1>3, <2>1, <2>2 DEF WatchInv, Covers, W!Installs, W!lists
  <2> QED BY <2>3, <2>4, <2>5 DEF WatchInv
<1>4. ASSUME NEW L \in W!HeldFirst(h, candidates),
             task' = [u \in W!Tasks |-> IF u = "sync"
                                        THEN [pc |-> "start", list |-> L, late |-> FALSE]
                                        ELSE W!Late(u, h \ managed)],
             W!Silenced
      PROVE  WatchInv'
  <2> DEFINE w == [pc |-> "start", list |-> L, late |-> FALSE]
  <2>1. h \in SUBSET Symbols /\ candidates \in SUBSET Symbols
    BY DEF WatchInv, W!TypeOK, W!Held
  <2>2. L \in W!Some /\ h \subseteq L
    BY <2>1, HeldFirstFits
  <2>3. w \in W!Waiting /\ w.pc = "start" /\ w.list = L /\ "sync" \in W!Tasks
    BY <2>2 DEF W!Waiting, W!Places, W!Tasks
  <2> HIDE DEF w
  <2>4. /\ task' \in [W!Tasks -> W!Waiting]
        /\ task'["sync"] = w
        /\ \A u \in W!Tasks \ {"sync"} :
             /\ task'[u].pc = task[u].pc /\ task'[u].list = task[u].list
             /\ W!Installs(u) /\ ~task'[u].late => ~task[u].late /\ h \ managed \subseteq task[u].list
    <3>1. task' = [u \in W!Tasks |-> IF u = "sync" THEN w ELSE W!Late(u, h \ managed)]
      BY <1>4 DEF w
    <3> QED BY <3>1, <2>3, LateTyped DEF WatchInv, W!TypeOK, W!Installs
  <2>5. W!TypeOK'
    BY <1>1, <1>4, <2>4 DEF WatchInv, W!TypeOK, W!Silenced
  <2>6. WillCover'
    BY <1>1, <2>2, <2>3, <2>4 DEF WatchInv, WillCover, W!Installs
  <2>7. Covers'
    BY <2>3, <2>4 DEF Covers, W!Installs
  <2> QED BY <2>5, <2>6, <2>7 DEF WatchInv
<1> QED BY <1>2, <1>3, <1>4 DEF W!Syncs

\* Buys keeps the invariant: a list without the new position is not the engine's any more.
LEMMA WatchBuysKeeps ==
  ASSUME W!WatchAssumption, WatchInv, NEW x \in Symbols, W!Buys(x) PROVE WatchInv'
<1>1. managed \cup {x} \in W!Held
  BY OneHolding DEF W!Buys, WatchInv, W!TypeOK
<1>2. /\ managed' = managed \cup {x} /\ managed' \in W!Held /\ due' \subseteq managed'
      /\ UNCHANGED <<candidates, screened, list, feed, fresh, polled>>
  BY <1>1, HoldsTyped DEF W!Buys, W!Holds
<1>3. kept' \in BOOLEAN /\ (kept' => kept /\ x \in list)
  BY DEF W!Buys, WatchInv, W!TypeOK
<1>4. task' = [u \in W!Tasks |-> W!Late(u, {x})]
  BY DEF W!Buys
<1>5. /\ task' \in [W!Tasks -> W!Waiting]
      /\ \A u \in W!Tasks : task'[u].pc = task[u].pc /\ task'[u].list = task[u].list
      /\ \A u \in W!Tasks : W!Installs(u) /\ ~task'[u].late =>
           ~task[u].late /\ {x} \subseteq task[u].list
  BY <1>4, LateTyped DEF WatchInv, W!TypeOK, W!Installs
<1>6. W!TypeOK'
  BY <1>2, <1>3, <1>5 DEF WatchInv, W!TypeOK
<1>7. WillCover'
  BY <1>2, <1>5 DEF WatchInv, WillCover, W!Installs
<1>8. Covers'
  BY <1>2, <1>3, <1>5 DEF WatchInv, Covers, W!Installs
<1> QED BY <1>6, <1>7, <1>8 DEF WatchInv

\* Exits keeps the invariant.
LEMMA WatchExitsKeeps ==
  ASSUME W!WatchAssumption, WatchInv, NEW x \in Symbols, W!Exits(x) PROVE WatchInv'
<1>1. managed \ {x} \in W!Held
  BY OneHolding DEF WatchInv, W!TypeOK
<1>2. /\ managed' = managed \ {x} /\ managed' \in W!Held /\ due' \subseteq managed'
      /\ UNCHANGED <<candidates, screened, fresh, polled, task>> /\ UNCHANGED W!lists
  BY <1>1, HoldsTyped DEF W!Exits, W!Holds
<1> QED BY <1>2 DEF WatchInv, W!TypeOK, WillCover, Covers, W!Installs, W!lists

\* Ticks, polls and the time between them leave the lists alone.
LEMMA PricesKeep == ASSUME WatchInv, W!Prices PROVE WatchInv'
<1>1. UNCHANGED <<managed, candidates, screened, task>> /\ UNCHANGED W!lists
  BY DEF W!Prices, W!Polls, W!Ticks, W!Stales, W!FallsDue, W!PollsPrice, W!PollFails
<1>2. managed \subseteq Symbols
  BY DEF WatchInv, W!TypeOK, W!Held
<1>3. fresh' \subseteq Symbols /\ due' \subseteq managed /\ polled' \subseteq Symbols
  BY <1>2 DEF WatchInv, W!TypeOK, W!Prices, W!Polls, W!Ticks, W!Stales, W!FallsDue, W!PollsPrice,
              W!PollFails
<1> QED BY <1>1, <1>3 DEF WatchInv, W!TypeOK, WillCover, Covers, W!Installs, W!lists

-------------------------------------------------------------------------------
(* Watchlist: the theorems *)

\* The initial states satisfy the invariant.
LEMMA WatchInit == ASSUME W!WatchAssumption PROVE W!Init => WatchInv
<1> SUFFICES ASSUME W!Init PROVE WatchInv
  OBVIOUS
<1>1. W!Idle.pc = "idle"
  BY DEF W!Idle
<1>2. W!TypeOK
  BY NoneFits DEF W!Init, W!TypeOK
<1>3. WillCover /\ Covers
  BY <1>1 DEF W!Init, WillCover, Covers, W!Installs
<1> QED BY <1>2, <1>3 DEF WatchInv

\* Every step keeps it.
LEMMA WatchNext == ASSUME W!WatchAssumption PROVE WatchInv /\ [W!Next]_(W!vars) => WatchInv'
<1> SUFFICES ASSUME WatchInv, [W!Next]_(W!vars) PROVE WatchInv'
  OBVIOUS
<1>1. CASE W!Lists
  BY <1>1, SyncsKeeps, AddsKeeps, ScreensKeeps, SlotKeeps, ByHandKeeps, ReselectedKeeps, HaltedKeeps,
     StopsAgainKeeps, WatchStartsKeeps
     DEF W!Lists
<1>2. CASE UNCHANGED W!vars
  BY <1>2 DEF W!vars, WatchInv, W!TypeOK, WillCover, Covers, W!Installs
<1> QED BY <1>1, <1>2, PricesKeep, WatchBuysKeeps, WatchExitsKeeps DEF W!Next

\* The inductive invariant of the list holds for any symbols, cap and number of restarts.
THEOREM WatchInvariance == ASSUME W!WatchAssumption PROVE W!Spec => []WatchInv
<1>1. W!Init => WatchInv
  BY WatchInit
<1>2. WatchInv /\ [W!Next]_(W!vars) => WatchInv'
  BY WatchNext
<1> QED BY <1>1, <1>2, PTL DEF W!Spec

\* No list is longer than KIS allows, whatever is held and however many restarts of the
\* feed are under way.
THEOREM ListsFit == ASSUME W!WatchAssumption PROVE W!Spec => []W!TypeOK
<1>1. WatchInv => W!TypeOK
  BY DEF WatchInv
<1> QED BY <1>1, WatchInvariance, PTL

\* When nothing is under way and the list in force is the engine's, every holding ticks
\* but those that came after the list was computed.
THEOREM HoldingsTick == ASSUME W!WatchAssumption PROVE W!Spec => []HoldingsWatched
<1>1. W!TypeOK => DOMAIN task = W!Tasks
  BY DEF W!TypeOK
<1>2. WatchInv => HoldingsWatched
  BY <1>1 DEF WatchInv, Covers, W!Installs, HoldingsWatched, Quiet
<1> QED BY <1>2, WatchInvariance, PTL

-------------------------------------------------------------------------------
(* Watchlist: every holding is judged *)

\* A position nobody has judged for a while, by what is known of its price: a tick of
\* the last 45 seconds, none, none when the job comes round.
Unjudged(x)    == x \in due
Ticked(x)      == x \in due /\ x \in fresh
Silent(x)      == x \in due /\ x \notin fresh
SilentAtJob(x) == Silent(x) /\ polled = {}

\* A symbol gets fresh by its own tick, which judges it.
LEMMA FreshByTick ==
  ASSUME W!Next, NEW x, x \notin fresh, x \in fresh'
  PROVE  x \notin due'
<1>1. CASE W!Lists
  BY <1>1 DEF W!Lists, W!Syncs, W!Adds, W!Screens, W!SlotOpens, W!ScreenedByHand, W!Reselected,
              W!Halted, W!StopsAgain, W!Starts, W!prices
<1>2. CASE W!Prices
  BY <1>2 DEF W!Prices, W!Polls, W!Ticks, W!Stales, W!FallsDue, W!PollsPrice, W!PollFails
<1>3. CASE \E y \in Symbols : W!Buys(y) \/ W!Exits(y)
  BY <1>3 DEF W!Buys, W!Exits
<1> QED BY <1>1, <1>2, <1>3 DEF W!Next

\* Between two rounds nothing is to be asked.
LEMMA RoundByJob ==
  ASSUME W!Next, polled = {}, polled' # {}
  PROVE  W!Polls
<1>1. CASE W!Lists
  BY <1>1 DEF W!Lists, W!Syncs, W!Adds, W!Screens, W!SlotOpens, W!ScreenedByHand, W!Reselected,
              W!Halted, W!StopsAgain, W!Starts, W!prices
<1>2. CASE W!Prices
  BY <1>2 DEF W!Prices, W!Ticks, W!Stales, W!FallsDue, W!PollsPrice, W!PollFails
<1>3. CASE \E y \in Symbols : W!Buys(y) \/ W!Exits(y)
  BY <1>3 DEF W!Buys, W!Exits
<1> QED BY <1>1, <1>2, <1>3 DEF W!Next

\* The fairness of the prices is that of each.
LEMMA HoldingPriced == ASSUME NEW x \in Symbols PROVE W!PricesCome => W!PriceComes(x)
  BY DEF W!PricesCome

\* A tick that was not followed by another is forgotten.
LEMMA TicksFade ==
  ASSUME NEW x \in Symbols
  PROVE  W!FairSpec /\ []W!PricesCanRun => (Unjudged(x) ~> Silent(x) \/ ~Unjudged(x))
<1>1. W!FairSpec => W!Spec /\ WF_(W!vars)(W!Stales(x))
  BY HoldingPriced, PTL DEF W!FairSpec, W!PriceComes
<1>2. Ticked(x) /\ [W!Next]_(W!vars) => Ticked(x)' \/ Silent(x)' \/ ~Unjudged(x)'
  BY DEF Ticked, Silent, Unjudged
<1>3. Ticked(x) /\ <<W!Stales(x)>>_(W!vars) => Silent(x)' \/ ~Unjudged(x)'
  BY DEF Ticked, Silent, Unjudged, W!Stales
<1>4. W!PricesCanRun /\ Ticked(x) => ENABLED <<W!Stales(x)>>_(W!vars)
  BY DEF W!PricesCanRun, Ticked
<1>5. Unjudged(x) => Ticked(x) \/ Silent(x)
  BY DEF Unjudged, Ticked, Silent
<1> QED BY <1>1, <1>2, <1>3, <1>4, <1>5, PTL DEF W!Spec

\* The round that begins next asks for a price of every position that does not tick.
LEMMA NextRoundAsks ==
  ASSUME W!WatchAssumption, NEW x \in Symbols
  PROVE  W!FairSpec /\ []W!PricesCanRun => (SilentAtJob(x) ~> x \in polled \/ ~Unjudged(x))
<1>1. W!FairSpec => W!Spec /\ WF_(W!vars)(W!Polls)
  BY PTL DEF W!FairSpec
<1>2. WatchInv /\ SilentAtJob(x) /\ W!Polls => (x \in polled)'
  BY DEF WatchInv, W!TypeOK, SilentAtJob, Silent, W!Polls
<1>3. WatchInv /\ SilentAtJob(x) /\ [W!Next]_(W!vars) =>
        SilentAtJob(x)' \/ (x \in polled)' \/ ~Unjudged(x)'
  BY <1>2, FreshByTick, RoundByJob DEF SilentAtJob, Silent, Unjudged, W!vars
<1>4. WatchInv /\ SilentAtJob(x) /\ <<W!Polls>>_(W!vars) => (x \in polled)'
  BY <1>2
<1>5. WatchInv /\ W!PricesCanRun /\ SilentAtJob(x) => ENABLED <<W!Polls>>_(W!vars)
  BY DEF WatchInv, W!TypeOK, W!PricesCanRun, SilentAtJob, Silent
<1>6. W!Spec => []WatchInv
  BY WatchInvariance
<1> QED BY <1>1, <1>3, <1>4, <1>5, <1>6, PTL DEF W!Spec

\* Every position that was not judged for a while is judged or gone, whatever lists are
\* installed and whoever ticks, if every round of the job comes to its end. That is a
\* hypothesis because it takes an induction on the symbols of a round, and so is
\* PricesCanRun, of ENABLED: TLC evaluates both.
THEOREM JudgedInTheEnd ==
  ASSUME W!WatchAssumption
  PROVE  W!FairSpec /\ []W!PricesCanRun /\ W!RoundsEnd => EveryHoldingJudged
<1>1. ASSUME NEW x \in Symbols
      PROVE  W!FairSpec /\ []W!PricesCanRun /\ W!RoundsEnd => JudgedInTime(x)
  <2>1. W!FairSpec => W!Spec /\ SF_(W!vars)(W!PollsPrice(x))
    BY HoldingPriced, PTL DEF W!FairSpec, W!PriceComes
  <2>2. W!FairSpec /\ []W!PricesCanRun => (Unjudged(x) ~> Silent(x) \/ ~Unjudged(x))
    BY TicksFade
  <2>3. W!FairSpec /\ []W!PricesCanRun => (SilentAtJob(x) ~> x \in polled \/ ~Unjudged(x))
    BY NextRoundAsks
  <2>4. Silent(x) /\ [W!Next]_(W!vars) => Silent(x)' \/ ~Unjudged(x)'
    BY FreshByTick DEF Silent, Unjudged, W!vars
  <2>5. Silent(x) /\ polled = {} => SilentAtJob(x)
    BY DEF SilentAtJob
  <2>6. W!PricesCanRun /\ x \in polled => ENABLED <<W!PollsPrice(x)>>_(W!vars)
    BY DEF W!PricesCanRun
  <2>7. <<W!PollsPrice(x)>>_(W!vars) => ~Unjudged(x)'
    BY DEF W!PollsPrice, Unjudged
  <2>8. (x \in due => Unjudged(x)) /\ (~Unjudged(x) => x \notin due)
    BY DEF Unjudged
  <2> QED BY <2>1, <2>2, <2>3, <2>4, <2>5, <2>6, <2>7, <2>8, PTL DEF W!Spec, W!RoundsEnd, JudgedInTime
<1> QED BY <1>1 DEF EveryHoldingJudged

-------------------------------------------------------------------------------
(* EntryDefense: the inductive invariant *)

\* The defence and the latest sample are of today or earlier.
Dated ==
  /\ day \in Nat /\ defence \in Nat /\ sample.day \in Nat
  /\ defence <= day /\ sample.day <= day
  /\ day # 0

\* A crash in the market, in what a check has read and in a sample of today was one
\* today, unless the sample goes back to an earlier day's.
Caused ==
  /\ D!Crash({kospi}, vol) => crashed
  /\ check.vol = "panic" => crashed
  /\ sample.day = day /\ sample.level <= CrashLevel => crashed \/ foreign
  /\ DefenceHasCause

\* Nobody replaces the SET of a switch while a check compares with it.
Compared ==
  app.trigger = "intraday" => app.set = judged /\ (D!Asking => check.set = app.set)

DefenceInv == Dated /\ Caused /\ Compared

-------------------------------------------------------------------------------
(* EntryDefense: the readings *)

\* What a check takes for the KOSPI: where a crash in it comes from.
LEMMA ReadingCause ==
  ASSUME DefenceInv, NEW reading \in D!Readings, D!Defends(reading), D!Asking
  PROVE  /\ D!Crash(reading, check.vol) => crashed \/ foreign'
         /\ \A l \in reading : l <= CrashLevel => crashed \/ foreign'
<1>1. ASSUME NEW l \in reading, l <= CrashLevel PROVE crashed \/ foreign'
  <2>1. CASE l = kospi
    BY <1>1, <2>1 DEF DefenceInv, Caused, D!Crash
  <2>2. CASE l # kospi
    <3>1. sample # D!NoSample /\ l = sample.level
      BY <2>2 DEF D!Readings, D!Stored
    <3>2. CASE sample.day = day
      BY <1>1, <3>1, <3>2 DEF DefenceInv, Caused, D!Defends
    <3>3. CASE sample.day # day
      BY <2>2, <3>3 DEF D!Defends
    <3> QED BY <3>2, <3>3
  <2> QED BY <2>1, <2>2
<1>2. check.vol = "panic" => crashed
  BY DEF DefenceInv, Caused
<1> QED BY <1>1, <1>2 DEF D!Crash

\* The writes of a check keep the dates and the causes, whichever of them are done.
LEMMA WritesKeep ==
  ASSUME DefenceInv, D!Asking, NEW reading \in D!Readings, D!Defends(reading),
         D!Stores(reading) \/ UNCHANGED sample,
         UNCHANGED <<D!clock, D!market, crashed>>, check' = D!NoCheck
  PROVE  Dated' /\ Caused'
<1>1. Dated'
  BY DEF DefenceInv, Dated, D!Defends, D!Stores, D!clock
<1>2. (D!Crash({kospi}, vol) => crashed)' /\ (check.vol = "panic" => crashed)'
  BY DEF DefenceInv, Caused, D!Crash, D!market, D!NoCheck
<1>3. (sample.day = day /\ sample.level <= CrashLevel => crashed \/ foreign)'
  <2>1. CASE D!Stores(reading)
    BY <2>1, ReadingCause DEF D!Stores
  <2>2. CASE UNCHANGED sample
    BY <2>2 DEF DefenceInv, Caused, D!Defends, D!clock
  <2> QED BY <2>1, <2>2
<1>4. DefenceHasCause'
  BY ReadingCause DEF DefenceInv, Caused, D!Defends, DefenceHasCause, D!clock
<1> QED BY <1>1, <1>2, <1>3, <1>4 DEF Caused

-------------------------------------------------------------------------------
(* EntryDefense: theorems *)

\* The invariant holds at first ...
LEMMA DefenceInit == D!Init => DefenceInv
  BY DEF D!Init, DefenceInv, Dated, Caused, Compared, DefenceHasCause, D!NoSample, D!NoApp, D!NoCheck

\* ... and every step keeps it.
LEMMA DefenceNext == DefenceInv /\ [D!Next]_(D!vars) => DefenceInv'
<1> SUFFICES ASSUME DefenceInv, [D!Next]_(D!vars) PROVE DefenceInv'
  OBVIOUS
<1>1. CASE D!Asks
  BY <1>1 DEF D!Asks, D!Asking, DefenceInv, Dated, Caused, Compared, DefenceHasCause, D!Crash,
              D!clock, D!market, D!history, D!NoCheck
<1>2. CASE \E reading \in D!Readings : D!Skips(reading)
  <2>1. PICK reading \in D!Readings : D!Skips(reading)
    BY <1>2
  <2>2. Dated' /\ Caused'
    BY <2>1, WritesKeep DEF D!Skips
  <2>3. Compared'
    BY <2>1 DEF D!Skips, DefenceInv, Compared, D!Asking
  <2> QED BY <2>2, <2>3 DEF DefenceInv
<1>3. CASE \E reading \in D!Readings : D!Judges(reading)
  <2>1. PICK reading \in D!Readings : D!Judges(reading)
    BY <1>3
  <2>2. Dated' /\ Caused'
    BY <2>1, WritesKeep DEF D!Judges
  <2>3. Compared'
    BY <2>1 DEF D!Judges, DefenceInv, Compared, D!Asking
  <2> QED BY <2>2, <2>3 DEF DefenceInv
<1>4. CASE \E s \in Sets : D!Activates(s)
  BY <1>4 DEF D!Activates, D!Asking, DefenceInv, Dated, Caused, Compared, DefenceHasCause, D!Crash,
              D!clock, D!market, D!history
<1>5. CASE D!Restart
  <2>1. Dated' /\ Caused'
    <3>1. CASE UNCHANGED <<sample, defence, foreign>>
      BY <1>5, <3>1 DEF D!Restart, DefenceInv, Dated, Caused, DefenceHasCause, D!Crash, D!clock, D!market,
                        D!NoCheck
    <3>2. CASE /\ D!Asking
               /\ \E reading \in D!Readings :
                    D!Defends(reading) /\ (D!Stores(reading) \/ UNCHANGED sample)
      BY <1>5, <3>2, WritesKeep DEF D!Restart
    <3> QED BY <1>5, <3>1, <3>2 DEF D!Restart
  <2>2. Compared'
    BY <1>5 DEF D!Restart, DefenceInv, Compared, D!Asking
  <2> QED BY <2>1, <2>2 DEF DefenceInv
<1>6. CASE D!Moves
  BY <1>6 DEF D!Moves, D!Asking, DefenceInv, Dated, Caused, Compared, DefenceHasCause, D!clock
<1>7. CASE D!NextSlot
  BY <1>7 DEF D!NextSlot, D!Asking, DefenceInv, Dated, Caused, Compared, DefenceHasCause, D!Crash,
              D!market, D!history
<1>8. CASE D!NextDay
  BY <1>8 DEF D!NextDay, D!Asking, DefenceInv, Dated, Caused, Compared, DefenceHasCause, D!NoApp, D!NoCheck
<1>9. CASE UNCHANGED D!vars
  BY <1>9 DEF D!vars, D!Asking, DefenceInv, Dated, Caused, Compared, DefenceHasCause, D!Crash, D!clock,
              D!market, D!history
<1> QED BY <1>1, <1>2, <1>3, <1>4, <1>5, <1>6, <1>7, <1>8, <1>9 DEF D!Next

\* The inductive invariant: samples and the defence are dated, crashes have causes, and
\* a check compares with the SET of the last switch.
THEOREM DefenceInvariance == D!Spec => []DefenceInv
  BY DefenceInit, DefenceNext, PTL DEF D!Spec

\* The flash crash defence of a day comes from a crash of that day or from a sample of
\* an earlier day that a failed KIS query let stand for the market: there is no third
\* cause, whatever restarts cut.
THEOREM DefenceCause == D!Spec => []DefenceHasCause
<1>1. DefenceInv => DefenceHasCause
  BY DEF DefenceInv, Caused
<1> QED BY <1>1, DefenceInvariance, PTL

\* No activation or restart puts another SET than the one last judged right in force once
\* the monitor has switched, although checks compare with a SET read before an await.
THEOREM SwitchStands == D!Spec => []JudgedInForce
<1>1. DefenceInv => JudgedInForce
  BY DEF DefenceInv, Compared, JudgedInForce
<1> QED BY <1>1, DefenceInvariance, PTL

===============================================================================

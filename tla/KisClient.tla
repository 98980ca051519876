------------------------------- MODULE KisClient -------------------------------
(***************************************************************************)
(* The one client that every KIS call goes through: the rate limiter, the   *)
(* token that the calls share, the one re-issue after a 401, and the        *)
(* retries of the decorator; beside the calls, the morning job that renews  *)
(* the token and puts the old one back when KIS refuses, and the baseline   *)
(* job that forgets it when KIS says it has expired.                        *)
(*                                                                         *)
(* Every action is the code a task runs from one await to the next. An      *)
(* asyncio.Lock is the queue of the tasks that want it, its head holds it.  *)
(* Time passes in steps, in which the limiter's sleeps come nearer to their *)
(* end; how deep the limiter is throttled is left open: its delay is any    *)
(* from the configured one to the longest. KIS judges a request when it     *)
(* answers it.                                                              *)
(***************************************************************************)
EXTENDS Naturals, Sequences

CONSTANTS
  Callers,    \* tasks that call KIS
  Baselines,  \* of them, those of job_capital_baseline
  Renewal,    \* the task of job_refresh_kis_token
  Retries,    \* attempts of retry_on_kis_error
  TokenTries, \* attempts of get_token to have a token issued
  Pace,       \* the limiter's delay, in steps
  MaxPace,    \* its delay at _THROTTLE_MIN_RPS
  MaxTokens   \* bound on the tokens that KIS issues

Tasks == Callers \cup {Renewal}

ASSUME ClientAssumption ==
  /\ Baselines \subseteq Callers
  /\ Renewal \notin Callers
  /\ {Retries, TokenTries, Pace} \subseteq Nat \ {0}
  /\ MaxPace \in Nat \ {0} /\ Pace <= MaxPace
  /\ MaxTokens \in Nat

VARIABLES
  call,      \* where each task is
  pacers,    \* the limiter's lock
  since,     \* steps since the limiter's last_call, up to MaxPace
  token,     \* the token, 0 for none
  keepers,   \* the token lock
  over,      \* expires_at of the token is near or past
  issued,    \* KIS: the number of tokens issued
  good,      \* KIS: the tokens it accepts
  received,  \* history: the newest token that an answer has brought
  putBack    \* history: the token was put back by the renewal

limiter == <<pacers, since>>
tokens  == <<token, keepers, over, received, putBack>>
kis     == <<issued, good>>
vars    == <<call, pacers, since, token, keepers, over, issued, good, received, putBack>>

-------------------------------------------------------------------------------
(* Data *)

Tokens == 1 .. MaxTokens

\* "pace": wants the limiter's lock; "nap": holds it and sleeps; "token": wants the token
\* lock, to have a token; "forget": wants it, to forget the one refused; "issue": holds it
\* and awaits a token; "sent": awaits the answer; "backoff": sleeps before a retry.
Places == {"idle", "pace", "nap", "token", "issue", "sent", "forget", "backoff"}

Call == [pc      : Places,
         tries   : 0 .. Retries - 1,   \* failed attempts of the decorator
         asked   : 0 .. TokenTries - 1,\* failed attempts to have a token issued
         nap     : 0 .. MaxPace,       \* steps left of the limiter's sleep
         granted : 0 .. MaxTokens,     \* the token that KIS has issued for the attempt
         token   : 0 .. MaxTokens,     \* of the request; the renewal's old one
         refused : 0 .. MaxTokens]     \* the token that the 401 was about

NoCall == [pc |-> "idle", tries |-> 0, asked |-> 0, nap |-> 0,
           granted |-> 0, token |-> 0, refused |-> 0]

TokenIsValid == token # 0 /\ ~over

Least(m, n)    == IF m < n THEN m ELSE n
Greatest(m, n) == IF m < n THEN n ELSE m

\* The token is forgotten.
NoToken == token' = 0 /\ over' = FALSE /\ putBack' = FALSE

\* A lock is free for its next holder when the head of its queue has not taken it yet.
Turn(t, queue) == queue # <<>> /\ Head(queue) = t

-------------------------------------------------------------------------------
(* The limiter *)

\* current_delay: longer with every level of the throttling, to that of the least rate.
Delays == Pace .. MaxPace

\* request() begins, or begins again after a backoff.
Begins(t) ==
  /\ call[t].pc \in {"idle", "backoff"}
  /\ t \in Callers
  /\ call' = [call EXCEPT ![t].pc = "pace"]
  /\ pacers' = Append(pacers, t)
  /\ UNCHANGED <<since, tokens, kis>>

PacesUnlocked(t) ==                                                     \* mutant
  /\ call[t].pc = "pace"
  /\ \E d \in Delays : call' = [call EXCEPT ![t].pc = "nap", ![t].nap = d - Least(since, d)]
  /\ UNCHANGED <<limiter, tokens, kis>>
\* RateLimiter.wait has the lock: the sleep is what the delay of now leaves of it.
Paces(t) ==
  /\ call[t].pc = "pace"
  /\ Turn(t, pacers)
  /\ \E d \in Delays : call' = [call EXCEPT ![t].pc = "nap", ![t].nap = d - Least(since, d)]
  /\ UNCHANGED <<limiter, tokens, kis>>

\* The token in place goes with the request, or the call queues for one: it does not
\* have to when it is the first, but nothing runs between.
Passes(t) ==
  /\ call[t].pc = "nap"
  /\ call[t].nap = 0
  /\ since' = 0
  /\ pacers' = Tail(pacers)
  /\ IF TokenIsValid
       THEN /\ call' = [call EXCEPT ![t].pc = "sent", ![t].token = token]
            /\ UNCHANGED keepers
       ELSE /\ call' = [call EXCEPT ![t].pc = "token"]
            /\ keepers' = Append(keepers, t)
  /\ UNCHANGED <<token, over, received, putBack, kis>>

\* Time: sleeps come nearer to their end.
Steps ==
  /\ since < MaxPace \/ \E t \in Tasks : call[t].nap > 0
  /\ since' = Least(since + 1, MaxPace)
  /\ call' = [t \in Tasks |-> [call[t] EXCEPT !.nap = Greatest(@, 1) - 1]]
  /\ UNCHANGED <<pacers, tokens, kis>>

-------------------------------------------------------------------------------
(* Attempts *)

\* retry_on_kis_error: an error that it knows is retried after a backoff.
RetriesForEver(t) == [call[t] EXCEPT !.pc = "backoff", !.asked = 0]     \* mutant
RetriedOnceMore(t) ==                                                   \* mutant
  IF call[t].tries < Retries
    THEN [NoCall EXCEPT !.pc = "backoff", !.tries = call[t].tries + 1]
    ELSE NoCall
Retried(t) ==
  IF call[t].tries + 1 < Retries
    THEN [NoCall EXCEPT !.pc = "backoff", !.tries = call[t].tries + 1]
    ELSE NoCall

\* The error of an attempt: the decorator knows it, or raises it to the caller.
Fails(t) == call' \in {[call EXCEPT ![t] = Retried(t)], [call EXCEPT ![t] = NoCall]}

-------------------------------------------------------------------------------
(* The token *)

\* The task that holds the token lock gives it back.
Leaves == keepers' = Tail(keepers)

\* get_token has a token for the request.
Sent(t, g) ==
  call' = [call EXCEPT ![t].pc = IF t = Renewal THEN "idle" ELSE "sent",
                       ![t].token = IF t = Renewal THEN 0 ELSE g,
                       ![t].asked = 0,
                       ![t].granted = 0]

\* get_token has the lock: another task may have had a token issued by now.
LocksUnlocked(t) ==                                                     \* mutant
  /\ call[t].pc = "token"
  /\ IF TokenIsValid
       THEN Sent(t, token) /\ Leaves
       ELSE /\ call' = [call EXCEPT ![t].pc = "issue"]
            /\ UNCHANGED keepers
  /\ UNCHANGED <<limiter, token, over, received, putBack, kis>>
Locks(t) ==
  /\ call[t].pc = "token"
  /\ Turn(t, keepers)
  /\ IF TokenIsValid
       THEN Sent(t, token) /\ Leaves
       ELSE /\ call' = [call EXCEPT ![t].pc = "issue"]
            /\ UNCHANGED keepers
  /\ UNCHANGED <<limiter, token, over, received, putBack, kis>>

\* KIS issues a token.
Grants(t) ==
  /\ call[t].pc = "issue"
  /\ call[t].granted = 0
  /\ issued < MaxTokens
  /\ issued' = issued + 1
  /\ good' = good \cup {issued + 1}
  /\ call' = [call EXCEPT ![t].granted = issued + 1]
  /\ UNCHANGED <<limiter, tokens>>

\* Its answer brings the token.
Issued(t) ==
  /\ call[t].pc = "issue"
  /\ call[t].granted # 0
  /\ token' = call[t].granted
  /\ over' = FALSE
  /\ received' = Greatest(received, call[t].granted)
  /\ putBack' = FALSE
  /\ Sent(t, call[t].granted)
  /\ Leaves
  /\ UNCHANGED <<limiter, kis>>

\* What the renewal does when get_token raises: the old token is put back, unless it was
\* none or has less than a minute to go; get_token wants three.
PutsBack(t) ==
  \/ /\ call[t].token # 0
     /\ token' = call[t].token
     /\ over' \in BOOLEAN
     /\ putBack' = TRUE
  \/ UNCHANGED <<token, over, putBack>>

\* The attempt fails: KIS refuses (one token a minute), or its answer is lost. After the
\* last one get_token raises, to the decorator or to the renewal.
NotIssued(t) ==
  /\ call[t].pc = "issue"
  /\ \/ /\ call[t].asked + 1 < TokenTries
        /\ call' = [call EXCEPT ![t].asked = @ + 1, ![t].granted = 0]
        /\ UNCHANGED <<token, over, keepers, putBack>>
     \/ /\ call[t].asked + 1 = TokenTries
        /\ Leaves
        /\ \/ /\ t # Renewal
              /\ Fails(t)
              /\ UNCHANGED <<token, over, putBack>>
           \/ /\ t = Renewal
              /\ PutsBack(t)
              /\ call' = [call EXCEPT ![t] = NoCall]
  /\ UNCHANGED <<limiter, received, kis>>

\* job_refresh_kis_token forgets the token, without the lock, and wants one.
Renews ==
  /\ call[Renewal].pc = "idle"
  /\ call' = [call EXCEPT ![Renewal].pc = "token", ![Renewal].token = token]
  /\ keepers' = Append(keepers, Renewal)
  /\ NoToken
  /\ UNCHANGED <<limiter, received, kis>>

-------------------------------------------------------------------------------
(* Answers *)

\* An answer with a body.
Answered(t) ==
  /\ call[t].pc = "sent"
  /\ call[t].token \in good
  /\ call' = [call EXCEPT ![t] = NoCall]
  /\ UNCHANGED <<limiter, tokens, kis>>

\* EGW00201, too many requests: mark_rate_limited, and a retry.
Limited(t) ==
  /\ call[t].pc = "sent"
  /\ call' = [call EXCEPT ![t] = Retried(t)]
  /\ UNCHANGED <<limiter, tokens, kis>>

\* EGW00301 and every other error, a timeout of the client's own among them.
Errs(t) ==
  /\ call[t].pc = "sent"
  /\ Fails(t)
  /\ UNCHANGED <<limiter, tokens, kis>>

\* 401: the token is forgotten under the lock, whichever it is by then; the second 401
\* of an attempt is an error (Errs).
Unauthorized(t) ==
  /\ call[t].pc = "sent"
  /\ call[t].token \notin good
  /\ call[t].refused = 0
  /\ call' = [call EXCEPT ![t].pc = "forget", ![t].refused = call[t].token,
                          ![t].token = 0]
  /\ keepers' = Append(keepers, t)
  /\ UNCHANGED <<limiter, token, over, received, putBack, kis>>

KeepsToken(t) ==                                                        \* mutant
  /\ call[t].pc = "forget"
  /\ Turn(t, keepers)
  /\ call' = [call EXCEPT ![t].pc = "token"]
  /\ keepers' = Append(Tail(keepers), t)
  /\ UNCHANGED <<limiter, token, over, received, putBack, kis>>
\* The lock is given back before get_token wants it again, behind those that wait.
Forgets(t) ==
  /\ call[t].pc = "forget"
  /\ Turn(t, keepers)
  /\ NoToken
  /\ call' = [call EXCEPT ![t].pc = "token"]
  /\ keepers' = Append(Tail(keepers), t)
  /\ UNCHANGED <<limiter, received, kis>>

\* job_capital_baseline is told that the token has expired (EGW00123, no 401): it forgets
\* the token, without the lock, and asks once more, which is a call of its own.
ForgetsExpired(t) ==
  /\ t \in Baselines
  /\ call[t].pc = "sent"
  /\ call[t].token \notin good
  /\ NoToken
  /\ call' = [call EXCEPT ![t] = NoCall]
  /\ UNCHANGED <<limiter, keepers, received, kis>>

-------------------------------------------------------------------------------
(* KIS and the clock *)

\* KIS no longer accepts g, before its time (a token issued elsewhere) or at its time.
Revokes(g) ==
  /\ g \in good
  /\ good' = good \ {g}
  /\ UNCHANGED <<call, limiter, tokens, issued>>

Expires ==
  /\ token # 0
  /\ ~over
  /\ over' = TRUE
  /\ UNCHANGED <<call, limiter, token, keepers, received, putBack, kis>>

-------------------------------------------------------------------------------
(* Specification *)

Init ==
  /\ call = [t \in Tasks |-> NoCall]
  /\ pacers = <<>>
  /\ since = MaxPace
  /\ token = 0
  /\ keepers = <<>>
  /\ over = FALSE
  /\ issued = 0
  /\ good = {}
  /\ received = 0
  /\ putBack = FALSE

Gets(t) == Locks(t) \/ Issued(t) \/ NotIssued(t)

Answers(t) == Answered(t) \/ Limited(t) \/ Errs(t) \/ Unauthorized(t) \/ ForgetsExpired(t)

\* What a call does once it has begun.
Continues(t) ==
  \/ call[t].pc = "backoff" /\ Begins(t)
  \/ Paces(t) \/ Passes(t) \/ Gets(t) \/ Answers(t) \/ Forgets(t)

Next ==
  \/ \E t \in Tasks : Begins(t) \/ Continues(t) \/ Grants(t)
  \/ Renews
  \/ Steps \/ Expires
  \/ \E g \in Tokens : Revokes(g)

Spec == Init /\ [][Next]_vars

\* Tasks run, sleeps end, and KIS answers or the client's timeout does.
FairSpec ==
  /\ Spec
  /\ WF_vars(Steps)
  /\ \A t \in Tasks : WF_vars(Continues(t))

-------------------------------------------------------------------------------
(* Properties *)

\* The variables have their types; a lock has one queue in which every task is once.
TypeOK ==
  /\ call \in [Tasks -> Call]
  /\ \A queue \in {pacers, keepers} : \A i, j \in DOMAIN queue :
       queue[i] \in Tasks /\ (queue[i] = queue[j] => i = j)
  /\ since \in 0 .. MaxPace
  /\ token \in 0 .. MaxTokens
  /\ over \in BOOLEAN
  /\ issued \in 0 .. MaxTokens
  /\ good \subseteq 1 .. issued
  /\ received \in 0 .. issued
  /\ putBack \in BOOLEAN

\* Calls pass the limiter one delay apart at least (RateLimiter.wait), however many of
\* them wait: whoever sleeps knows the last that passed.
Paced == [][\A t \in Callers : call[t].pc = "nap" /\ call'[t].pc # "nap" => since >= Pace]_vars

\* The token in place is the newest that KIS has given to this client, whatever 401s and
\* re-issues cross, unless the renewal has put an older one back.
NewestToken == token # 0 /\ ~putBack => token = received

\* A request that was refused with 401 is sent again with a newer token, unless the renewal
\* has put the refused one back in between.
ResentWithNewer ==
  [][\A t \in Callers :
       call[t].pc # "sent" /\ call'[t].pc = "sent" /\ call'[t].refused # 0 =>
         call'[t].token > call'[t].refused \/ putBack]_call

\* Every call comes to an end, in an answer or in an error: no chain of limits, refused
\* tokens and failed issues keeps one of them, or the locks, for ever.
EveryCallEnds == \A t \in Callers : call[t].pc # "idle" ~> call[t].pc = "idle"
===============================================================================

---------------------------- MODULE RetriedCalls ----------------------------
(***************************************************************************)
(* retry_with_timeout(lambda: breaker.call(service)): clients that retry   *)
(* through one circuit breaker, with a deadline on every attempt.          *)
(*                                                                         *)
(* A refusal is an exception like any other to default_retryable, and      *)
(* costs an attempt.  A timeout is one, too, but the breaker is told only  *)
(* that the call was cancelled, and does not count it.                     *)
(***************************************************************************)
EXTENDS CircuitBreaker

CONSTANTS Attempts, BaseDelay, Factor, MaxDelay, Jitter

VARIABLES attempt, state, pause, failed

R == INSTANCE Retry

ASSUME RetriedAssumption == R!PolicyAssumption

retryVars == <<attempt, state, pause, failed>>
allVars == <<vars, retryVars>>

InitBoth == Init /\ R!Init

\* The factory is called: the breaker lets the call through, or refuses it.
Enters(c) ==
  /\ state[c] = "trying"
  /\ BeginCall(c)
  /\ UNCHANGED retryVars

RefusedForFree(c) == UNCHANGED retryVars     \* mutant: no attempt is spent
Refused(c) == R!Fails(c, TRUE)

IsRefused(c) ==
  /\ state[c] = "trying"
  /\ pc[c] = "idle"
  /\ ~MayCall
  /\ Refused(c)
  /\ UNCHANGED vars

\* The service answers, with a result or with a retryable error or another.
Answers(c) ==
  \/ CallSucceeds(c) /\ R!Succeeds(c)
  \/ \E retryable \in BOOLEAN : CallFails(c) /\ R!Fails(c, retryable)

\* wait_for gives up on the service: it cancels the call and raises TimeoutError.
TimesOut(c) == CallCancelled(c) /\ R!Fails(c, TRUE)

\* The client is cancelled, asleep or in wait_for; the service may answer all
\* the same.
IsCancelled(c) ==
  /\ R!Cancelled(c)
  /\ \/ CallCancelled(c) \/ CallSucceeds(c) \/ CallFails(c)
     \/ pc[c] = "idle" /\ UNCHANGED vars

Wakes(c) == R!Wakes(c) /\ UNCHANGED vars

NextBoth ==
  \/ Tick /\ UNCHANGED retryVars
  \/ \E c \in Clients :
       \/ Enters(c) \/ IsRefused(c) \/ Answers(c) \/ TimesOut(c) \/ Wakes(c) \/ IsCancelled(c)
       \/ R!Begin(c) /\ UNCHANGED vars

SpecBoth == InitBoth /\ [][NextBoth]_allVars

\* Time passes: the loop runs its clients, sleeps end, deadlines expire.  The
\* service may hang for ever.
FairSpecBoth ==
  /\ SpecBoth
  /\ WF_allVars(Tick /\ UNCHANGED retryVars)
  /\ \A c \in Clients : WF_allVars(Enters(c) \/ IsRefused(c) \/ Wakes(c) \/ TimesOut(c))

-----------------------------------------------------------------------------
(* Properties *)

\* RetryError is raised when the whole budget has been spent, on refusals too,
\* and no attempt has waited longer than max_delay.
BudgetSpent == R!BudgetSpent

\* A retry ends, although the service hangs and although the breaker is open
\* whenever it looks ("The timeout is what makes the attempts count real"), and
\* an open breaker opens up again.
EndsInTime ==
  /\ \A c \in Clients :
       (state[c] \in {"sleeping", "trying"}) ~> (state[c] \notin {"sleeping", "trying"})
  /\ OpenEnds
=============================================================================

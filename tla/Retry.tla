-------------------------------- MODULE Retry --------------------------------
(***************************************************************************)
(* aiolab.retry.retry and RetryPolicy: attempts with a capped exponential  *)
(* backoff between them.                                                   *)
(*                                                                         *)
(* Delays are whole units of time.  An attempt is a state: what the        *)
(* factory does in it, and when its sleep is over, is left to the module   *)
(* that composes retry with a factory.                                     *)
(***************************************************************************)
EXTENDS Naturals, FiniteSetsExt

CONSTANTS
  Clients,     \* tasks that call retry, again and again
  Attempts,    \* policy.attempts
  BaseDelay,   \* policy.base_delay
  Factor,      \* policy.factor
  MaxDelay,    \* policy.max_delay
  Jitter       \* policy.jitter

\* __post_init__ raises otherwise.  The last line says that delays are whole;
\* it follows from the others, by an induction that the provers do not have.
PolicyAssumption ==
  /\ Attempts \in Nat \ {0}
  /\ BaseDelay \in Nat
  /\ Factor \in Nat \ {0}
  /\ MaxDelay \in Nat
  /\ Jitter \in BOOLEAN
  /\ \A n \in 0 .. Attempts : Factor^n \in Nat

VARIABLES
  attempt,   \* per client: attempt, 0 before the first
  state,     \* per client: where it is in retry()
  pause,     \* per client: the delay before its attempt
  failed     \* history: how many attempts of this retry() have failed

retryVars == <<attempt, state, pause, failed>>

Init ==
  /\ attempt = [c \in Clients |-> 0]
  /\ state = [c \in Clients |-> "idle"]
  /\ pause = [c \in Clients |-> 0]
  /\ failed = [c \in Clients |-> 0]

RawDelay(n) == IF n <= 1 THEN 0 ELSE Min({MaxDelay, BaseDelay * Factor^(n - 2)})

\* delay_for; rand() may draw anything.
Delays(n) == IF Jitter THEN 0 .. RawDelay(n) ELSE {RawDelay(n)}

\* The top of the loop: a delay of zero is no sleep.
GoesOn(c, n) ==
  /\ attempt' = [attempt EXCEPT ![c] = n]
  /\ \E d \in Delays(n) :
       /\ pause' = [pause EXCEPT ![c] = d]
       /\ state' = [state EXCEPT ![c] = IF d > 0 THEN "sleeping" ELSE "trying"]

Ends(c, how) ==
  /\ state' = [state EXCEPT ![c] = how]
  /\ UNCHANGED <<attempt, pause>>

Begin(c) ==
  /\ state[c] \notin {"sleeping", "trying"}
  /\ failed' = [failed EXCEPT ![c] = 0]
  /\ GoesOn(c, 1)

Wakes(c) ==
  /\ state[c] = "sleeping"
  /\ state' = [state EXCEPT ![c] = "trying"]
  /\ UNCHANGED <<attempt, pause, failed>>

Succeeds(c) ==
  /\ state[c] = "trying"
  /\ Ends(c, "returned")
  /\ UNCHANGED failed

\* An exception for which retry_on says no, and one for which it says yes.
\* The last attempt ends in RetryError.
SpentEarly(c) == attempt[c] + 1 >= Attempts             \* mutant
Spent(c) == attempt[c] = Attempts

Fails(c, retryable) ==
  /\ state[c] = "trying"
  /\ failed' = [failed EXCEPT ![c] = @ + 1]
  /\ \/ ~retryable /\ Ends(c, "raised")
     \/ retryable /\ Spent(c) /\ Ends(c, "exhausted")
     \/ retryable /\ ~Spent(c) /\ GoesOn(c, attempt[c] + 1)

\* CancelledError, in the sleep or in the factory, is never retried.
Cancelled(c) ==
  /\ state[c] \in {"sleeping", "trying"}
  /\ Ends(c, "cancelled")
  /\ UNCHANGED failed

-----------------------------------------------------------------------------
(* Properties *)

\* Every variable has its type.
TypeOK ==
  /\ attempt \in [Clients -> 0 .. Attempts]
  /\ state \in [Clients -> {"idle", "sleeping", "trying",
                            "returned", "raised", "exhausted", "cancelled"}]
  /\ pause \in [Clients -> 0 .. MaxDelay]
  /\ failed \in [Clients -> 0 .. Attempts]

\* The whole budget is spent, no more and no less, before RetryError is raised,
\* and the backoff grows to its cap and no further.
BudgetSpent ==
  \A c \in Clients :
    /\ state[c] = "exhausted" => failed[c] = Attempts
    /\ pause[c] <= MaxDelay
=============================================================================

--------------------------- MODULE CircuitBreaker ---------------------------
(***************************************************************************)
(* aiolab.retry.CircuitBreaker, shared by concurrent calls.                *)
(*                                                                         *)
(* call() touches the breaker before and after its only await, so a call   *)
(* is two steps, with any steps of other calls and of the clock between.   *)
(* A call that is refused changes nothing and is not a step.               *)
(***************************************************************************)
EXTENDS Integers, Sequences, FiniteSets, FiniteSetsExt

CONSTANTS
  Clients,     \* tasks that call through the breaker, again and again
  Threshold,   \* threshold
  ResetAfter,  \* reset_after, in ticks of the clock
  Never        \* _opened_at is None

ASSUME BreakerAssumption ==
  /\ Threshold \in Nat \ {0}          \* otherwise __init__ raises
  /\ ResetAfter \in Nat
  /\ Never \notin 0 .. ResetAfter

VARIABLES
  failures,  \* _failures, counted no further than Threshold
  age,       \* clock() - _opened_at, counted no further than ResetAfter
  pc,        \* per client: idle, or inside a call
  recent     \* history: the last Threshold outcomes recorded

breakerVars == <<failures, age>>
vars == <<breakerVars, pc, recent>>

Init ==
  /\ failures = 0
  /\ age = Never
  /\ pc = [c \in Clients |-> "idle"]
  /\ recent = <<>>

State ==
  IF age = Never THEN "closed"
  ELSE IF age >= ResetAfter THEN "half_open" ELSE "open"

Moves(c, state) == pc' = [pc EXCEPT ![c] = state]

Remembers(outcome) ==
  LET all == Append(recent, outcome)
  IN recent' = IF Len(all) > Threshold THEN Tail(all) ELSE all

\* call() up to its await.
MayCall == State # "open"

BeginCall(c) ==
  /\ pc[c] = "idle"
  /\ MayCall
  /\ Moves(c, "calling")
  /\ UNCHANGED <<breakerVars, recent>>

\* Mutant: a success does not reset the count.
RecordCumulative == UNCHANGED failures /\ age' = Never
RecordSuccess ==
  /\ failures' = 0
  /\ age' = Never

RecordFailure ==
  /\ failures' = Min({failures + 1, Threshold})
  /\ age' = IF failures + 1 >= Threshold THEN 0 ELSE age

CallSucceeds(c) ==
  /\ pc[c] = "calling"
  /\ Moves(c, "idle")
  /\ RecordSuccess
  /\ Remembers("success")

CallFails(c) ==
  /\ pc[c] = "calling"
  /\ Moves(c, "idle")
  /\ RecordFailure
  /\ Remembers("failure")

\* A cancelled call is not recorded.
CallCancelled(c) ==
  /\ pc[c] = "calling"
  /\ Moves(c, "idle")
  /\ UNCHANGED <<breakerVars, recent>>

Tick ==
  /\ age # Never
  /\ age < ResetAfter
  /\ age' = age + 1
  /\ UNCHANGED <<failures, pc, recent>>

Next ==
  \/ Tick
  \/ \E c \in Clients :
       BeginCall(c) \/ CallSucceeds(c) \/ CallFails(c) \/ CallCancelled(c)

Spec == Init /\ [][Next]_vars

-----------------------------------------------------------------------------
(* Properties *)

\* Every variable has its type.
TypeOK ==
  /\ failures \in 0 .. Threshold
  /\ age \in (0 .. ResetAfter) \cup {Never}
  /\ pc \in [Clients -> {"idle", "calling"}]
  /\ recent \in Seq({"success", "failure"})
  /\ Len(recent) <= Threshold

\* "Consecutive, not cumulative": the breaker is tripped exactly while the
\* last Threshold outcomes were failures, in whatever order calls that
\* overlapped have ended, with cancelled calls between them.
TrippedByConsecutive ==
  (age # Never) <=>
     /\ Len(recent) = Threshold
     /\ \A k \in 1 .. Threshold : recent[k] = "failure"

\* An open breaker opens up again: late failures of calls that were inside
\* when it tripped can postpone that, but only so often.
OpenEnds == (State = "open") ~> (State # "open")
=============================================================================

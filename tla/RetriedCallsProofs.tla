-------------------------- MODULE RetriedCallsProofs --------------------------
(***************************************************************************)
(* Retries through one circuit breaker: consecutive failures and nothing   *)
(* else trip it, and a retry spends its budget exactly, for any number of  *)
(* clients, any threshold, any policy.                                     *)
(***************************************************************************)
EXTENDS RetriedCalls, TLAPS

\* The count is the length of the run of failures at the end of the history:
\* those are failures, and the outcome before them, if remembered, is not.
CountsTheRun ==
  /\ failures <= Len(recent)
  /\ \A k \in 1 .. Len(recent) : k > Len(recent) - failures => recent[k] = "failure"
  /\ failures < Len(recent) => recent[Len(recent) - failures] = "success"

TrippedAtThreshold == age # Never <=> failures = Threshold

BreakerInv == TypeOK /\ CountsTheRun /\ TrippedAtThreshold

\* An attempt under way is the one after those that have failed.
Counted ==
  \A c \in Clients :
    /\ state[c] \in {"sleeping", "trying"} => attempt[c] >= 1 /\ failed[c] = attempt[c] - 1
    /\ state[c] = "exhausted" => failed[c] = Attempts

RetryInv == R!TypeOK /\ Counted

USE BreakerAssumption

-----------------------------------------------------------------------------
(* The smaller and the larger of two numbers *)

LEMMA MinOfTwo ==
  ASSUME NEW a \in Int, NEW b \in Int
  PROVE  Min({a, b}) = IF a <= b THEN a ELSE b
  BY DEF Min

LEMMA MinInRetry ==
  ASSUME NEW a \in Int, NEW b \in Int
  PROVE  R!Min({a, b}) = IF a <= b THEN a ELSE b
  BY DEF R!Min

-----------------------------------------------------------------------------
(* The breaker *)

LEMMA BreakerInit == Init => BreakerInv
  BY DEF Init, BreakerInv, TypeOK, CountsTheRun, TrippedAtThreshold

\* The history is kept at most as long as the threshold.
LEMMA Remembered ==
  ASSUME NEW outcome \in {"success", "failure"}, TypeOK, Remembers(outcome)
  PROVE  /\ recent' \in Seq({"success", "failure"})
         /\ Len(recent') <= Threshold
         /\ Len(recent) < Threshold =>
              /\ Len(recent') = Len(recent) + 1
              /\ \A k \in 1 .. Len(recent) : recent'[k] = recent[k]
         /\ Len(recent) = Threshold =>
              /\ Len(recent') = Threshold
              /\ \A k \in 2 .. Len(recent) : recent'[k - 1] = recent[k]
         /\ recent'[Len(recent')] = outcome
         /\ Len(recent') > 0
  BY DEF Remembers, TypeOK

LEMMA SuccessKeeps ==
  ASSUME BreakerInv, NEW c \in Clients, CallSucceeds(c)
  PROVE  BreakerInv'
  <1>1. TypeOK'
    BY Remembered DEF BreakerInv, TypeOK, CallSucceeds, RecordSuccess, Moves
  <1>2. CountsTheRun'
    BY Remembered DEF BreakerInv, TypeOK, CountsTheRun, CallSucceeds, RecordSuccess
  <1>3. TrippedAtThreshold'
    BY DEF TrippedAtThreshold, CallSucceeds, RecordSuccess
  <1> QED
    BY <1>1, <1>2, <1>3 DEF BreakerInv

LEMMA FailureKeeps ==
  ASSUME BreakerInv, NEW c \in Clients, CallFails(c)
  PROVE  BreakerInv'
  <1>1. failures' = (IF failures < Threshold THEN failures + 1 ELSE Threshold)
    BY MinOfTwo DEF BreakerInv, TypeOK, CallFails, RecordFailure
  <1>2. TypeOK'
    BY <1>1, Remembered DEF BreakerInv, TypeOK, CallFails, RecordFailure, Moves
  <1>3. CountsTheRun'
    <2>0. TypeOK /\ CountsTheRun /\ Remembers("failure")
      BY DEF BreakerInv, CallFails
    <2>1. CASE Len(recent) < Threshold
      <3>1. /\ Len(recent') = Len(recent) + 1
            /\ failures' = failures + 1
            /\ recent'[Len(recent')] = "failure"
        BY <1>1, <2>0, <2>1, Remembered DEF TypeOK, CountsTheRun
      <3>2. \A k \in 1 .. Len(recent) : recent'[k] = recent[k]
        BY <2>0, <2>1, Remembered
      <3> QED
        BY <2>0, <3>1, <3>2 DEF TypeOK, CountsTheRun
    <2>2. CASE Len(recent) = Threshold
      <3>1. ASSUME NEW k \in 1 .. Len(recent'), k > Len(recent') - failures'
            PROVE  recent'[k] = "failure"
        <4>1. CASE k = Len(recent')
          BY <2>0, <4>1, Remembered
        <4>2. CASE k < Len(recent')
          <5>1. k + 1 \in 2 .. Len(recent) /\ k + 1 > Len(recent) - failures
            BY <1>1, <2>0, <2>2, <3>1, <4>2, Remembered DEF TypeOK
          <5>2. recent'[k] = recent[k + 1]
            BY <2>0, <2>2, <5>1, Remembered DEF TypeOK
          <5> QED
            BY <2>0, <5>1, <5>2 DEF CountsTheRun, TypeOK
        <4> QED
          BY <4>1, <4>2, <2>0, Remembered
      <3>2. ASSUME failures' < Len(recent')
            PROVE  recent'[Len(recent') - failures'] = "success"
        <4>1. failures < Threshold /\ failures' = failures + 1 /\ Len(recent') = Threshold
          BY <1>1, <2>0, <2>2, <3>2, Remembered DEF TypeOK
        <4>2. Len(recent) - failures \in 2 .. Len(recent)
          BY <2>0, <2>2, <3>2, <4>1 DEF TypeOK
        <4>3. recent'[(Len(recent) - failures) - 1] = recent[Len(recent) - failures]
          BY <2>0, <2>2, <4>2, Remembered
        <4> QED
          BY <2>0, <2>2, <4>1, <4>3 DEF CountsTheRun, TypeOK
      <3>3. failures' <= Len(recent')
        BY <1>1, <2>0, <2>2, Remembered DEF TypeOK
      <3> QED
        BY <3>1, <3>2, <3>3 DEF CountsTheRun
    <2> QED
      BY <2>0, <2>1, <2>2 DEF TypeOK
  <1>4. TrippedAtThreshold'
    BY <1>1 DEF BreakerInv, TypeOK, TrippedAtThreshold, CallFails, RecordFailure
  <1> QED
    BY <1>2, <1>3, <1>4 DEF BreakerInv

\* Beginning and cancelling a call record nothing, and time does not trip it.
LEMMA OthersKeep ==
  ASSUME BreakerInv, NEW c \in Clients,
         BeginCall(c) \/ CallCancelled(c) \/ Tick \/ UNCHANGED vars
  PROVE  BreakerInv'
  BY DEF BreakerInv, TypeOK, CountsTheRun, TrippedAtThreshold,
         BeginCall, CallCancelled, Tick, Moves, vars, breakerVars

\* The invariant says what the breaker promises.
LEMMA BreakerSafe == BreakerInv => TrippedByConsecutive
  BY DEF BreakerInv, TypeOK, CountsTheRun, TrippedAtThreshold, TrippedByConsecutive

-----------------------------------------------------------------------------
(* The retries *)

LEMMA DelayCapped ==
  ASSUME NEW n \in 1 .. Attempts
  PROVE  R!RawDelay(n) \in 0 .. MaxDelay
  <1>1. CASE n = 1
    BY <1>1, RetriedAssumption DEF R!RawDelay, R!PolicyAssumption
  <1>2. CASE n > 1
    <2>1. BaseDelay * Factor^(n - 2) \in Nat
      <3>1. n - 2 \in 0 .. Attempts
        BY <1>2, RetriedAssumption DEF R!PolicyAssumption
      <3>2. Factor^(n - 2) \in Nat
        BY <3>1, RetriedAssumption DEF R!PolicyAssumption
      <3> QED
        BY <3>2, RetriedAssumption DEF R!PolicyAssumption
    <2> QED
      BY <1>2, <2>1, MinInRetry, RetriedAssumption DEF R!RawDelay, R!PolicyAssumption
  <1> QED
    BY <1>1, <1>2

LEMMA RetryInit == R!Init => RetryInv
  BY RetriedAssumption DEF R!Init, RetryInv, R!TypeOK, Counted, R!PolicyAssumption

\* The next attempt, after so many failures.
LEMMA GoesOnKeeps ==
  ASSUME RetryInv, NEW c \in Clients, NEW n \in 1 .. Attempts, NEW before, before = n - 1,
         R!GoesOn(c, n), failed' = [failed EXCEPT ![c] = before]
  PROVE  RetryInv'
  <1>1. PICK d \in R!Delays(n) :
          /\ pause' = [pause EXCEPT ![c] = d]
          /\ state' = [state EXCEPT ![c] = IF d > 0 THEN "sleeping" ELSE "trying"]
    BY DEF R!GoesOn
  <1>2. d \in 0 .. MaxDelay
    BY <1>1, DelayCapped, RetriedAssumption DEF R!Delays, R!PolicyAssumption
  <1>3. Attempts \in Nat /\ attempt' = [attempt EXCEPT ![c] = n]
    BY RetriedAssumption DEF R!GoesOn, R!PolicyAssumption
  <1>4. R!TypeOK'
    BY <1>1, <1>2, <1>3 DEF RetryInv, R!TypeOK
  <1>5. Counted'
    BY <1>1, <1>3 DEF RetryInv, R!TypeOK, Counted
  <1> QED
    BY <1>4, <1>5 DEF RetryInv

LEMMA BeginKeeps ==
  ASSUME RetryInv, NEW c \in Clients, R!Begin(c)
  PROVE  RetryInv'
  <1>1. 1 \in 1 .. Attempts /\ 0 = 1 - 1
    BY RetriedAssumption DEF R!PolicyAssumption
  <1>2. R!GoesOn(c, 1) /\ failed' = [failed EXCEPT ![c] = 0]
    BY DEF R!Begin
  <1> QED
    BY <1>1, <1>2, GoesOnKeeps

LEMMA WakesKeeps ==
  ASSUME RetryInv, NEW c \in Clients, R!Wakes(c)
  PROVE  RetryInv'
  BY DEF R!Wakes, RetryInv, R!TypeOK, Counted

LEMMA SucceedsKeeps ==
  ASSUME RetryInv, NEW c \in Clients, R!Succeeds(c)
  PROVE  RetryInv'
  BY DEF R!Succeeds, R!Ends, RetryInv, R!TypeOK, Counted

LEMMA CancelledKeeps ==
  ASSUME RetryInv, NEW c \in Clients, R!Cancelled(c)
  PROVE  RetryInv'
  BY DEF R!Cancelled, R!Ends, RetryInv, R!TypeOK, Counted

\* Every failure is counted, and the last one is the one the policy allows.
LEMMA FailsKeeps ==
  ASSUME RetryInv, NEW c \in Clients, NEW retryable \in BOOLEAN, R!Fails(c, retryable)
  PROVE  RetryInv'
  <1>0. /\ attempt[c] \in 1 .. Attempts
        /\ failed[c] = attempt[c] - 1
        /\ failed' = [failed EXCEPT ![c] = attempt[c]]
    <2>1. state[c] = "trying" /\ failed' = [failed EXCEPT ![c] = failed[c] + 1]
      BY DEF R!Fails
    <2>2. attempt[c] \in 0 .. Attempts /\ attempt[c] >= 1 /\ failed[c] = attempt[c] - 1
      BY <2>1 DEF RetryInv, R!TypeOK, Counted
    <2>3. failed[c] + 1 = attempt[c] /\ Attempts \in Nat
      BY <2>2, RetriedAssumption DEF R!PolicyAssumption
    <2>4. failed' = [failed EXCEPT ![c] = attempt[c]]
      <3>1. failed[c] + 1 = attempt[c]
        BY <2>3
      <3> QED
        BY <2>1, <3>1, Zenon
    <2> QED
      BY <2>2, <2>3, <2>4
  <1>1. CASE R!Ends(c, "raised")
    <2>1. R!TypeOK'
      BY <1>0, <1>1 DEF R!Ends, RetryInv, R!TypeOK
    <2>2. Counted'
      BY <1>0, <1>1 DEF R!Ends, RetryInv, R!TypeOK, Counted
    <2> QED
      BY <2>1, <2>2 DEF RetryInv
  <1>2. CASE R!Spent(c) /\ R!Ends(c, "exhausted")
    <2>1. R!TypeOK'
      BY <1>0, <1>2 DEF R!Ends, RetryInv, R!TypeOK
    <2>2. Counted'
      BY <1>0, <1>2 DEF R!Spent, R!Ends, RetryInv, R!TypeOK, Counted
    <2> QED
      BY <2>1, <2>2 DEF RetryInv
  <1>3. CASE ~R!Spent(c) /\ R!GoesOn(c, attempt[c] + 1)
    <2>1. attempt[c] + 1 \in 1 .. Attempts /\ attempt[c] = (attempt[c] + 1) - 1
      BY <1>0, <1>3, RetriedAssumption DEF R!Spent, R!PolicyAssumption
    <2> QED
      BY <1>0, <1>3, <2>1, GoesOnKeeps
  <1> QED
    BY <1>1, <1>2, <1>3 DEF R!Fails

\* The invariant says what a retry promises.
LEMMA RetrySafe == RetryInv => BudgetSpent
  BY RetriedAssumption DEF RetryInv, R!TypeOK, Counted, BudgetSpent, R!BudgetSpent, R!PolicyAssumption

-----------------------------------------------------------------------------
(* Both *)

IInv == BreakerInv /\ RetryInv

LEMMA RetryStands == RetryInv /\ UNCHANGED retryVars => RetryInv'
  BY DEF RetryInv, R!TypeOK, Counted, retryVars

LEMMA ClientKeeps ==
  ASSUME IInv, NEW c \in Clients,
         \/ Enters(c) \/ IsRefused(c) \/ Answers(c) \/ TimesOut(c) \/ Wakes(c) \/ IsCancelled(c)
         \/ R!Begin(c) /\ UNCHANGED vars
  PROVE  IInv'
  <1>1. CASE Enters(c)
    BY <1>1, OthersKeep, RetryStands DEF Enters, IInv
  <1>2. CASE IsRefused(c)
    BY <1>2, OthersKeep, FailsKeeps DEF IsRefused, Refused, IInv
  <1>3. CASE Answers(c)
    BY <1>3, SuccessKeeps, FailureKeeps, SucceedsKeeps, FailsKeeps DEF Answers, IInv
  <1>4. CASE TimesOut(c)
    BY <1>4, OthersKeep, FailsKeeps DEF TimesOut, IInv
  <1>5. CASE Wakes(c)
    BY <1>5, OthersKeep, WakesKeeps DEF Wakes, IInv
  <1>6. CASE IsCancelled(c)
    BY <1>6, OthersKeep, SuccessKeeps, FailureKeeps, CancelledKeeps DEF IsCancelled, IInv
  <1>7. CASE R!Begin(c) /\ UNCHANGED vars
    BY <1>7, OthersKeep, BeginKeeps DEF IInv
  <1> QED
    BY <1>1, <1>2, <1>3, <1>4, <1>5, <1>6, <1>7

\* Time, and standing still, with or without clients.
LEMMA TimeKeeps ==
  ASSUME IInv, (Tick /\ UNCHANGED retryVars) \/ UNCHANGED allVars
  PROVE  IInv'
  BY RetryStands
  DEF IInv, allVars, vars, breakerVars, Tick, BreakerInv, TypeOK, CountsTheRun, TrippedAtThreshold

LEMMA StepKeeps == IInv /\ [NextBoth]_allVars => IInv'
  BY ClientKeeps, TimeKeeps DEF NextBoth

LEMMA Always == SpecBoth => []IInv
  <1>1. InitBoth => IInv
    BY BreakerInit, RetryInit DEF InitBoth, IInv
  <1> QED
    BY <1>1, StepKeeps, PTL DEF SpecBoth

-----------------------------------------------------------------------------
(* The results *)

\* The breaker is tripped exactly while the last outcomes recorded, as many as
\* the threshold, were failures, whatever order overlapping calls end in.
THEOREM Tripped == SpecBoth => []TrippedByConsecutive
  <1>1. IInv => TrippedByConsecutive
    BY BreakerSafe DEF IInv
  <1> QED
    BY <1>1, Always, PTL

\* A retry gives up after as many failures as the policy allows, refusals and
\* timeouts among them, and no pause is longer than max_delay.
THEOREM Budget == SpecBoth => []BudgetSpent
  <1>1. IInv => BudgetSpent
    BY RetrySafe DEF IInv
  <1> QED
    BY <1>1, Always, PTL
=============================================================================

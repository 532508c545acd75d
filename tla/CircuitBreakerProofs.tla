------------------------ MODULE CircuitBreakerProofs ------------------------
(***************************************************************************)
(* CircuitBreaker implements ConsecutiveFailures, for every threshold and  *)
(* every number of calls.                                                  *)
(***************************************************************************)
EXTENDS CircuitBreaker, TLAPS

Outcome == {"success", "failure"}

LEMMA LimitIsPositive == Promise!Limit \in Nat \ {0}
  BY BreakerAssumption DEF Promise!Limit

(* The code compares with the raw threshold; from the first failure on     *)
(* that is the same as comparing with the limit.                           *)
LEMMA ReachedIsLimit ==
  ASSUME NEW n \in Nat \ {0}
  PROVE  Reached(n) <=> n >= Promise!Limit
  BY BreakerAssumption DEF Reached, Promise!Limit

LEMMA AppendFacts ==
  ASSUME NEW s \in Seq(Outcome), NEW o \in Outcome
  PROVE  /\ Append(s, o) \in Seq(Outcome)
         /\ Len(Append(s, o)) = Len(s) + 1
         /\ \A k \in 1..Len(s) : Append(s, o)[k] = s[k]
         /\ Append(s, o)[Len(s) + 1] = o
         /\ Len(s) \in Nat
  OBVIOUS

LEMMA EmptyHistory == <<>> \in Seq(Outcome)
  OBVIOUS

(* A streak is never undone by what comes later: the latch is sound.       *)
LEMMA StreakPersists ==
  ASSUME NEW s \in Seq(Outcome), NEW o \in Outcome, Promise!HasStreak(s)
  PROVE  Promise!HasStreak(Append(s, o))
<1> DEFINE L == Promise!Limit
           t == Append(s, o)
<1>1. PICK i \in 1..Len(s) : i + L - 1 <= Len(s) /\ Promise!FailedThrough(s, i, i + L - 1)
  BY DEF Promise!HasStreak
<1> HIDE DEF L, t
<1>2. L \in Nat \ {0}
  BY LimitIsPositive DEF L
<1>3. i \in 1..Len(t) /\ i + L - 1 <= Len(t)
  BY <1>1, <1>2, AppendFacts DEF t
<1>4. Promise!FailedThrough(t, i, i + L - 1)
  BY <1>1, <1>2, AppendFacts DEF t, Promise!FailedThrough
<1>5. QED
  BY <1>3, <1>4 DEF Promise!HasStreak, L, t

(* A streak that was not there before ends with the newest outcome.        *)
LEMMA NewStreakIsLast ==
  ASSUME NEW s \in Seq(Outcome), NEW o \in Outcome,
         ~Promise!HasStreak(s), Promise!HasStreak(Append(s, o))
  PROVE  /\ Promise!Limit <= Len(s) + 1
         /\ Promise!FailedThrough(Append(s, o), Len(s) + 2 - Promise!Limit, Len(s) + 1)
<1> DEFINE L == Promise!Limit
           t == Append(s, o)
<1>1. PICK i \in 1..Len(t) : i + L - 1 <= Len(t) /\ Promise!FailedThrough(t, i, i + L - 1)
  BY DEF Promise!HasStreak
<1> HIDE DEF L, t
<1>2. L \in Nat \ {0}
  BY LimitIsPositive DEF L
<1>3. i + L - 1 = Len(s) + 1
  <2> SUFFICES ASSUME i + L - 1 # Len(s) + 1
               PROVE  FALSE
    OBVIOUS
  <2>1. i \in 1..Len(s) /\ i + L - 1 <= Len(s)
    BY <1>1, <1>2, AppendFacts DEF t
  <2>2. Promise!FailedThrough(s, i, i + L - 1)
    BY <1>1, <1>2, <2>1, AppendFacts DEF t, Promise!FailedThrough
  <2>3. QED
    BY <2>1, <2>2 DEF Promise!HasStreak, L
<1>4. i = Len(s) + 2 - L /\ L <= Len(s) + 1
  BY <1>2, <1>3, AppendFacts
<1>5. QED
  BY <1>1, <1>3, <1>4 DEF L, t

-----------------------------------------------------------------------------
(* The inductive invariant: the counter measures the run of failures the   *)
(* history ends with, and the latch says whether a streak ever happened.   *)
BreakerInv ==
    /\ BreakerTypeOK
    /\ CounterIsTrailingRun
    /\ tripped <=> Promise!HasStreak(outcomes)
    /\ announced = IF tripped THEN 1 ELSE 0

LEMMA InvInit == BreakerInit => BreakerInv
<1> SUFFICES ASSUME BreakerInit
             PROVE  BreakerInv
  OBVIOUS
<1>1. BreakerTypeOK
  <2>1. outcomes \in Seq({"success", "failure"})
    BY EmptyHistory DEF BreakerInit, Outcome
  <2>2. failures \in Nat /\ announced \in 0..1
    BY DEF BreakerInit
  <2>3. tripped \in BOOLEAN
    BY DEF BreakerInit
  <2>4. QED
    BY <2>1, <2>2, <2>3 DEF BreakerTypeOK
<1>2. CounterIsTrailingRun
  BY LimitIsPositive DEF BreakerInit, CounterIsTrailingRun, Trailing
<1>3. ~Promise!HasStreak(outcomes)
  BY DEF BreakerInit, Promise!HasStreak
<1>4. QED
  BY <1>1, <1>2, <1>3 DEF BreakerInit, BreakerInv

LEMMA InvSuccess ==
  ASSUME BreakerInv, RecordSuccess
  PROVE  BreakerInv' /\ Promise!Complete("success")
<1> USE DEF BreakerInv
<1>1. outcomes \in Seq(Outcome) /\ outcomes' = Append(outcomes, "success")
  BY DEF BreakerTypeOK, RecordSuccess, Outcome
<1>2. BreakerTypeOK'
  BY <1>1 DEF BreakerTypeOK, RecordSuccess, CountAfterSuccess, Outcome
<1>3. tripped' <=> Promise!HasStreak(outcomes')
  <2>1. CASE tripped
    BY <1>1, <2>1, StreakPersists DEF RecordSuccess, Outcome
  <2>2. CASE ~tripped
    <3> SUFFICES ASSUME Promise!HasStreak(outcomes')
                 PROVE  FALSE
      BY <2>2 DEF RecordSuccess
    <3>1. Promise!FailedThrough(outcomes', Len(outcomes) + 2 - Promise!Limit,
                                Len(outcomes) + 1)
      BY <1>1, <2>2, NewStreakIsLast DEF Outcome
    <3>2. outcomes'[Len(outcomes) + 1] = "failure"
      BY <1>1, <3>1, LimitIsPositive, AppendFacts DEF Promise!FailedThrough
    <3>3. QED
      BY <1>1, <3>2
  <2>3. QED
    BY <2>1, <2>2
<1>4. CounterIsTrailingRun'
  <2> SUFFICES ASSUME ~tripped'
               PROVE  failures' < Promise!Limit /\ Trailing(outcomes', failures')
    BY DEF CounterIsTrailingRun
  <2>1. failures' = 0
    BY DEF RecordSuccess, CountAfterSuccess
  <2>2. Len(outcomes') = Len(outcomes) + 1 /\ outcomes'[Len(outcomes')] = "success"
    BY <1>1
  <2>3. Len(outcomes) \in Nat
    BY <1>1
  <2>4. QED
    BY <2>1, <2>2, <2>3, LimitIsPositive DEF Trailing
<1>5. announced' = announced /\ tripped' = tripped
  BY DEF RecordSuccess
<1>6. Promise!Complete("success")
  <2>1. tripped' = Promise!HasStreak(outcomes')
    BY <1>3, <1>5 DEF BreakerTypeOK, Promise!HasStreak
  <2>2. QED
    BY <1>1, <1>5, <2>1 DEF Promise!Complete, RecordSuccess
<1>7. QED
  BY <1>2, <1>3, <1>4, <1>5, <1>6

LEMMA InvFailure ==
  ASSUME BreakerInv, RecordFailure
  PROVE  BreakerInv' /\ Promise!Complete("failure")
<1> USE DEF BreakerInv
<1>1. outcomes \in Seq(Outcome) /\ outcomes' = Append(outcomes, "failure")
  BY DEF BreakerTypeOK, RecordFailure, Outcome
<1>2. Len(outcomes) \in Nat /\ Len(outcomes') = Len(outcomes) + 1
  BY <1>1
<1>3. CASE tripped
  <2>1. UNCHANGED <<failures, tripped, announced>>
    BY <1>3 DEF RecordFailure
  <2>2. Promise!HasStreak(outcomes')
    BY <1>1, <1>3, StreakPersists DEF Outcome
  <2>3. BreakerTypeOK'
    BY <1>1, <2>1 DEF BreakerTypeOK, Outcome
  <2>4. BreakerInv'
    BY <1>3, <2>1, <2>2, <2>3 DEF CounterIsTrailingRun
  <2>5. tripped' = Promise!HasStreak(outcomes')
    BY <2>1, <2>2, <1>3 DEF BreakerTypeOK, Promise!HasStreak
  <2>6. Promise!Complete("failure")
    BY <1>1, <1>3, <2>1, <2>5 DEF Promise!Complete, RecordFailure
  <2>7. QED
    BY <2>4, <2>6
<1>4. CASE ~tripped
  <2> DEFINE L == Promise!Limit
  <2>1. L \in Nat \ {0} /\ failures \in Nat /\ failures < L
    BY <1>4, LimitIsPositive DEF BreakerTypeOK, CounterIsTrailingRun
  <2>2. /\ failures' = failures + 1
        /\ tripped' <=> failures + 1 >= L
        /\ announced' = IF tripped' THEN 1 ELSE 0
        /\ Len(outcomes) < MaxCalls
        /\ tripped' \in BOOLEAN
    <3>1. CountFailure /\ Len(outcomes) < MaxCalls /\ announced = 0
      BY <1>4 DEF RecordFailure
    <3>2. Reached(failures + 1) \in BOOLEAN
      BY BreakerAssumption, <2>1 DEF Reached
    <3>3. Reached(failures + 1) <=> failures + 1 >= L
      BY <2>1, ReachedIsLimit
    <3>4. QED
      BY <3>1, <3>2, <3>3 DEF CountFailure
  <2> HIDE DEF L
  <2>3. Trailing(outcomes, failures)
    BY <1>4 DEF CounterIsTrailingRun
  <2>4. Trailing(outcomes', failures')
    <3>1. failures' <= Len(outcomes')
      BY <1>2, <2>1, <2>2, <2>3 DEF Trailing
    <3>2. ASSUME NEW k \in (Len(outcomes') - failures' + 1)..Len(outcomes')
          PROVE  outcomes'[k] = "failure"
      <4>1. CASE k = Len(outcomes) + 1
        BY <1>1, <4>1
      <4>2. CASE k \in (Len(outcomes) - failures + 1)..Len(outcomes)
        BY <1>1, <2>1, <2>3, <4>2 DEF Trailing
      <4>3. QED
        BY <1>2, <2>1, <2>2, <4>1, <4>2
    <3>3. ASSUME failures' < Len(outcomes')
          PROVE  outcomes'[Len(outcomes') - failures'] = "success"
      <4>1. failures < Len(outcomes) /\ Len(outcomes') - failures' = Len(outcomes) - failures
        BY <1>2, <2>1, <2>2, <3>3
      <4>2. outcomes[Len(outcomes) - failures] = "success"
        BY <2>3, <4>1 DEF Trailing
      <4>3. QED
        BY <1>1, <1>2, <2>1, <4>1, <4>2
    <3>4. QED
      BY <3>1, <3>2, <3>3 DEF Trailing
  <2>5. tripped' <=> Promise!HasStreak(outcomes')
    <3>1. ASSUME tripped'
          PROVE  Promise!HasStreak(outcomes')
      <4>1. failures' = L
        BY <2>1, <2>2, <3>1
      <4>2. Promise!FailedThrough(outcomes', Len(outcomes') - L + 1, Len(outcomes'))
        BY <2>4, <4>1 DEF Trailing, Promise!FailedThrough
      <4> DEFINE i == Len(outcomes') - L + 1
      <4>3. i \in 1..Len(outcomes') /\ i + L - 1 = Len(outcomes')
        BY <1>2, <2>1, <2>4, <4>1 DEF Trailing
      <4> HIDE DEF i
      <4>4. i + L - 1 <= Len(outcomes')
        BY <1>2, <4>3
      <4>5. Promise!FailedThrough(outcomes', i, i + L - 1)
        BY <4>2, <4>3 DEF i
      <4>6. QED
        BY <4>3, <4>4, <4>5 DEF Promise!HasStreak, L
    <3>2. ASSUME ~tripped', Promise!HasStreak(outcomes')
          PROVE  FALSE
      <4>1. /\ L <= Len(outcomes) + 1
            /\ Promise!FailedThrough(outcomes', Len(outcomes) + 2 - L, Len(outcomes) + 1)
        BY <1>1, <1>4, <3>2, NewStreakIsLast DEF L, Outcome
      <4>2. failures' < L
        BY <2>1, <2>2, <3>2
      <4>3. outcomes'[Len(outcomes') - failures'] = "success"
        BY <1>2, <2>1, <2>2, <2>4, <4>1, <4>2 DEF Trailing
      <4>4. Len(outcomes') - failures' \in (Len(outcomes) + 2 - L)..(Len(outcomes) + 1)
        BY <1>2, <2>1, <2>2, <4>2
      <4>5. QED
        BY <4>1, <4>3, <4>4 DEF Promise!FailedThrough
    <3>3. QED
      BY <2>2, <3>1, <3>2
  <2>6. CounterIsTrailingRun'
    BY <2>1, <2>2, <2>4 DEF CounterIsTrailingRun, L
  <2>7. BreakerTypeOK'
    BY <1>1, <2>1, <2>2 DEF BreakerTypeOK, Outcome
  <2>8. tripped' = Promise!HasStreak(outcomes')
    BY <2>2, <2>5 DEF Promise!HasStreak
  <2>9. announced' = IF tripped' /\ ~tripped THEN announced + 1 ELSE announced
    BY <1>4, <2>2
  <2>10. Promise!Complete("failure")
    BY <1>1, <2>2, <2>8, <2>9 DEF Promise!Complete
  <2>11. QED
    BY <2>2, <2>5, <2>6, <2>7, <2>10
<1>5. QED
  BY <1>3, <1>4

-----------------------------------------------------------------------------
LEMMA BreakerInvariant == BreakerSpec => []BreakerInv
<1>1. BreakerInv /\ [BreakerNext]_breakerVars => BreakerInv'
  <2> SUFFICES ASSUME BreakerInv, [BreakerNext]_breakerVars
               PROVE  BreakerInv'
    OBVIOUS
  <2>1. CASE RecordSuccess
    BY <2>1, InvSuccess
  <2>2. CASE RecordFailure
    BY <2>2, InvFailure
  <2>3. CASE UNCHANGED breakerVars
    BY <2>3 DEF breakerVars, BreakerInv, BreakerTypeOK, CounterIsTrailingRun, Trailing,
                Promise!HasStreak, Promise!FailedThrough
  <2>4. QED
    BY <2>1, <2>2, <2>3 DEF BreakerNext
<1>2. QED
  BY InvInit, <1>1, PTL DEF BreakerSpec

(* Until it trips, the counter is the length of the failure run the        *)
(* history ends with and stays below the threshold: record_success and     *)
(* record_failure never lose or invent a failure between them.             *)
THEOREM CounterCorrect == BreakerSpec => [](BreakerTypeOK /\ CounterIsTrailingRun)
<1>1. BreakerInv => BreakerTypeOK /\ CounterIsTrailingRun
  BY DEF BreakerInv
<1>2. QED
  BY <1>1, BreakerInvariant, PTL

(* The class keeps its promise: whatever the interleaving of the calls, it *)
(* is open exactly when Limit consecutive completions failed, it latches,  *)
(* and exactly one record_failure call returns True.                       *)
THEOREM BreakerKeepsPromise == BreakerSpec => KeepsPromise
<1>1. BreakerInit => Promise!Init
  BY DEF BreakerInit, Promise!Init
<1>2. BreakerInv /\ [BreakerNext]_breakerVars => BreakerInv' /\ [Promise!Next]_(Promise!vars)
  <2> SUFFICES ASSUME BreakerInv, [BreakerNext]_breakerVars
               PROVE  BreakerInv' /\ [Promise!Next]_(Promise!vars)
    OBVIOUS
  <2>1. CASE RecordSuccess
    BY <2>1, InvSuccess DEF Promise!Next
  <2>2. CASE RecordFailure
    BY <2>2, InvFailure DEF Promise!Next
  <2>3. CASE UNCHANGED breakerVars
    BY <2>3 DEF breakerVars, BreakerInv, BreakerTypeOK, CounterIsTrailingRun, Trailing,
                Promise!HasStreak, Promise!FailedThrough, Promise!vars
  <2>4. QED
    BY <2>1, <2>2, <2>3 DEF BreakerNext
<1>3. QED
  BY InvInit, <1>1, <1>2, PTL DEF BreakerSpec, KeepsPromise, Promise!Spec
=============================================================================

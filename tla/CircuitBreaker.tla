--------------------------- MODULE CircuitBreaker ---------------------------
(***************************************************************************)
(* ConsecutiveFailureCircuitBreaker (lag_service_kit/circuit_breaker.py):  *)
(* a counter and a latch behind one lock.  Every method holds the lock     *)
(* for its whole body, so each is one action; which thread calls is        *)
(* irrelevant here and is modelled by UpsertPool, which instantiates this  *)
(* module.                                                                 *)
(***************************************************************************)
EXTENDS Integers, Sequences

CONSTANTS Threshold,  \* the constructor's threshold, not validated
          MaxCalls    \* bound on the record_* calls of one breaker's life

ASSUME BreakerAssumption == Threshold \in Int /\ MaxCalls \in Nat

VARIABLES failures,   \* self._consecutive_failures
          tripped,    \* self._tripped
          outcomes,   \* history: outcomes in the order the lock was taken
          announced   \* history: record_failure calls that returned True

breakerVars == <<failures, tripped, outcomes, announced>>

BreakerInit == failures = 0 /\ tripped = FALSE /\ outcomes = <<>> /\ announced = 0

(* The mutated forms of the definitions below, each a bug one could write. *)
ReachedOneLate(n) == n > Threshold
ReachedOneEarly(n) == n >= Threshold - 1

Reached(n) == n >= Threshold

CountAfterSuccessKept == failures

CountAfterSuccess == IF tripped THEN failures ELSE 0

RecordSuccess ==
    /\ Len(outcomes) < MaxCalls
    /\ outcomes' = Append(outcomes, "success")
    /\ failures' = CountAfterSuccess
    /\ UNCHANGED <<tripped, announced>>

CountFailure ==
    /\ failures' = failures + 1
    /\ tripped' = Reached(failures + 1)
    /\ announced' = IF Reached(failures + 1) THEN announced + 1 ELSE announced

RecordFailureNoLatch ==
    /\ Len(outcomes) < MaxCalls
    /\ outcomes' = Append(outcomes, "failure")
    /\ CountFailure

RecordFailure ==
    /\ Len(outcomes) < MaxCalls
    /\ outcomes' = Append(outcomes, "failure")
    /\ \/ tripped /\ UNCHANGED <<failures, tripped, announced>>
       \/ ~tripped /\ CountFailure

BreakerNext == RecordSuccess \/ RecordFailure

BreakerSpec == BreakerInit /\ [][BreakerNext]_breakerVars

-----------------------------------------------------------------------------
BreakerTypeOK ==
    /\ failures \in Nat
    /\ tripped \in BOOLEAN
    /\ outcomes \in Seq({"success", "failure"})
    /\ announced \in 0..1

(* The counter and the latch agree with the whole history of outcomes:     *)
(* until the trip the counter is the length of the failure run the history *)
(* ends with, and it stays below the threshold.  This is what record_*     *)
(* must keep between them, and what a missing reset breaks.                *)
Trailing(s, n) ==
    /\ n <= Len(s)
    /\ \A k \in (Len(s) - n + 1)..Len(s) : s[k] = "failure"
    /\ n < Len(s) => s[Len(s) - n] = "success"

Promise == INSTANCE ConsecutiveFailures WITH open <- tripped

CounterIsTrailingRun ==
    ~tripped => failures < Promise!Limit /\ Trailing(outcomes, failures)

(* The breaker keeps its promise: open exactly when some Limit consecutive *)
(* completions failed, latched, and announced to exactly one caller.       *)
KeepsPromise == Promise!Spec
=============================================================================

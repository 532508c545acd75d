------------------------ MODULE ConsecutiveFailures ------------------------
(***************************************************************************)
(* What a consecutive-failure circuit breaker promises, said with nothing  *)
(* but the outcomes it was told of, in completion order: it is open        *)
(* exactly when some Limit consecutive outcomes were failures, it never    *)
(* closes again, and exactly one call is told that it was the one to trip  *)
(* it.  No counter appears here: CircuitBreaker implements this with one.  *)
(***************************************************************************)
EXTENDS Integers, Sequences

CONSTANTS Threshold,  \* consecutive failures that trip the breaker
          MaxCalls    \* bound on the outcomes ever recorded

VARIABLES outcomes,   \* the outcomes recorded so far, in completion order
          open,       \* has the breaker latched open
          announced   \* how many calls were told that they tripped it

vars == <<outcomes, open, announced>>

(* A threshold below 1 is not rejected; it then behaves as 1. *)
Limit == IF Threshold < 1 THEN 1 ELSE Threshold

FailedThrough(s, i, j) == \A k \in i..j : s[k] = "failure"

HasStreak(s) ==
    \E i \in 1..Len(s) : i + Limit - 1 <= Len(s) /\ FailedThrough(s, i, i + Limit - 1)

Init == outcomes = <<>> /\ open = FALSE /\ announced = 0

Complete(o) ==
    /\ Len(outcomes) < MaxCalls
    /\ outcomes' = Append(outcomes, o)
    /\ open' = HasStreak(outcomes')
    /\ announced' = IF open' /\ ~open THEN announced + 1 ELSE announced

Next == \E o \in {"success", "failure"} : Complete(o)

Spec == Init /\ [][Next]_vars
=============================================================================

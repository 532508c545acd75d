-------------------------- MODULE UpsertPoolProofs --------------------------
(***************************************************************************)
(* What sync_records guarantees for every number of records and workers,   *)
(* every window, every threshold and every behaviour of the destination.   *)
(* The breaker's part is inherited from CircuitBreakerProofs: the pool     *)
(* only ever steps the breaker as the breaker's own specification allows.  *)
(* The last part says why sync_records ends: every step of a thread does   *)
(* something for good, there is only so much to do, and until the end some *)
(* thread can go on.                                                       *)
(***************************************************************************)
EXTENDS UpsertPool, FiniteSetTheorems, FunctionTheorems, TLAPS

BreakerFacts == INSTANCE CircuitBreakerProofs WITH MaxCalls <- NumRows

(* The two instances of CircuitBreaker, the pool's and the one that carries *)
(* the theorems, are the same specification.                               *)
LEMMA SameBreaker == Breaker!BreakerSpec <=> BreakerFacts!BreakerSpec
  BY DEF Breaker!BreakerSpec, BreakerFacts!BreakerSpec, Breaker!BreakerInit,
         BreakerFacts!BreakerInit, Breaker!BreakerNext, BreakerFacts!BreakerNext,
         Breaker!breakerVars, BreakerFacts!breakerVars, Breaker!RecordSuccess,
         BreakerFacts!RecordSuccess, Breaker!RecordFailure, BreakerFacts!RecordFailure,
         Breaker!CountFailure, BreakerFacts!CountFailure, Breaker!Reached,
         BreakerFacts!Reached, Breaker!CountAfterSuccess, BreakerFacts!CountAfterSuccess

LEMMA SamePromise == Breaker!KeepsPromise <=> BreakerFacts!KeepsPromise
  BY DEF Breaker!KeepsPromise, BreakerFacts!KeepsPromise, Breaker!Promise!Spec,
         BreakerFacts!Promise!Spec, Breaker!Promise!Init, BreakerFacts!Promise!Init,
         Breaker!Promise!Next, BreakerFacts!Promise!Next, Breaker!Promise!vars,
         BreakerFacts!Promise!vars, Breaker!Promise!Complete, BreakerFacts!Promise!Complete,
         Breaker!Promise!HasStreak, BreakerFacts!Promise!HasStreak,
         Breaker!Promise!FailedThrough, BreakerFacts!Promise!FailedThrough,
         Breaker!Promise!Limit, BreakerFacts!Promise!Limit

LEMMA StepsOfTheBreaker == [Next]_vars => [Breaker!BreakerNext]_(Breaker!breakerVars)
<1> SUFFICES ASSUME [Next]_vars
             PROVE  [Breaker!BreakerNext]_(Breaker!breakerVars)
  OBVIOUS
<1>1. ASSUME UNCHANGED breakerVars
      PROVE  [Breaker!BreakerNext]_(Breaker!breakerVars)
  BY <1>1 DEF breakerVars, Breaker!breakerVars
<1>2. CASE Main
  BY <1>1, <1>2 DEF Main, Submit, CollectFinished, Drain, Drained, Leave
<1>3. ASSUME NEW w \in Workers, Take(w)
      PROVE  [Breaker!BreakerNext]_(Breaker!breakerVars)
  BY <1>1, <1>3 DEF Take
<1>4. ASSUME NEW w \in Workers, Run(w)
      PROVE  [Breaker!BreakerNext]_(Breaker!breakerVars)
  <2>1. CASE RecordOutcome(w)
    BY <1>1, <2>1 DEF RecordOutcome, Breaker!BreakerNext
  <2>2. QED
    BY <1>1, <1>4, <2>1 DEF Run, ConsultBreaker, Send, Answer, Resolve
<1>5. CASE UNCHANGED vars
  BY <1>1, <1>5 DEF vars
<1>6. QED
  BY <1>2, <1>3, <1>4, <1>5 DEF Next, Terminated

LEMMA PoolRunsTheBreaker == Spec => Breaker!BreakerSpec
<1>1. Init => Breaker!BreakerInit
  BY DEF Init
<1>2. QED
  BY <1>1, StepsOfTheBreaker, PTL DEF Spec, Breaker!BreakerSpec

(* Whatever the interleaving of the workers, the breaker they share opens  *)
(* exactly after Limit consecutive completions failed and the trip is      *)
(* logged once.                                                            *)
THEOREM PoolBreakerKeepsPromise == Spec => BreakerKeepsPromise
<1>1. BreakerFacts!BreakerSpec => BreakerFacts!KeepsPromise
  BY BreakerFacts!BreakerKeepsPromise, PoolAssumption DEF BreakerFacts!BreakerAssumption
<1>2. QED
  BY <1>1, SameBreaker, SamePromise, PoolRunsTheBreaker DEF BreakerKeepsPromise

LEMMA PoolBreakerTyped == Spec => []Breaker!BreakerTypeOK
<1>1. BreakerFacts!BreakerSpec
        => [](BreakerFacts!BreakerTypeOK /\ BreakerFacts!CounterIsTrailingRun)
  BY BreakerFacts!CounterCorrect, PoolAssumption DEF BreakerFacts!BreakerAssumption
<1>2. BreakerFacts!BreakerTypeOK => Breaker!BreakerTypeOK
  BY DEF BreakerFacts!BreakerTypeOK, Breaker!BreakerTypeOK
<1>3. QED
  BY <1>1, <1>2, SameBreaker, PoolRunsTheBreaker, PTL

-----------------------------------------------------------------------------
LEMMA RowSetsFinite ==
  /\ IsFiniteSet(Rows) /\ Cardinality(Rows) = NumRows
  /\ \A S \in SUBSET Rows : IsFiniteSet(S) /\ Cardinality(S) \in Nat
<1>1. IsFiniteSet(Rows) /\ Cardinality(Rows) = NumRows
  BY FS_Interval, PoolAssumption DEF Rows
<1>2. QED
  BY <1>1, FS_Subset, FS_CardinalityType

LEMMA DisjointRows ==
  ASSUME NEW A \in SUBSET Rows, NEW B \in SUBSET Rows, A \cap B = {}
  PROVE  /\ A \cup B \in SUBSET Rows
         /\ Cardinality(A \cup B) = Cardinality(A) + Cardinality(B)
<1>1. /\ IsFiniteSet(A) /\ Cardinality(A) \in Nat
      /\ IsFiniteSet(B) /\ Cardinality(B) \in Nat
  BY RowSetsFinite
<1>2. Cardinality(A \cup B) = Cardinality(A) + Cardinality(B) - Cardinality(A \cap B)
  BY <1>1, FS_Union
<1>3. Cardinality(A \cap B) = 0
  BY FS_EmptySet
<1>4. QED
  BY <1>1, <1>2, <1>3

LEMMA EmptyQueue == <<>> \in Seq(Rows)
  OBVIOUS

LEMMA QueueFacts ==
  ASSUME NEW q \in Seq(Rows)
  PROVE  /\ \A r \in Rows : /\ Append(q, r) \in Seq(Rows)
                            /\ Len(Append(q, r)) = Len(q) + 1
                            /\ Append(q, r)[Len(q) + 1] = r
                            /\ \A i \in 1..Len(q) : Append(q, r)[i] = q[i]
         /\ Len(q) \in Nat
         /\ \A i \in 1..Len(q) : q[i] \in Rows
         /\ q # <<>> => /\ Head(q) \in Rows /\ Head(q) = q[1]
                        /\ Tail(q) \in Seq(Rows)
                        /\ Len(q) \in Nat \ {0}
                        /\ Len(Tail(q)) = Len(q) - 1
                        /\ \A i \in 1..(Len(q) - 1) : Tail(q)[i] = q[i + 1]
  OBVIOUS

(* The frame of TypeOK that the breaker does not touch.                    *)
LEMMA TypeInit == Init => TypeOK
<1> SUFFICES ASSUME Init
             PROVE  TypeOK
  OBVIOUS
<1>1. queue \in Seq(Rows)
  BY EmptyQueue DEF Init
<1>2. Breaker!BreakerTypeOK
  <2>1. outcomes \in Seq({"success", "failure"})
    BY BreakerFacts!EmptyHistory DEF Init, Breaker!BreakerInit, BreakerFacts!Outcome
  <2>2. tripped \in BOOLEAN
    BY DEF Init, Breaker!BreakerInit
  <2>3. failures \in Nat /\ announced \in 0..1
    BY DEF Init, Breaker!BreakerInit
  <2>4. QED
    BY <2>1, <2>2, <2>3 DEF Breaker!BreakerTypeOK
<1>3. main = "loop" /\ next = 1 /\ inFlight = {} /\ late = {}
  BY DEF Init
<1>4. result \in [Counted -> Nat]
  BY DEF Init
<1>5. job \in [Workers -> 0..NumRows]
  BY PoolAssumption DEF Init
<1>6. /\ step \in [Workers -> {"idle", "check", "send", "await", "record", "resolve"}]
      /\ reply \in [Workers -> Replies \cup {"none", "skipped"}]
      /\ future \in [Rows -> {"unsubmitted", "pending"} \cup Resolved]
  BY DEF Init
<1>7. next \in 1..(NumRows + 1)
  BY <1>3, PoolAssumption
<1>8. QED
  BY <1>1, <1>2, <1>3, <1>4, <1>5, <1>6, <1>7 DEF TypeOK

LEMMA TallyTyped ==
  ASSUME TypeOK, NEW done \in SUBSET Rows
  PROVE  TallyWith(done) \in [Counted -> Nat]
<1>1. \A k \in Counted : result[k] \in Nat
  BY DEF TypeOK
<1>2. \A k \in Counted : {r \in done : future[r] = k} \in SUBSET Rows
  OBVIOUS
<1>3. \A k \in Counted : Cardinality({r \in done : future[r] = k}) \in Nat
  BY <1>2, RowSetsFinite
<1>4. QED
  BY <1>1, <1>3 DEF TallyWith

LEMMA TypeStep ==
  ASSUME TypeOK, WorkerInv, [Next]_vars, Breaker!BreakerTypeOK'
  PROVE  TypeOK'
<1> USE DEF mainVars, workerVars, breakerVars
<1>1. CASE Submit
  <2>1. next \in Rows
    BY <1>1, PoolAssumption DEF Submit, TypeOK, Rows
  <2>2. queue' \in Seq(Rows)
    BY <1>1, <2>1, QueueFacts DEF Submit, TypeOK
  <2>3. next' \in 1..(NumRows + 1) /\ inFlight' \subseteq Submitted'
    BY <1>1, <2>1, PoolAssumption DEF Submit, TypeOK, Submitted, Rows
  <2>4. future' \in [Rows -> {"unsubmitted", "pending"} \cup Resolved]
    BY <1>1, <2>1 DEF Submit, TypeOK
  <2>5. QED
    BY <1>1, <2>2, <2>3, <2>4 DEF Submit, TypeOK
<1>2. CASE CollectFinished
  <2>1. result' \in [Counted -> Nat]
    BY <1>2, TallyTyped DEF CollectFinished, TypeOK, Finished, Submitted
  <2>2. QED
    BY <1>2, <2>1 DEF CollectFinished, TypeOK, Submitted
<1>3. CASE Drain
  <2>1. result' \in [Counted -> Nat]
    BY <1>3, TallyTyped DEF Drain, TypeOK, Finished, Submitted
  <2>2. QED
    BY <1>3, <2>1 DEF Drain, TypeOK, Submitted
<1>4. CASE Drained
  BY <1>4 DEF Drained, TypeOK, Submitted
<1>5. CASE Leave
  BY <1>5 DEF Leave, TypeOK, Submitted
<1>6. ASSUME NEW w \in Workers, Take(w)
      PROVE  TypeOK'
  <2>1. Head(queue) \in Rows /\ queue' \in Seq(Rows)
    BY <1>6, QueueFacts DEF Take, TypeOK
  <2>2. job' \in [Workers -> 0..NumRows]
    BY <1>6, <2>1, PoolAssumption DEF Take, TypeOK, Rows
  <2>3. step' \in [Workers -> {"idle", "check", "send", "await", "record", "resolve"}]
    BY <1>6 DEF Take, Goto, TypeOK
  <2>4. QED
    BY <1>6, <2>1, <2>2, <2>3 DEF Take, TypeOK, Submitted
<1>7. ASSUME NEW w \in Workers, ConsultBreaker(w)
      PROVE  TypeOK'
  BY <1>7 DEF ConsultBreaker, Goto, TypeOK, Submitted
<1>8. ASSUME NEW w \in Workers, Send(w)
      PROVE  TypeOK'
  <2>1. job[w] \in Rows
    BY <1>8, PoolAssumption DEF Send, TypeOK, WorkerInv, Rows
  <2>2. QED
    BY <1>8, <2>1 DEF Send, Goto, TypeOK, Submitted
<1>9. ASSUME NEW w \in Workers, Answer(w)
      PROVE  TypeOK'
  BY <1>9 DEF Answer, Goto, TypeOK, Submitted
<1>10. ASSUME NEW w \in Workers, RecordOutcome(w)
       PROVE  TypeOK'
  BY <1>10 DEF RecordOutcome, Goto, TypeOK, Submitted
<1>11. ASSUME NEW w \in Workers, Resolve(w)
       PROVE  TypeOK'
  <2>1. job[w] \in Rows /\ reply[w] \in Accepted \cup Caught \cup Escaping \cup {"skipped"}
    BY <1>11, PoolAssumption DEF Resolve, TypeOK, WorkerInv, Rows
  <2>2. Classify(reply[w]) \in Resolved
    BY <2>1 DEF Classify, Accepted, Caught, Escaping, Resolved, Counted
  <2>3. future' \in [Rows -> {"unsubmitted", "pending"} \cup Resolved]
    BY <1>11, <2>1, <2>2 DEF Resolve, TypeOK
  <2>4. /\ step' \in [Workers -> {"idle", "check", "send", "await", "record", "resolve"}]
        /\ job' \in [Workers -> 0..NumRows]
        /\ reply' \in [Workers -> Replies \cup {"none", "skipped"}]
    BY <1>11, PoolAssumption DEF Resolve, Goto, TypeOK
  <2>5. QED
    BY <1>11, <2>3, <2>4 DEF Resolve, TypeOK, Submitted
<1>12. CASE UNCHANGED vars
  BY <1>12 DEF vars, TypeOK, Submitted
<1>13. QED
  BY <1>1, <1>2, <1>3, <1>4, <1>5, <1>6, <1>7, <1>8, <1>9, <1>10, <1>11, <1>12
     DEF Next, Main, Run, Terminated

-----------------------------------------------------------------------------
(* Who holds a row: no two workers, no two places in the queue, and never  *)
(* a row whose future is already resolved.                                 *)
LEMMA WorkerStep ==
  ASSUME TypeOK, WorkerInv, QueueInv, FutureInv, [Next]_vars
  PROVE  WorkerInv'
<1> USE DEF mainVars, workerVars, breakerVars
<1>1. CASE Submit
  <2>1. next \in Rows /\ future[next] = "unsubmitted"
    BY <1>1, PoolAssumption DEF Submit, TypeOK, FutureInv, Rows
  <2>2. \A r \in Rows : future[r] = "pending" => future'[r] = "pending"
    BY <1>1, <2>1 DEF Submit, TypeOK
  <2>3. \A w \in Workers : job[w] # 0 => job[w] \in Rows
    BY PoolAssumption DEF TypeOK, Rows
  <2>4. UNCHANGED workerVars
    BY <1>1 DEF Submit
  <2>5. QED
    BY <2>2, <2>3, <2>4 DEF WorkerInv
<1>2. CASE CollectFinished \/ Drain \/ Drained \/ Leave
  BY <1>2 DEF CollectFinished, Drain, Drained, Leave, WorkerInv
<1>3. ASSUME NEW w \in Workers, Take(w)
      PROVE  WorkerInv'
  <2>1. /\ Len(queue) \in Nat \ {0} /\ Head(queue) = queue[1]
        /\ Head(queue) \in Rows /\ Head(queue) # 0
    BY <1>3, QueueFacts DEF Take, TypeOK, Rows
  <2>2. /\ future[Head(queue)] = "pending"
        /\ \A v \in Workers : job[v] # Head(queue)
    BY <2>1 DEF QueueInv
  <2>3. /\ job' = [job EXCEPT ![w] = Head(queue)]
        /\ step' = [step EXCEPT ![w] = "check"]
        /\ UNCHANGED <<future, reply>>
    BY <1>3 DEF Take, Goto
  <2>4. QED
    BY <2>1, <2>2, <2>3 DEF WorkerInv, TypeOK
<1>4. ASSUME NEW w \in Workers, ConsultBreaker(w) \/ Send(w) \/ RecordOutcome(w)
      PROVE  WorkerInv'
  BY <1>4 DEF ConsultBreaker, Send, RecordOutcome, Goto, WorkerInv, TypeOK, Accepted, Caught
<1>5. ASSUME NEW w \in Workers, Answer(w)
      PROVE  WorkerInv'
  <2>1. PICK a \in Replies : /\ reply' = [reply EXCEPT ![w] = a]
                             /\ Goto(w, IF a \in Escaping THEN "resolve" ELSE "record")
    BY <1>5 DEF Answer
  <2>2. a # "none" /\ (a \notin Escaping => a \in Accepted \cup Caught)
    BY PoolAssumption DEF Accepted, Caught, Escaping
  <2>3. QED
    BY <1>5, <2>1, <2>2 DEF Answer, Goto, WorkerInv, TypeOK
<1>6. ASSUME NEW w \in Workers, Resolve(w)
      PROVE  WorkerInv'
  <2>1. job[w] \in Rows
    BY <1>6, PoolAssumption DEF Resolve, TypeOK, WorkerInv, Rows
  <2>2. /\ job' = [job EXCEPT ![w] = 0]
        /\ step' = [step EXCEPT ![w] = "idle"]
        /\ reply' = [reply EXCEPT ![w] = "none"]
    BY <1>6 DEF Resolve, Goto
  <2>3. \A v \in Workers : v # w /\ job[v] # 0 => job[v] \in Rows /\ job[v] # job[w]
    BY <2>1, PoolAssumption DEF WorkerInv, TypeOK, Rows
  <2>4. \A r \in Rows : r # job[w] => future'[r] = future[r]
    BY <1>6 DEF Resolve, TypeOK
  <2>5. QED
    BY <2>1, <2>2, <2>3, <2>4 DEF WorkerInv, TypeOK
<1>7. CASE UNCHANGED vars
  BY <1>7 DEF vars, WorkerInv
<1>8. QED
  BY <1>1, <1>2, <1>3, <1>4, <1>5, <1>6, <1>7 DEF Next, Main, Run, Terminated

LEMMA QueueStep ==
  ASSUME TypeOK, WorkerInv, QueueInv, FutureInv, [Next]_vars
  PROVE  QueueInv'
<1> USE DEF mainVars, workerVars, breakerVars
<1>1. CASE Submit
  <2>1. next \in Rows /\ future[next] = "unsubmitted"
    BY <1>1, PoolAssumption DEF Submit, TypeOK, FutureInv, Rows
  <2>2. /\ queue' = Append(queue, next)
        /\ job' = job
        /\ future' = [future EXCEPT ![next] = "pending"]
    BY <1>1 DEF Submit
  <2>3. \A i \in 1..Len(queue) : queue[i] \in Rows /\ queue[i] # next
    BY <2>1, QueueFacts DEF QueueInv, TypeOK
  <2>4. \A w \in Workers : job[w] # next
    BY <2>1 DEF WorkerInv, Rows
  <2>5. /\ Len(queue') = Len(queue) + 1 /\ Len(queue) \in Nat
        /\ queue'[Len(queue) + 1] = next
        /\ \A i \in 1..Len(queue) : queue'[i] = queue[i]
    BY <2>1, <2>2, QueueFacts DEF TypeOK
  <2>6. ASSUME NEW i \in 1..Len(queue')
        PROVE  /\ future'[queue'[i]] = "pending"
               /\ \A w \in Workers : job'[w] # queue'[i]
    <3>1. CASE i = Len(queue) + 1
      BY <2>1, <2>2, <2>4, <2>5, <3>1 DEF TypeOK
    <3>2. CASE i \in 1..Len(queue)
      BY <2>1, <2>2, <2>3, <2>5, <3>2 DEF QueueInv, TypeOK
    <3>3. QED
      BY <2>5, <3>1, <3>2
  <2>7. ASSUME NEW i \in 1..Len(queue'), NEW j \in 1..Len(queue'), queue'[i] = queue'[j]
        PROVE  i = j
    BY <2>3, <2>5, <2>7 DEF QueueInv
  <2>8. QED
    BY <2>6, <2>7 DEF QueueInv
<1>2. CASE CollectFinished \/ Drain \/ Drained \/ Leave
  BY <1>2 DEF CollectFinished, Drain, Drained, Leave, QueueInv
<1>3. ASSUME NEW w \in Workers, Take(w)
      PROVE  QueueInv'
  <2>1. /\ queue' = Tail(queue) /\ job' = [job EXCEPT ![w] = Head(queue)]
        /\ future' = future /\ queue # <<>>
    BY <1>3 DEF Take
  <2>2. /\ Len(queue) \in Nat \ {0} /\ Len(queue') = Len(queue) - 1 /\ Head(queue) = queue[1]
        /\ \A i \in 1..(Len(queue) - 1) : queue'[i] = queue[i + 1]
    BY <2>1, QueueFacts DEF TypeOK
  <2>3. \A i \in 1..Len(queue') : i + 1 \in 1..Len(queue) /\ queue'[i] = queue[i + 1]
    BY <2>2
  <2>4. \A i \in 1..Len(queue') : queue'[i] # Head(queue)
    BY <2>2, <2>3 DEF QueueInv
  <2>5. ASSUME NEW i \in 1..Len(queue')
        PROVE  /\ future'[queue'[i]] = "pending"
               /\ \A v \in Workers : job'[v] # queue'[i]
    BY <2>1, <2>3, <2>4 DEF QueueInv, TypeOK
  <2>6. ASSUME NEW i \in 1..Len(queue'), NEW j \in 1..Len(queue'), queue'[i] = queue'[j]
        PROVE  i = j
    BY <2>2, <2>3, <2>6 DEF QueueInv
  <2>7. QED
    BY <2>5, <2>6 DEF QueueInv
<1>4. ASSUME NEW w \in Workers, ConsultBreaker(w) \/ Send(w) \/ Answer(w) \/ RecordOutcome(w)
      PROVE  QueueInv'
  BY <1>4 DEF ConsultBreaker, Send, Answer, RecordOutcome, QueueInv
<1>5. ASSUME NEW w \in Workers, Resolve(w)
      PROVE  QueueInv'
  <2>1. job[w] \in Rows
    BY <1>5, PoolAssumption DEF Resolve, TypeOK, WorkerInv, Rows
  <2>2. /\ queue' = queue /\ job' = [job EXCEPT ![w] = 0]
        /\ \A r \in Rows : r # job[w] => future'[r] = future[r]
    BY <1>5 DEF Resolve, TypeOK
  <2>3. \A i \in 1..Len(queue) : queue[i] \in Rows /\ queue[i] # 0
    BY QueueFacts DEF TypeOK, Rows
  <2>4. QED
    BY <2>1, <2>2, <2>3 DEF QueueInv, TypeOK
<1>6. CASE UNCHANGED vars
  BY <1>6 DEF vars, QueueInv
<1>7. QED
  BY <1>1, <1>2, <1>3, <1>4, <1>5, <1>6 DEF Next, Main, Run, Terminated

(* What a future may say, and that a pending one is being taken care of.   *)
LEMMA FutureStep ==
  ASSUME TypeOK, WorkerInv, QueueInv, FutureInv, [Next]_vars
  PROVE  FutureInv'
<1> USE DEF mainVars, workerVars, breakerVars
<1>1. CASE Submit
  <2>1. next \in Rows /\ future[next] = "unsubmitted"
    BY <1>1, PoolAssumption DEF Submit, TypeOK, FutureInv, Rows
  <2>2. /\ queue' = Append(queue, next) /\ next' = next + 1 /\ job' = job
        /\ inFlight' = inFlight \cup {next}
        /\ future' = [future EXCEPT ![next] = "pending"]
    BY <1>1 DEF Submit
  <2>3. /\ Len(queue') = Len(queue) + 1 /\ Len(queue) \in Nat
        /\ queue'[Len(queue) + 1] = next
        /\ \A i \in 1..Len(queue) : queue'[i] = queue[i]
    BY <2>1, <2>2, QueueFacts DEF TypeOK
  <2>4. Collected' = Collected
    BY <2>1, <2>2 DEF Collected, Submitted, TypeOK, Rows
  <2>5. ASSUME NEW r \in Rows
        PROVE  /\ future'[r] = "unsubmitted" <=> r >= next'
               /\ r \in Collected' => future'[r] \in Counted
    BY <2>1, <2>2, <2>4 DEF FutureInv, TypeOK, Rows, Collected, Submitted
  <2>6. ASSUME NEW r \in Rows, future'[r] = "pending"
        PROVE  (\E i \in 1..Len(queue') : queue'[i] = r) \/ (\E w \in Workers : job'[w] = r)
    <3>1. CASE r = next
      BY <2>3, <3>1
    <3>2. CASE r # next /\ \E i \in 1..Len(queue) : queue[i] = r
      BY <2>3, <3>2
    <3>3. CASE r # next /\ \E w \in Workers : job[w] = r
      BY <2>2, <3>3
    <3>4. QED
      BY <2>1, <2>2, <2>6, <3>1, <3>2, <3>3 DEF FutureInv, TypeOK
  <2>7. QED
    BY <2>5, <2>6 DEF FutureInv
<1>2. CASE CollectFinished \/ Drain \/ Drained \/ Leave
  <2>1. UNCHANGED <<next, queue, job, future>>
    BY <1>2 DEF CollectFinished, Drain, Drained, Leave
  <2>2. \A r \in Collected' : r \in Rows /\ (r \in Collected \/ future[r] \in Counted)
    BY <1>2 DEF CollectFinished, Drain, Drained, Leave, Collected, Submitted, Finished,
                Raised, Resolved, TypeOK
  <2>3. QED
    BY <2>1, <2>2 DEF FutureInv
<1>3. ASSUME NEW w \in Workers, Take(w)
      PROVE  FutureInv'
  <2>1. /\ queue' = Tail(queue) /\ job' = [job EXCEPT ![w] = Head(queue)] /\ step[w] = "idle"
        /\ UNCHANGED <<future, next, inFlight>> /\ queue # <<>>
    BY <1>3 DEF Take
  <2>2. /\ Len(queue) \in Nat \ {0} /\ Len(queue') = Len(queue) - 1 /\ Head(queue) = queue[1]
        /\ \A i \in 1..(Len(queue) - 1) : queue'[i] = queue[i + 1]
    BY <2>1, QueueFacts DEF TypeOK
  <2>3. ASSUME NEW r \in Rows, future[r] = "pending"
        PROVE  (\E i \in 1..Len(queue') : queue'[i] = r) \/ (\E v \in Workers : job'[v] = r)
    <3>1. CASE r = Head(queue)
      BY <2>1, <3>1 DEF TypeOK
    <3>2. ASSUME NEW i \in 1..Len(queue), queue[i] = r, r # Head(queue)
          PROVE  \E k \in 1..Len(queue') : queue'[k] = r
      <4>1. i - 1 \in 1..Len(queue') /\ queue'[i - 1] = queue[i]
        BY <2>2, <3>2
      <4>2. QED
        BY <3>2, <4>1
    <3>3. ASSUME NEW v \in Workers, job[v] = r
          PROVE  job'[v] = r
      BY <2>1, <3>3 DEF TypeOK, WorkerInv, Rows
    <3>4. QED
      BY <2>3, <3>1, <3>2, <3>3 DEF FutureInv
  <2>4. QED
    BY <2>1, <2>3 DEF FutureInv, Collected, Submitted
<1>4. ASSUME NEW w \in Workers, ConsultBreaker(w) \/ Send(w) \/ Answer(w) \/ RecordOutcome(w)
      PROVE  FutureInv'
  BY <1>4 DEF ConsultBreaker, Send, Answer, RecordOutcome, FutureInv, Collected, Submitted
<1>5. ASSUME NEW w \in Workers, Resolve(w)
      PROVE  FutureInv'
  <2>1. job[w] \in Rows /\ reply[w] \in Accepted \cup Caught \cup Escaping \cup {"skipped"}
    BY <1>5, PoolAssumption DEF Resolve, TypeOK, WorkerInv, Rows
  <2>2. Classify(reply[w]) \in Resolved
    BY <2>1 DEF Classify, Accepted, Caught, Escaping, Resolved, Counted
  <2>3. /\ UNCHANGED <<next, inFlight, queue>> /\ job' = [job EXCEPT ![w] = 0]
        /\ future' = [future EXCEPT ![job[w]] = Classify(reply[w])]
    BY <1>5 DEF Resolve
  <2>4. future[job[w]] = "pending"
    BY <2>1 DEF WorkerInv, Rows
  <2>5. ASSUME NEW r \in Rows
        PROVE  /\ future'[r] = "unsubmitted" <=> r >= next'
               /\ r \in Collected' => future'[r] \in Counted
    <3>1. CASE r = job[w]
      <4>1. future'[r] = Classify(reply[w])
        BY <2>1, <2>3, <3>1 DEF TypeOK
      <4>2. future'[r] # "unsubmitted"
        BY <2>2, <4>1 DEF Resolved, Counted
      <4>3. r \notin Collected /\ ~(r >= next)
        BY <2>4, <3>1 DEF FutureInv, Counted
      <4>4. QED
        BY <2>3, <4>2, <4>3 DEF Collected, Submitted
    <3>2. CASE r # job[w]
      BY <2>3, <3>2 DEF FutureInv, Collected, Submitted, TypeOK
    <3>3. QED
      BY <3>1, <3>2
  <2>6. ASSUME NEW r \in Rows, future'[r] = "pending"
        PROVE  (\E i \in 1..Len(queue') : queue'[i] = r) \/ (\E v \in Workers : job'[v] = r)
    <3>1. r # job[w]
      BY <2>1, <2>2, <2>3, <2>6 DEF Resolved, Counted, TypeOK
    <3>2. future[r] = "pending"
      BY <2>3, <2>6, <3>1 DEF TypeOK
    <3>3. QED
      BY <2>3, <3>1, <3>2 DEF FutureInv, TypeOK
  <2>7. QED
    BY <2>5, <2>6 DEF FutureInv
<1>6. CASE UNCHANGED vars
  BY <1>6 DEF vars, FutureInv, Collected, Submitted
<1>7. QED
  BY <1>1, <1>2, <1>3, <1>4, <1>5, <1>6 DEF Next, Main, Run, Terminated

-----------------------------------------------------------------------------
(* The breaker opens only after a failure some future or worker still      *)
(* shows, and a row is skipped only once it is open.                       *)
LEMMA BreakerOnlyMoves ==
  ASSUME TypeOK, NEW w \in Workers, RecordOutcome(w)
  PROVE  /\ reply[w] \in Accepted => tripped' = tripped
         /\ tripped => tripped'
         /\ reply[w] \in Accepted \cup Caught
  BY DEF RecordOutcome, Breaker!RecordSuccess, Breaker!RecordFailure, Accepted, Caught

LEMMA TripStep ==
  ASSUME TypeOK, WorkerInv, FutureInv, TripInv, [Next]_vars
  PROVE  TripInv'
<1> USE DEF mainVars, workerVars, breakerVars
<1>1. CASE Submit
  <2>1. next \in Rows /\ future[next] = "unsubmitted"
    BY <1>1, PoolAssumption DEF Submit, TypeOK, FutureInv, Rows
  <2>2. /\ \A r \in Rows : future'[r] = "skipped" => future[r] = "skipped"
        /\ \A r \in Rows : future[r] = "failed" => future'[r] = "failed"
    BY <1>1, <2>1 DEF Submit, TypeOK
  <2>3. QED
    BY <1>1, <2>2 DEF Submit, TripInv, Recording
<1>2. CASE CollectFinished \/ Drain \/ Drained \/ Leave
  BY <1>2 DEF CollectFinished, Drain, Drained, Leave, TripInv, Recording
<1>3. ASSUME NEW w \in Workers, Take(w)
      PROVE  TripInv'
  <2>1. Recording(Caught)' = Recording(Caught)
    BY <1>3 DEF Take, Goto, Recording, TypeOK
  <2>2. QED
    BY <1>3, <2>1 DEF Take, TripInv
<1>4. ASSUME NEW w \in Workers, ConsultBreaker(w)
      PROVE  TripInv'
  <2>1. Recording(Caught) \subseteq Recording(Caught)'
    BY <1>4 DEF ConsultBreaker, Goto, Recording, TypeOK
  <2>2. \A v \in Workers : reply'[v] = "skipped" => reply[v] = "skipped" \/ tripped
    BY <1>4 DEF ConsultBreaker, TypeOK
  <2>3. QED
    BY <1>4, <2>1, <2>2 DEF ConsultBreaker, TripInv
<1>5. ASSUME NEW w \in Workers, Send(w)
      PROVE  TripInv'
  <2>1. Recording(Caught)' = Recording(Caught)
    BY <1>5 DEF Send, Goto, Recording, TypeOK
  <2>2. QED
    BY <1>5, <2>1 DEF Send, TripInv
<1>6. ASSUME NEW w \in Workers, Answer(w)
      PROVE  TripInv'
  <2>1. PICK a \in Replies : /\ reply' = [reply EXCEPT ![w] = a]
                             /\ Goto(w, IF a \in Escaping THEN "resolve" ELSE "record")
    BY <1>6 DEF Answer
  <2>2. a # "skipped"
    BY PoolAssumption DEF Accepted, Caught, Escaping
  <2>3. Recording(Caught) \subseteq Recording(Caught)'
    BY <1>6, <2>1 DEF Answer, Goto, Recording, TypeOK
  <2>4. QED
    BY <1>6, <2>1, <2>2, <2>3 DEF Answer, TripInv, TypeOK
<1>7. ASSUME NEW w \in Workers, RecordOutcome(w)
      PROVE  TripInv'
  <2>1. step' = [step EXCEPT ![w] = "resolve"] /\ UNCHANGED <<future, reply>>
    BY <1>7 DEF RecordOutcome, Goto
  <2>2. Recording(Caught) \subseteq Recording(Caught)'
    BY <2>1 DEF Recording, TypeOK
  <2>3. reply[w] \in Caught => w \in Recording(Caught)'
    BY <2>1 DEF Recording, TypeOK
  <2>4. QED
    BY <1>7, <2>1, <2>2, <2>3, BreakerOnlyMoves DEF TripInv
<1>8. ASSUME NEW w \in Workers, Resolve(w)
      PROVE  TripInv'
  <2>1. /\ job[w] \in Rows
        /\ reply[w] \in Accepted \cup Caught \cup Escaping \cup {"skipped"}
        /\ future[job[w]] = "pending"
    BY <1>8, PoolAssumption DEF Resolve, TypeOK, WorkerInv, Rows
  <2>2. /\ future' = [future EXCEPT ![job[w]] = Classify(reply[w])]
        /\ step' = [step EXCEPT ![w] = "idle"]
        /\ reply' = [reply EXCEPT ![w] = "none"]
        /\ tripped' = tripped
    BY <1>8 DEF Resolve, Goto
  <2>3. /\ reply[w] \in Caught => Classify(reply[w]) = "failed"
        /\ Classify(reply[w]) = "skipped" => reply[w] = "skipped"
    BY <2>1 DEF Classify, Accepted, Caught, Escaping
  <2>4. (\E r \in Rows : future'[r] = "skipped") \/ (\E v \in Workers : reply'[v] = "skipped")
          => tripped'
    BY <2>1, <2>2, <2>3 DEF TripInv, TypeOK
  <2>5. ASSUME tripped'
        PROVE  (\E r \in Rows : future'[r] = "failed") \/ Recording(Caught)' # {}
    <3>1. CASE \E r \in Rows : future[r] = "failed"
      BY <2>1, <2>2, <3>1 DEF TypeOK
    <3>2. CASE w \in Recording(Caught)
      BY <2>1, <2>2, <2>3, <3>2 DEF TypeOK, Recording
    <3>3. ASSUME NEW v \in Recording(Caught), v # w
          PROVE  v \in Recording(Caught)'
      BY <2>2, <3>3 DEF Recording, TypeOK
    <3>4. QED
      BY <2>2, <2>5, <3>1, <3>2, <3>3 DEF TripInv
  <2>6. QED
    BY <2>4, <2>5 DEF TripInv
<1>9. CASE UNCHANGED vars
  BY <1>9 DEF vars, TripInv, Recording
<1>10. QED
  BY <1>1, <1>2, <1>3, <1>4, <1>5, <1>6, <1>7, <1>8, <1>9 DEF Next, Main, Run, Terminated

-----------------------------------------------------------------------------
(* The workers about to send when the breaker trips do not include the one *)
(* that trips it, and nobody joins them afterwards.                        *)
LEMMA SendersFinite ==
  ASSUME TypeOK
  PROVE  /\ IsFiniteSet(Sending) /\ Cardinality(Sending) \in Nat
         /\ IsFiniteSet(late) /\ Cardinality(late) \in Nat
         /\ Cardinality(Workers) \in Nat
         /\ \A w \in Workers : w \notin Sending =>
              Cardinality(Sending) <= Cardinality(Workers) - 1
<1>1. IsFiniteSet(late) /\ Cardinality(late) \in Nat
  BY RowSetsFinite DEF TypeOK
<1>2. Sending \subseteq Workers
  BY DEF Sending
<1>3. IsFiniteSet(Sending) /\ Cardinality(Sending) \in Nat /\ Cardinality(Workers) \in Nat
  BY <1>2, FS_Subset, FS_CardinalityType, PoolAssumption
<1>4. ASSUME NEW w \in Workers, w \notin Sending
      PROVE  Cardinality(Sending) <= Cardinality(Workers) - 1
  <2>1. Sending \subseteq Workers \ {w}
    BY <1>2, <1>4
  <2>2. IsFiniteSet(Workers \ {w}) /\ Cardinality(Workers \ {w}) = Cardinality(Workers) - 1
    BY FS_RemoveElement, PoolAssumption
  <2>3. QED
    BY <2>1, <2>2, FS_Subset
<1>5. QED
  BY <1>1, <1>3, <1>4

LEMMA LateStep ==
  ASSUME TypeOK, TypeOK', WorkerInv, LateInv, [Next]_vars
  PROVE  LateInv'
<1> USE DEF mainVars, workerVars, breakerVars
<1>1. ASSUME UNCHANGED <<late, tripped>>, Sending' = Sending
      PROVE  LateInv'
  BY <1>1 DEF LateInv
<1>2. CASE Main
  BY <1>1, <1>2 DEF Main, Submit, CollectFinished, Drain, Drained, Leave, Sending
<1>3. ASSUME NEW w \in Workers, Take(w) \/ Answer(w) \/ Resolve(w)
      PROVE  LateInv'
  BY <1>1, <1>3 DEF Take, Answer, Resolve, Goto, Sending, TypeOK
<1>4. ASSUME NEW w \in Workers, ConsultBreaker(w)
      PROVE  LateInv'
  <2>1. CASE tripped
    BY <1>1, <1>4, <2>1 DEF ConsultBreaker, Goto, Sending, TypeOK
  <2>2. CASE ~tripped
    BY <1>4, <2>2 DEF ConsultBreaker, LateInv
  <2>3. QED
    BY <2>1, <2>2
<1>5. ASSUME NEW w \in Workers, Send(w)
      PROVE  LateInv'
  <2>1. CASE ~tripped
    BY <1>5, <2>1 DEF Send, LateInv
  <2>2. CASE tripped
    <3>1. late' = late \cup {job[w]} /\ tripped' = tripped
      BY <1>5, <2>2 DEF Send
    <3>2. w \in Sending /\ Sending' = Sending \ {w}
      BY <1>5 DEF Send, Goto, Sending, TypeOK
    <3>3. Cardinality(Sending') = Cardinality(Sending) - 1
      BY <3>2, SendersFinite, FS_RemoveElement
    <3>4. Cardinality(late') <= Cardinality(late) + 1
      <4>1. Cardinality(late) \in Nat /\ IsFiniteSet(late)
        BY SendersFinite
      <4>2. Cardinality(late \cup {job[w]}) =
              IF job[w] \in late THEN Cardinality(late) ELSE Cardinality(late) + 1
        BY <4>1, FS_AddElement
      <4>3. CASE job[w] \in late
        BY <3>1, <4>1, <4>2, <4>3
      <4>4. CASE job[w] \notin late
        BY <3>1, <4>1, <4>2, <4>4
      <4>5. QED
        BY <4>3, <4>4
    <3>5. Cardinality(late') \in Nat /\ Cardinality(Sending') \in Nat
      <4>1. late' \in SUBSET Rows
        BY DEF TypeOK
      <4>2. Sending' \subseteq Workers
        BY DEF Sending
      <4>3. QED
        BY <4>1, <4>2, RowSetsFinite, FS_Subset, FS_CardinalityType, PoolAssumption
    <3>6. QED
      BY <2>2, <3>1, <3>3, <3>4, <3>5, SendersFinite DEF LateInv
  <2>3. QED
    BY <2>1, <2>2
<1>6. ASSUME NEW w \in Workers, RecordOutcome(w)
      PROVE  LateInv'
  <2>1. late' = late /\ Sending' = Sending /\ w \notin Sending
    BY <1>6 DEF RecordOutcome, Goto, Sending, TypeOK
  <2>2. CASE tripped' = tripped
    BY <1>1, <2>1, <2>2
  <2>3. CASE tripped' # tripped
    <3>1. ~tripped
      BY <1>6, <2>3, BreakerOnlyMoves DEF TypeOK, Breaker!BreakerTypeOK
    <3>2. late = {} /\ Cardinality(late) = 0
      BY <3>1, FS_EmptySet DEF LateInv
    <3>3. Cardinality(Sending) <= Cardinality(Workers) - 1
      BY <2>1, SendersFinite
    <3>4. QED
      BY <2>1, <3>2, <3>3, SendersFinite DEF LateInv
  <2>4. QED
    BY <2>2, <2>3
<1>7. CASE UNCHANGED vars
  BY <1>1, <1>7 DEF vars, Sending
<1>8. QED
  BY <1>2, <1>3, <1>4, <1>5, <1>6, <1>7 DEF Next, Run, Terminated

-----------------------------------------------------------------------------
(* The main thread: what it holds, what it has counted, where it may stand.*)
LEMMA InFlightFinite ==
  ASSUME TypeOK
  PROVE  /\ IsFiniteSet(inFlight) /\ Cardinality(inFlight) \in Nat
         /\ \A S \in SUBSET inFlight :
              /\ IsFiniteSet(inFlight \ S) /\ Cardinality(inFlight \ S) \in Nat
              /\ Cardinality(inFlight \ S) <= Cardinality(inFlight)
              /\ S # {} => Cardinality(inFlight \ S) < Cardinality(inFlight)
<1>1. inFlight \in SUBSET Rows
  BY DEF TypeOK, Submitted
<1>2. IsFiniteSet(inFlight) /\ Cardinality(inFlight) \in Nat
  BY <1>1, RowSetsFinite
<1>3. ASSUME NEW S \in SUBSET inFlight
      PROVE  /\ IsFiniteSet(inFlight \ S) /\ Cardinality(inFlight \ S) \in Nat
             /\ Cardinality(inFlight \ S) <= Cardinality(inFlight)
             /\ S # {} => Cardinality(inFlight \ S) < Cardinality(inFlight)
  <2>1. inFlight \ S \subseteq inFlight
    OBVIOUS
  <2>2. /\ IsFiniteSet(inFlight \ S)
        /\ Cardinality(inFlight \ S) <= Cardinality(inFlight)
        /\ Cardinality(inFlight \ S) = Cardinality(inFlight) => inFlight \ S = inFlight
    BY <1>2, <2>1, FS_Subset
  <2>3. Cardinality(inFlight \ S) \in Nat
    BY <2>2, FS_CardinalityType
  <2>4. S # {} => inFlight \ S # inFlight
    OBVIOUS
  <2>5. QED
    BY <1>2, <2>2, <2>3, <2>4
<1>4. QED
  BY <1>2, <1>3


LEMMA WindowStep ==
  ASSUME TypeOK, MainInv, WindowBound, [Next]_vars
  PROVE  WindowBound' /\ (main' = "submit" => next' <= NumRows
                                             /\ Cardinality(inFlight)' < MaxWindow)
<1> USE DEF mainVars, workerVars, breakerVars
<1>0. MaxWindow \in Nat \ {0} /\ MaxWindow >= Window /\ MaxWindow' = MaxWindow
  BY PoolAssumption DEF MaxWindow
<1>1. CASE Submit
  <2>1. Cardinality(inFlight) < MaxWindow
    <3>1. CASE main = "submit"
      BY <3>1 DEF MainInv
    <3>2. CASE ~WindowFull
      BY <1>0, <3>2, InFlightFinite, PoolAssumption DEF WindowFull
    <3>3. QED
      BY <1>1, <3>1, <3>2 DEF Submit
  <2>2. inFlight' = inFlight \cup {next} /\ next \notin inFlight
    BY <1>1 DEF Submit, TypeOK, Submitted, Rows
  <2>3. Cardinality(inFlight') = Cardinality(inFlight) + 1
    BY <2>2, InFlightFinite, FS_AddElement
  <2>4. QED
    BY <1>0, <1>1, <2>1, <2>3, InFlightFinite DEF Submit, WindowBound
<1>2. CASE CollectFinished
  <2>1. CASE Raised(Finished)
    BY <1>0, <1>2, <2>1 DEF CollectFinished, WindowBound
  <2>2. CASE ~Raised(Finished)
    <3>1. inFlight' = inFlight \ Finished /\ Finished \in SUBSET inFlight /\ next' = next
      BY <1>2, <2>2 DEF CollectFinished, Finished
    <3>2. Cardinality(inFlight') <= Cardinality(inFlight) /\ Cardinality(inFlight') \in Nat
      BY <3>1, InFlightFinite
    <3>3. Cardinality(inFlight') < MaxWindow
      <4>1. CASE Finished # {}
        BY <1>0, <3>1, <4>1, InFlightFinite DEF WindowBound
      <4>2. CASE inFlight = {}
        <5>1. inFlight' = {}
          BY <3>1, <4>2
        <5>2. QED
          BY <1>0, <5>1, FS_EmptySet
      <4>3. QED
        BY <1>2, <4>1, <4>2 DEF CollectFinished
    <3>4. QED
      BY <1>0, <1>2, <3>1, <3>2, <3>3 DEF CollectFinished, WindowBound
  <2>3. QED
    BY <2>1, <2>2
<1>3. CASE Drain
  <2>1. main' # "submit"
    BY <1>3 DEF Drain
  <2>2. CASE inFlight' = inFlight
    BY <1>0, <2>1, <2>2 DEF WindowBound
  <2>3. ASSUME NEW r \in Finished, inFlight' = inFlight \ {r}
        PROVE  Cardinality(inFlight') <= Cardinality(inFlight) /\ Cardinality(inFlight') \in Nat
    <3>1. {r} \in SUBSET inFlight
      BY DEF Finished
    <3>2. QED
      BY <2>3, <3>1, InFlightFinite
  <2>4. QED
    BY <1>0, <1>3, <2>1, <2>2, <2>3, InFlightFinite DEF Drain, WindowBound
<1>4. CASE Drained \/ Leave
  BY <1>0, <1>4 DEF Drained, Leave, WindowBound
<1>5. ASSUME NEW w \in Workers, Take(w) \/ Run(w)
      PROVE  UNCHANGED mainVars
  BY <1>5 DEF Take, Run, ConsultBreaker, Send, Answer, RecordOutcome, Resolve
<1>6. CASE UNCHANGED mainVars
  BY <1>0, <1>6 DEF MainInv, WindowBound
<1>7. CASE UNCHANGED vars
  BY <1>6, <1>7 DEF vars
<1>8. QED
  BY <1>1, <1>2, <1>3, <1>4, <1>5, <1>6, <1>7 DEF Next, Main, Terminated

LEMMA MainStep ==
  ASSUME TypeOK, WorkerInv, MainInv, WindowBound, [Next]_vars
  PROVE  MainInv'
<1> USE DEF mainVars, workerVars, breakerVars
<1>1. main' = "submit" => next' <= NumRows /\ Cardinality(inFlight)' < MaxWindow
  BY WindowStep
<1>2. MaxWindow' = MaxWindow
  BY DEF MaxWindow
<1>3. CASE Main
  <2>1. main' \in {"exit", "returned"} => next' = NumRows + 1 /\ inFlight' = {}
    <3>1. CASE Submit \/ CollectFinished \/ Drain
      BY <3>1 DEF Submit, CollectFinished, Drain
    <3>2. CASE Drained
      BY <3>2, PoolAssumption DEF Drained, TypeOK
    <3>3. CASE Leave
      BY <3>3 DEF Leave, MainInv
    <3>4. QED
      BY <1>3, <3>1, <3>2, <3>3 DEF Main
  <2>2. Ended' => Quiescent'
    BY <1>3 DEF Main, Submit, CollectFinished, Drain, Drained, Leave, Ended, Quiescent, TypeOK
  <2>3. QED
    BY <1>1, <1>2, <2>1, <2>2 DEF MainInv
<1>4. ASSUME NEW w \in Workers, Take(w) \/ Run(w)
      PROVE  MainInv'
  <2>1. UNCHANGED mainVars
    BY <1>4 DEF Take, Run, ConsultBreaker, Send, Answer, RecordOutcome, Resolve
  <2>2. ~Quiescent
    BY <1>4 DEF Take, Run, ConsultBreaker, Send, Answer, RecordOutcome, Resolve, Quiescent
  <2>3. QED
    BY <1>1, <1>2, <2>1, <2>2 DEF MainInv, Ended
<1>5. CASE UNCHANGED vars
  BY <1>1, <1>2, <1>5 DEF vars, MainInv, Ended, Quiescent
<1>6. QED
  BY <1>3, <1>4, <1>5 DEF Next, Terminated

(* Collecting a set of finished futures counts each of them once.          *)
LEMMA TallyGrows ==
  ASSUME TypeOK, FutureInv, TallyMatchesFutures,
         NEW done \in SUBSET inFlight,
         result' = TallyWith(done), inFlight' = inFlight \ done,
         UNCHANGED <<next, future>>
  PROVE  TallyMatchesFutures'
<1>1. inFlight \subseteq Submitted /\ Submitted \subseteq Rows
  BY DEF TypeOK, Submitted
<1>2. Collected' = Collected \cup done
  BY <1>1 DEF Collected, Submitted
<1> SUFFICES ASSUME NEW k \in Counted
             PROVE  result'[k] = Cardinality(Collected' \cap WithFuture(k)')
  BY DEF TallyMatchesFutures
<1> DEFINE A == Collected \cap WithFuture(k)
           B == {r \in done : future[r] = k}
<1>3. result'[k] = Cardinality(A) + Cardinality(B)
  BY DEF TallyWith, TallyMatchesFutures
<1>4. A \in SUBSET Rows /\ B \in SUBSET Rows /\ A \cap B = {}
  BY <1>1 DEF Collected
<1>5. Collected' \cap WithFuture(k)' = A \cup B
  BY <1>1, <1>2 DEF WithFuture
<1> HIDE DEF A, B
<1>6. Cardinality(A \cup B) = Cardinality(A) + Cardinality(B)
  BY <1>4, DisjointRows
<1>7. QED
  BY <1>3, <1>5, <1>6

LEMMA TallyStep ==
  ASSUME TypeOK, WorkerInv, FutureInv, TallyMatchesFutures, [Next]_vars
  PROVE  TallyMatchesFutures'
<1> USE DEF mainVars, workerVars, breakerVars
<1>1. ASSUME result' = result, Collected' = Collected,
             \A r \in Collected : future'[r] = future[r]
      PROVE  TallyMatchesFutures'
  <2>1. \A k \in Counted : Collected' \cap WithFuture(k)' = Collected \cap WithFuture(k)
    BY <1>1 DEF WithFuture
  <2>2. QED
    BY <1>1, <2>1 DEF TallyMatchesFutures
<1>2. CASE Submit
  <2>1. /\ next \in Rows /\ next' = next + 1 /\ inFlight' = inFlight \cup {next}
        /\ future' = [future EXCEPT ![next] = "pending"] /\ result' = result
    BY <1>2, PoolAssumption DEF Submit, TypeOK, Rows
  <2>2. Collected' = Collected /\ next \notin Collected /\ Collected \subseteq Rows
    BY <2>1 DEF Collected, Submitted, TypeOK, Rows
  <2>3. QED
    BY <1>1, <2>1, <2>2 DEF TypeOK
<1>3. CASE CollectFinished
  <2>1. CASE Raised(Finished)
    BY <1>1, <1>3, <2>1 DEF CollectFinished, Collected, Submitted
  <2>2. CASE ~Raised(Finished)
    BY <1>3, <2>2, TallyGrows DEF CollectFinished, Finished
  <2>3. QED
    BY <2>1, <2>2
<1>4. CASE Drain
  <2>1. PICK r \in Finished :
          \/ /\ Raised({r})
             /\ UNCHANGED <<result, inFlight>>
          \/ /\ ~Raised({r})
             /\ result' = TallyWith({r})
             /\ inFlight' = inFlight \ {r}
    BY <1>4 DEF Drain
  <2>2. UNCHANGED <<next, future>> /\ {r} \in SUBSET inFlight
    BY <1>4 DEF Drain, Finished
  <2>3. CASE UNCHANGED <<result, inFlight>>
    BY <1>1, <2>2, <2>3 DEF Collected, Submitted
  <2>4. CASE result' = TallyWith({r}) /\ inFlight' = inFlight \ {r}
    BY <2>2, <2>4, TallyGrows
  <2>5. QED
    BY <2>1, <2>3, <2>4
<1>5. CASE Drained \/ Leave
  BY <1>1, <1>5 DEF Drained, Leave, Collected, Submitted
<1>6. ASSUME NEW w \in Workers, Take(w) \/ ConsultBreaker(w) \/ Send(w) \/ Answer(w) \/ RecordOutcome(w)
      PROVE  TallyMatchesFutures'
  BY <1>1, <1>6 DEF Take, ConsultBreaker, Send, Answer, RecordOutcome, Collected, Submitted
<1>7. ASSUME NEW w \in Workers, Resolve(w)
      PROVE  TallyMatchesFutures'
  <2>1. job[w] \in Rows /\ future[job[w]] = "pending"
    BY <1>7, PoolAssumption DEF Resolve, TypeOK, WorkerInv, Rows
  <2>2. job[w] \notin Collected
    BY <2>1 DEF FutureInv, Counted
  <2>3. \A r \in Collected : r \in Rows /\ future'[r] = future[r]
    BY <1>7, <2>2 DEF Resolve, TypeOK, Collected, Submitted
  <2>4. QED
    BY <1>1, <1>7, <2>3 DEF Resolve, Collected, Submitted
<1>8. CASE UNCHANGED vars
  BY <1>1, <1>8 DEF vars, Collected, Submitted
<1>9. QED
  BY <1>2, <1>3, <1>4, <1>5, <1>6, <1>7, <1>8 DEF Next, Main, Run, Terminated

-----------------------------------------------------------------------------
FullInv == TypeOK /\ PoolInv /\ WindowBound /\ TallyMatchesFutures

LEMMA FullInvInit == Init => FullInv
<1> SUFFICES ASSUME Init
             PROVE  FullInv
  OBVIOUS
<1>1. TypeOK
  BY TypeInit
<1>2. WorkerInv
  BY DEF Init, WorkerInv
<1>3. QueueInv
  BY DEF Init, QueueInv
<1>4. Collected = {} /\ \A r \in Rows : future[r] = "unsubmitted" /\ r >= next
  BY PoolAssumption DEF Init, Collected, Submitted, Rows
<1>5. FutureInv
  BY <1>4 DEF FutureInv
<1>6. TripInv /\ LateInv
  BY <1>4 DEF Init, TripInv, LateInv, Breaker!BreakerInit
<1>7. MainInv
  BY DEF Init, MainInv, Ended
<1>8. WindowBound
  <2>1. inFlight = {}
    BY DEF Init
  <2>2. QED
    BY <2>1, PoolAssumption, FS_EmptySet DEF WindowBound, MaxWindow
<1>9. TallyMatchesFutures
  <2>1. \A k \in Counted : Collected \cap WithFuture(k) = {} /\ result[k] = 0
    BY <1>4 DEF Init
  <2>2. QED
    BY <2>1, FS_EmptySet DEF TallyMatchesFutures
<1>10. QED
  BY <1>1, <1>2, <1>3, <1>5, <1>6, <1>7, <1>8, <1>9 DEF FullInv, PoolInv

LEMMA FullInvStep == FullInv /\ [Next]_vars /\ Breaker!BreakerTypeOK' => FullInv'
<1> SUFFICES ASSUME FullInv, [Next]_vars, Breaker!BreakerTypeOK'
             PROVE  FullInv'
  OBVIOUS
<1> USE DEF FullInv, PoolInv
<1>1. TypeOK'
  BY TypeStep
<1>2. WorkerInv' /\ QueueInv' /\ FutureInv' /\ TripInv'
  BY WorkerStep, QueueStep, FutureStep, TripStep
<1>3. LateInv'
  BY <1>1, LateStep
<1>4. WindowBound' /\ MainInv' /\ TallyMatchesFutures'
  BY WindowStep, MainStep, TallyStep
<1>5. QED
  BY <1>1, <1>2, <1>3, <1>4

LEMMA FullInvariant == Spec => []FullInv
  BY FullInvInit, FullInvStep, PoolBreakerTyped, PTL DEF Spec

(* Every variable of sync_records stays in its type.                       *)
THEOREM PoolTypeOK == Spec => []TypeOK
<1>1. FullInv => TypeOK
  BY DEF FullInv
<1>2. QED
  BY <1>1, FullInvariant, PTL

(* What makes the properties below inductive: every row is held in exactly *)
(* one place and only an unresolved row is held.                           *)
THEOREM PoolInvariant == Spec => []PoolInv
<1>1. FullInv => PoolInv
  BY DEF FullInv
<1>2. QED
  BY <1>1, FullInvariant, PTL

(* At most write_window_size uncollected futures, for every setting; a     *)
(* window below 1 acts as 1.                                               *)
THEOREM WindowNeverExceeded == Spec => []WindowBound
<1>1. FullInv => WindowBound
  BY DEF FullInv
<1>2. QED
  BY <1>1, FullInvariant, PTL

(* The tally counts every collected row once, as its worker classified it. *)
THEOREM TallyIsExact == Spec => []TallyMatchesFutures
<1>1. FullInv => TallyMatchesFutures
  BY DEF FullInv
<1>2. QED
  BY <1>1, FullInvariant, PTL

(* After the breaker trips at most max_workers - 1 more requests are sent. *)
THEOREM LateSendsAreBounded == Spec => []LateSendsBounded
<1>1. FullInv => LateSendsBounded
  <2> SUFFICES ASSUME FullInv
               PROVE  LateSendsBounded
    OBVIOUS
  <2> USE DEF FullInv, PoolInv
  <2>1. CASE tripped
    BY <2>1, SendersFinite DEF LateInv, LateSendsBounded
  <2>2. CASE ~tripped
    <3>1. Cardinality(late) = 0
      BY <2>2, FS_EmptySet DEF LateInv
    <3>2. Cardinality(Workers) \in Nat /\ Cardinality(Workers) # 0
      BY PoolAssumption, FS_EmptySet, FS_CardinalityType
    <3>3. QED
      BY <3>1, <3>2 DEF LateSendsBounded
  <2>3. QED
    BY <2>1, <2>2
<1>2. QED
  BY <1>1, FullInvariant, PTL

(* Once sync_records has returned or raised no worker writes any more and  *)
(* every submitted row has its outcome.                                    *)
THEOREM PoolIsJoined == Spec => []JoinedOnExit
<1>1. FullInv => JoinedOnExit
  <2> SUFFICES ASSUME FullInv, Ended
               PROVE  Quiescent /\ \A r \in Submitted : future[r] \in Resolved
    BY DEF JoinedOnExit
  <2> USE DEF FullInv, PoolInv
  <2>1. Quiescent
    BY DEF MainInv
  <2>2. queue = <<>> /\ \A w \in Workers : job[w] = 0
    BY <2>1 DEF Quiescent, WorkerInv
  <2>3. ASSUME NEW r \in Submitted
        PROVE  future[r] \in Resolved
    <3>1. r \in Rows /\ ~(r >= next) /\ r # 0
      BY DEF Submitted, Rows, TypeOK
    <3>2. future[r] # "pending"
      BY <2>2, <3>1 DEF FutureInv
    <3>3. QED
      BY <3>1, <3>2 DEF FutureInv, TypeOK
  <2>4. QED
    BY <2>1, <2>3
<1>2. QED
  BY <1>1, FullInvariant, PTL

(* When the main thread returned, every row is collected and counted.      *)
LEMMA ReturnedFacts ==
  ASSUME FullInv, main = "returned"
  PROVE  /\ \A r \in Rows : future[r] \in Counted
         /\ \A k \in Counted : result[k] = Cardinality(WithFuture(k))
         /\ \A w \in Workers : step[w] = "idle"
<1> USE DEF FullInv, PoolInv
<1>1. next = NumRows + 1 /\ inFlight = {} /\ Quiescent
  BY DEF MainInv, Ended
<1>2. Collected = Rows
  BY <1>1, PoolAssumption DEF Collected, Submitted, Rows
<1>3. \A k \in Counted : Collected \cap WithFuture(k) = WithFuture(k)
  BY <1>2 DEF WithFuture
<1>4. QED
  BY <1>1, <1>2, <1>3 DEF FutureInv, TallyMatchesFutures, Quiescent

(* The counts a returning run reports sum to the number of records.        *)
THEOREM ReturnAccounts == Spec => []ReturnAccountsForAll
<1>1. FullInv => ReturnAccountsForAll
  <2> SUFFICES ASSUME FullInv, main = "returned"
               PROVE  result["created"] + result["updated"] + result["failed"]
                        + result["skipped"] = NumRows
    BY DEF ReturnAccountsForAll
  <2> DEFINE C == WithFuture("created")
             U == WithFuture("updated")
             F == WithFuture("failed")
             S == WithFuture("skipped")
  <2>1. /\ result["created"] = Cardinality(C) /\ result["updated"] = Cardinality(U)
        /\ result["failed"] = Cardinality(F) /\ result["skipped"] = Cardinality(S)
    BY ReturnedFacts DEF Counted
  <2>2. Rows = C \cup (U \cup (F \cup S))
    BY ReturnedFacts DEF Counted, WithFuture
  <2>3. F \cap S = {} /\ U \cap (F \cup S) = {} /\ C \cap (U \cup (F \cup S)) = {}
    BY DEF WithFuture
  <2>4. /\ C \in SUBSET Rows /\ U \in SUBSET Rows /\ F \in SUBSET Rows /\ S \in SUBSET Rows
        /\ F \cup S \in SUBSET Rows /\ U \cup (F \cup S) \in SUBSET Rows
    BY DEF WithFuture
  <2> HIDE DEF C, U, F, S
  <2>5. Cardinality(F \cup S) = Cardinality(F) + Cardinality(S)
    BY <2>3, <2>4, DisjointRows
  <2>6. Cardinality(U \cup (F \cup S)) = Cardinality(U) + Cardinality(F \cup S)
    BY <2>3, <2>4, DisjointRows
  <2>7. Cardinality(Rows) = Cardinality(C) + Cardinality(U \cup (F \cup S))
    BY <2>2, <2>3, <2>4, DisjointRows
  <2>8. Cardinality(Rows) = NumRows
    BY RowSetsFinite
  <2>9. /\ Cardinality(C) \in Nat /\ Cardinality(U) \in Nat
        /\ Cardinality(F) \in Nat /\ Cardinality(S) \in Nat
    BY <2>4, RowSetsFinite
  <2>10. QED
    BY <2>1, <2>5, <2>6, <2>7, <2>8, <2>9
<1>2. QED
  BY <1>1, FullInvariant, PTL

(* The exit code reads "failed" only, and is 0 exactly when every record   *)
(* was written: a skip implies a failure the tally shows.                  *)
THEOREM ExitCodeIsTruthful == Spec => []ExitCodeTellsTruth
<1>1. FullInv => ExitCodeTellsTruth
  <2> SUFFICES ASSUME FullInv, main = "returned"
               PROVE  ExitCode = 0 <=> \A r \in Rows : future[r] \in Accepted
    BY DEF ExitCodeTellsTruth
  <2> USE DEF FullInv, PoolInv
  <2>1. result["failed"] = Cardinality(WithFuture("failed"))
    BY ReturnedFacts DEF Counted
  <2>2. WithFuture("failed") \in SUBSET Rows
    BY DEF WithFuture
  <2>3. ExitCode = 0 <=> WithFuture("failed") = {}
    BY <2>1, <2>2, RowSetsFinite, FS_EmptySet DEF ExitCode
  <2>4. ASSUME WithFuture("failed") = {}
        PROVE  \A r \in Rows : future[r] \in Accepted
    <3>1. Recording(Caught) = {}
      BY ReturnedFacts DEF Recording
    <3>2. ~tripped
      BY <2>4, <3>1 DEF TripInv, WithFuture
    <3>3. \A r \in Rows : future[r] # "skipped" /\ future[r] # "failed"
      BY <2>4, <3>2 DEF TripInv, WithFuture
    <3>4. QED
      BY <3>3, ReturnedFacts DEF Counted, Accepted
  <2>5. ASSUME \A r \in Rows : future[r] \in Accepted
        PROVE  WithFuture("failed") = {}
    BY <2>5 DEF WithFuture, Accepted
  <2>6. QED
    BY <2>3, <2>4, <2>5
<1>2. QED
  BY <1>1, FullInvariant, PTL

-----------------------------------------------------------------------------
(* The promise.  sync_records with its threads, queue, window and breaker  *)
(* implements RecordSync, for every number of records and workers, every   *)
(* window and threshold.  Each step of the pool gives at most one row an   *)
(* outcome, and does so when its worker knows it (RunSettlesItsRow).  What *)
(* the breaker has heard is then exactly the rows that have failed or      *)
(* succeeded (HeardInv), so a tripped breaker means as many failed rows as *)
(* the promise asks for before one is skipped.                             *)

Limit == Breaker!Promise!Limit

Outcomes == [r \in Rows |-> OutcomeOf(r)]
RowsWith(o) == {r \in Rows : OutcomeOf(r) = o}

-----------------------------------------------------------------------------
(* The outcome of a row, by who holds it.                                  *)
LEMMA ResolvedRow ==
  ASSUME NEW r \in Rows, future[r] \in Resolved
  PROVE  OutcomeOf(r) = future[r]
BY DEF OutcomeOf

LEMMA FreeRow ==
  ASSUME NEW r \in Rows, future[r] \notin Resolved, \A w \in Workers : job[w] # r
  PROVE  OutcomeOf(r) = "none"
BY DEF OutcomeOf, Holding

HeldOutcome(w) ==
    IF step[w] \in {"await", "record"} THEN "sent"
    ELSE IF step[w] = "resolve" THEN Classify(reply[w])
    ELSE "none"

LEMMA HeldRow ==
  ASSUME TypeOK, WorkerInv, NEW w \in Workers, step[w] # "idle"
  PROVE  /\ job[w] \in Rows /\ future[job[w]] = "pending"
         /\ OutcomeOf(job[w]) = HeldOutcome(w)
<1> DEFINE r == job[w]
<1>1. /\ r \in Rows /\ future[r] = "pending" /\ future[r] \notin Resolved
      /\ \A v \in Workers : job[v] = r => v = w
  BY PoolAssumption DEF TypeOK, WorkerInv, Rows, Resolved, Counted
<1>2. ASSUME NEW steps
      PROVE  Holding(r, steps) = IF step[w] \in steps THEN {w} ELSE {}
  BY <1>1 DEF Holding
<1>3. step[w] = "resolve" => (CHOOSE v \in Workers : v \in Holding(r, {"resolve"})) = w
  BY <1>2
<1>4. OutcomeOf(r) =
        IF Holding(r, {"await", "record"}) # {} THEN "sent"
        ELSE IF Holding(r, {"resolve"}) # {}
             THEN Classify(reply[CHOOSE v \in Workers : v \in Holding(r, {"resolve"})])
        ELSE "none"
  BY <1>1 DEF OutcomeOf
<1> HIDE DEF r
<1>5. OutcomeOf(r) = HeldOutcome(w)
  <2>1. CASE step[w] \in {"await", "record"}
    BY <1>2, <1>4, <2>1 DEF HeldOutcome
  <2>2. CASE step[w] = "resolve"
    BY <1>2, <1>3, <1>4, <2>2 DEF HeldOutcome
  <2>3. CASE step[w] \notin {"await", "record", "resolve"}
    BY <1>2, <1>4, <2>3 DEF HeldOutcome
  <2> QED
    BY <2>1, <2>2, <2>3
<1> QED
  BY <1>1, <1>5 DEF r

(* A row keeps its outcome when its future and its holder stay as they are.*)
LEMMA SameRow ==
  ASSUME NEW r \in Rows, future'[r] = future[r],
         \A w \in Workers :
            /\ job'[w] = r <=> job[w] = r
            /\ job[w] = r => step'[w] = step[w] /\ reply'[w] = reply[w]
  PROVE  OutcomeOf(r)' = OutcomeOf(r)
<1>1. ASSUME NEW steps
      PROVE  {w \in Workers : job'[w] = r /\ step'[w] \in steps}
                = {w \in Workers : job[w] = r /\ step[w] \in steps}
  OBVIOUS
<1>2. /\ Holding(r, {"await", "record"})' = Holding(r, {"await", "record"})
      /\ Holding(r, {"resolve"})' = Holding(r, {"resolve"})
  BY <1>1 DEF Holding
<1> DEFINE c == CHOOSE w \in Workers : w \in Holding(r, {"resolve"})
<1>3. Holding(r, {"resolve"}) # {} => c \in Workers /\ job[c] = r
  <2>1. Holding(r, {"resolve"}) # {} => \E w \in Workers : w \in Holding(r, {"resolve"})
    BY DEF Holding
  <2>2. Holding(r, {"resolve"}) # {} => c \in Workers /\ c \in Holding(r, {"resolve"})
    BY <2>1
  <2> QED
    BY <2>2 DEF Holding
<1>4. c' = c
  BY <1>2
<1>5. Holding(r, {"resolve"}) # {} => reply'[c'] = reply[c]
  BY <1>3, <1>4
<1> QED
  BY <1>2, <1>5 DEF OutcomeOf

(* The same, row by row, before a step and after it.                       *)
HeldRows ==
    \A w \in Workers : step[w] # "idle" =>
        /\ job[w] \in Rows /\ future[job[w]] = "pending"
        /\ OutcomeOf(job[w]) = HeldOutcome(w)

LEMMA HeldRowsHold == TypeOK /\ WorkerInv => HeldRows
BY HeldRow DEF HeldRows

LEMMA HeldRowsHoldNext == TypeOK' /\ WorkerInv' => HeldRows'
BY HeldRowsHold, PTL

-----------------------------------------------------------------------------
(* What each step of the pool does to the outcomes of the rows.            *)
LEMMA MainKeepsOutcomes ==
  ASSUME TypeOK, WorkerInv, FutureInv, Main, NEW r \in Rows
  PROVE  OutcomeOf(r)' = OutcomeOf(r)
<1>1. CASE CollectFinished \/ Drain \/ Drained \/ Leave
  BY <1>1, SameRow DEF CollectFinished, Drain, Drained, Leave, workerVars
<1>2. CASE Submit
  <2>1. /\ next \in Rows /\ future[next] = "unsubmitted"
        /\ future' = [future EXCEPT ![next] = "pending"] /\ UNCHANGED <<step, job, reply>>
    BY <1>2, PoolAssumption DEF Submit, TypeOK, FutureInv, Rows, workerVars
  <2>2. CASE r # next
    BY <2>1, <2>2, SameRow DEF TypeOK
  <2>3. CASE r = next
    <3>1. future'[r] = "pending" /\ r # 0 /\ \A w \in Workers : job[w] # r /\ job'[w] # r
      BY <2>1, <2>3 DEF TypeOK, WorkerInv, Rows
    <3>2. OutcomeOf(r) = "none"
      BY <2>1, <2>3, <3>1, FreeRow DEF Resolved, Counted
    <3>3. OutcomeOf(r)' = "none"
      BY <3>1 DEF OutcomeOf, Holding, Resolved, Counted
    <3> QED
      BY <3>2, <3>3
  <2> QED
    BY <2>2, <2>3
<1> QED
  BY <1>1, <1>2 DEF Main

LEMMA TakeKeepsOutcomes ==
  ASSUME TypeOK, WorkerInv, QueueInv, TypeOK', WorkerInv',
         NEW w \in Workers, Take(w), NEW r \in Rows
  PROVE  OutcomeOf(r)' = OutcomeOf(r)
<1>1. /\ Len(queue) \in Nat \ {0} /\ Head(queue) = queue[1] /\ Head(queue) \in Rows
      /\ job' = [job EXCEPT ![w] = Head(queue)] /\ step' = [step EXCEPT ![w] = "check"]
      /\ UNCHANGED <<reply, future>> /\ job[w] = 0
  BY QueueFacts DEF Take, Goto, TypeOK, WorkerInv
<1>2. CASE r # Head(queue)
  <2>1. \A v \in Workers : job'[v] = r <=> job[v] = r
    BY <1>1, <1>2 DEF TypeOK, Rows
  <2>2. \A v \in Workers : job[v] = r => step'[v] = step[v]
    BY <1>1 DEF TypeOK, Rows
  <2> QED
    BY <1>1, <2>1, <2>2, SameRow
<1>3. CASE r = Head(queue)
  <2>1. future[r] = "pending" /\ \A v \in Workers : job[v] # r
    BY <1>1, <1>3 DEF QueueInv
  <2>2. OutcomeOf(r) = "none"
    BY <2>1, FreeRow DEF Resolved, Counted
  <2>3. step'[w] = "check" /\ job'[w] = r
    BY <1>1, <1>3 DEF TypeOK
  <2>4. OutcomeOf(r)' = HeldOutcome(w)'
    BY <2>3, HeldRowsHoldNext DEF HeldRows
  <2>5. HeldOutcome(w)' = "none"
    BY <2>3 DEF HeldOutcome
  <2> QED
    BY <2>2, <2>4, <2>5
<1> QED
  BY <1>2, <1>3

LEMMA RunKeepsOtherOutcomes ==
  ASSUME TypeOK, WorkerInv, NEW w \in Workers, Run(w), NEW r \in Rows, r # job[w]
  PROVE  OutcomeOf(r)' = OutcomeOf(r)
<1>1. \A v \in Workers : v # w =>
        step'[v] = step[v] /\ job'[v] = job[v] /\ reply'[v] = reply[v]
  BY DEF Run, ConsultBreaker, Send, Answer, RecordOutcome, Resolve, Goto, TypeOK
<1>2. job'[w] # r
  BY DEF Run, ConsultBreaker, Send, Answer, RecordOutcome, Resolve, Goto, TypeOK, Rows
<1>3. future'[r] = future[r]
  BY DEF Run, ConsultBreaker, Send, Answer, RecordOutcome, Resolve, TypeOK
<1> QED
  BY <1>1, <1>2, <1>3, SameRow

LEMMA ClassifyIs ==
  /\ \A a \in Accepted \cup {"skipped"} : Classify(a) = a
  /\ \A a \in Caught : Classify(a) = "failed"
  /\ \A a \in Escaping : Classify(a) = "raised"
BY DEF Classify, Accepted, Caught, Escaping

(* The row a worker holds: skipped when it asks a tripped breaker, sent    *)
(* when it sends, and settled when the call has been told to the breaker   *)
(* or has raised what nobody catches.                                      *)
LEMMA RunSettlesItsRow ==
  ASSUME TypeOK, WorkerInv, TypeOK', WorkerInv', NEW w \in Workers, NEW r, r = job[w]
  PROVE  /\ ConsultBreaker(w) =>
               /\ r \in Rows /\ OutcomeOf(r) = "none"
               /\ OutcomeOf(r)' = IF tripped THEN "skipped" ELSE "none"
         /\ Send(w) => r \in Rows /\ OutcomeOf(r) = "none" /\ OutcomeOf(r)' = "sent"
         /\ Answer(w) => /\ r \in Rows /\ OutcomeOf(r) = "sent"
                         /\ OutcomeOf(r)' \in {"sent", "raised"}
         /\ RecordOutcome(w) => /\ r \in Rows /\ OutcomeOf(r) = "sent"
                                /\ OutcomeOf(r)' = Classify(reply[w])
         /\ Resolve(w) => r \in Rows /\ OutcomeOf(r)' = OutcomeOf(r)
<1>1. step[w] # "idle" => r \in Rows /\ future[r] = "pending" /\ OutcomeOf(r) = HeldOutcome(w)
  BY HeldRow
<1>2. step'[w] # "idle" /\ job' = job => OutcomeOf(r)' = HeldOutcome(w)'
  BY HeldRowsHoldNext DEF HeldRows
<1>3. ASSUME ConsultBreaker(w)
      PROVE  /\ r \in Rows /\ OutcomeOf(r) = "none"
             /\ OutcomeOf(r)' = IF tripped THEN "skipped" ELSE "none"
  BY <1>1, <1>2, <1>3, ClassifyIs DEF ConsultBreaker, Goto, HeldOutcome, TypeOK
<1>4. ASSUME Send(w)
      PROVE  r \in Rows /\ OutcomeOf(r) = "none" /\ OutcomeOf(r)' = "sent"
  BY <1>1, <1>2, <1>4 DEF Send, Goto, HeldOutcome, TypeOK
<1>5. ASSUME Answer(w)
      PROVE  r \in Rows /\ OutcomeOf(r) = "sent" /\ OutcomeOf(r)' \in {"sent", "raised"}
  <2>1. PICK a \in Replies : /\ reply' = [reply EXCEPT ![w] = a]
                             /\ Goto(w, IF a \in Escaping THEN "resolve" ELSE "record")
    BY <1>5 DEF Answer
  <2>2. reply'[w] = a /\ step'[w] = IF a \in Escaping THEN "resolve" ELSE "record"
    BY <2>1 DEF Goto, TypeOK
  <2> QED
    BY <1>1, <1>2, <1>5, <2>2, ClassifyIs DEF Answer, HeldOutcome
<1>6. ASSUME RecordOutcome(w)
      PROVE  r \in Rows /\ OutcomeOf(r) = "sent" /\ OutcomeOf(r)' = Classify(reply[w])
  BY <1>1, <1>2, <1>6 DEF RecordOutcome, Goto, HeldOutcome, TypeOK
<1>7. ASSUME Resolve(w)
      PROVE  r \in Rows /\ OutcomeOf(r)' = OutcomeOf(r)
  <2>1. r \in Rows /\ OutcomeOf(r) = Classify(reply[w]) /\ future'[r] = Classify(reply[w])
    BY <1>1, <1>7 DEF Resolve, HeldOutcome, TypeOK
  <2>2. reply[w] \in Accepted \cup Caught \cup Escaping \cup {"skipped"}
    BY <1>7, PoolAssumption DEF Resolve, TypeOK, WorkerInv
  <2>3. Classify(reply[w]) \in Resolved
    BY <2>2, ClassifyIs DEF Accepted, Resolved, Counted
  <2> QED
    BY <2>1, <2>3 DEF OutcomeOf
<1> QED
  BY <1>3, <1>4, <1>5, <1>6, <1>7

-----------------------------------------------------------------------------
(* What the breaker has heard is what the rows have come to.               *)
Succeeded == RowsWith("created") \cup RowsWith("updated")

HeardInv ==
    /\ Recorded("failure") = Cardinality(RowsWith("failed"))
    /\ Recorded("success") = Cardinality(Succeeded)

LEMMA HeardInit == Init => HeardInv
<1> SUFFICES ASSUME Init PROVE HeardInv
  OBVIOUS
<1>1. \A r \in Rows : OutcomeOf(r) = "none"
  BY FreeRow DEF Init, Resolved, Counted, Rows
<1>2. RowsWith("failed") = {} /\ Succeeded = {}
  BY <1>1 DEF RowsWith, Succeeded
<1>3. \A o : {i \in 1..Len(outcomes) : outcomes[i] = o} = {}
  BY DEF Init, Breaker!BreakerInit
<1> QED
  BY <1>2, <1>3, FS_EmptySet DEF HeardInv, Recorded

LEMMA HeardKept ==
  ASSUME HeardInv, outcomes' = outcomes,
         \A r \in Rows : \/ OutcomeOf(r)' = OutcomeOf(r)
                         \/ /\ OutcomeOf(r) \notin {"created", "updated", "failed"}
                            /\ OutcomeOf(r)' \notin {"created", "updated", "failed"}
  PROVE  HeardInv'
<1>1. RowsWith("failed")' = RowsWith("failed") /\ Succeeded' = Succeeded
  BY DEF RowsWith, Succeeded
<1>2. Recorded("failure")' = Recorded("failure") /\ Recorded("success")' = Recorded("success")
  BY DEF Recorded
<1> QED
  BY <1>1, <1>2 DEF HeardInv

LEMMA OneMoreRecorded ==
  ASSUME outcomes \in Seq({"success", "failure"}), NEW x \in {"success", "failure"},
         outcomes' = Append(outcomes, x)
  PROVE  /\ Recorded(x)' = Recorded(x) + 1
         /\ \A o \in {"success", "failure"} \ {x} : Recorded(o)' = Recorded(o)
<1> DEFINE At(o) == {i \in 1..Len(outcomes) : outcomes[i] = o}
<1>1. /\ Len(outcomes') = Len(outcomes) + 1 /\ Len(outcomes) \in Nat
      /\ \A i \in 1..Len(outcomes) : outcomes'[i] = outcomes[i]
      /\ outcomes'[Len(outcomes) + 1] = x
  BY BreakerFacts!AppendFacts, PoolAssumption DEF BreakerFacts!Outcome
<1>2. At(x)' = At(x) \cup {Len(outcomes) + 1} /\ Len(outcomes) + 1 \notin At(x)
  BY <1>1
<1>3. \A o \in {"success", "failure"} \ {x} : At(o)' = At(o)
  BY <1>1
<1>4. IsFiniteSet(At(x))
  <2>1. IsFiniteSet(1..Len(outcomes)) /\ At(x) \in SUBSET (1..Len(outcomes))
    BY <1>1, FS_Interval
  <2> QED
    BY <2>1, FS_Subset
<1>5. Cardinality(At(x)') = Cardinality(At(x)) + 1
  BY <1>2, <1>4, FS_AddElement
<1> QED
  BY <1>3, <1>5 DEF Recorded

LEMMA OneMoreRow ==
  ASSUME NEW S, NEW T, S \in SUBSET Rows, NEW r, r \notin S, T = S \cup {r}
  PROVE  Cardinality(T) = Cardinality(S) + 1
BY RowSetsFinite, FS_AddElement

LEMMA HeardStep ==
  ASSUME FullInv, FullInv', HeardInv, [Next]_vars
  PROVE  HeardInv'
<1> USE DEF FullInv, PoolInv
<1>1. CASE Main
  <2>1. outcomes' = outcomes
    BY <1>1 DEF Main, Submit, CollectFinished, Drain, Drained, Leave, breakerVars
  <2> QED
    BY <1>1, <2>1, MainKeepsOutcomes, HeardKept
<1>2. ASSUME NEW w \in Workers, Take(w)
      PROVE  HeardInv'
  <2>1. outcomes' = outcomes
    BY <1>2 DEF Take, breakerVars
  <2> QED
    BY <1>2, <2>1, TakeKeepsOutcomes, HeardKept
<1>3. ASSUME NEW w \in Workers, ConsultBreaker(w) \/ Send(w) \/ Answer(w) \/ Resolve(w)
      PROVE  HeardInv'
  <2>1. outcomes' = outcomes
    BY <1>3 DEF ConsultBreaker, Send, Answer, Resolve, breakerVars
  <2>2. ASSUME NEW r \in Rows
        PROVE  \/ OutcomeOf(r)' = OutcomeOf(r)
               \/ /\ OutcomeOf(r) \notin {"created", "updated", "failed"}
                  /\ OutcomeOf(r)' \notin {"created", "updated", "failed"}
    <3>1. CASE r # job[w]
      BY <1>3, <3>1, RunKeepsOtherOutcomes DEF Run
    <3>2. CASE r = job[w]
      BY <1>3, <3>2, RunSettlesItsRow
    <3> QED
      BY <3>1, <3>2
  <2> QED
    BY <2>1, <2>2, HeardKept
<1>4. ASSUME NEW w \in Workers, RecordOutcome(w)
      PROVE  HeardInv'
  <2> DEFINE o == Classify(reply[w])
  <2>0. PICK r : r = job[w]
    OBVIOUS
  <2>1. r \in Rows /\ OutcomeOf(r) = "sent" /\ OutcomeOf(r)' = o
    BY <1>4, <2>0, RunSettlesItsRow
  <2>2. \A q \in Rows : q # r => OutcomeOf(q)' = OutcomeOf(q)
    BY <1>4, <2>0, RunKeepsOtherOutcomes DEF Run
  <2>3. outcomes \in Seq({"success", "failure"})
    BY DEF TypeOK, Breaker!BreakerTypeOK
  <2>4. CASE reply[w] \in Caught
    <3>1. o = "failed" /\ outcomes' = Append(outcomes, "failure")
      BY <1>4, <2>4, ClassifyIs
         DEF RecordOutcome, Accepted, Caught, Breaker!RecordFailure
    <3>2. /\ RowsWith("failed")' = RowsWith("failed") \cup {r} /\ r \notin RowsWith("failed")
          /\ Succeeded' = Succeeded
      BY <2>1, <2>2, <3>1 DEF RowsWith, Succeeded
    <3>3. Cardinality(RowsWith("failed")') = Cardinality(RowsWith("failed")) + 1
      BY <3>2, OneMoreRow DEF RowsWith
    <3> QED
      BY <2>3, <3>1, <3>2, <3>3, OneMoreRecorded DEF HeardInv
  <2>5. CASE reply[w] \in Accepted
    <3>1. o \in {"created", "updated"} /\ outcomes' = Append(outcomes, "success")
      BY <1>4, <2>5, ClassifyIs
         DEF RecordOutcome, Accepted, Caught, Breaker!RecordSuccess
    <3>2. /\ Succeeded' = Succeeded \cup {r} /\ r \notin Succeeded
          /\ RowsWith("failed")' = RowsWith("failed")
      BY <2>1, <2>2, <3>1 DEF RowsWith, Succeeded
    <3>3. Cardinality(Succeeded') = Cardinality(Succeeded) + 1
      BY <3>2, OneMoreRow DEF RowsWith, Succeeded
    <3> QED
      BY <2>3, <3>1, <3>2, <3>3, OneMoreRecorded DEF HeardInv
  <2> QED
    BY <1>4, <2>4, <2>5 DEF RecordOutcome
<1>5. CASE UNCHANGED vars
  <2>1. \A r \in Rows : OutcomeOf(r)' = OutcomeOf(r)
    BY <1>5, SameRow DEF vars, workerVars
  <2> QED
    BY <1>5, <2>1, HeardKept DEF vars, breakerVars
<1> QED
  BY <1>1, <1>2, <1>3, <1>4, <1>5 DEF Next, Run, Terminated

LEMMA HeardInvariant == Spec => []HeardInv
<1>1. FullInv /\ FullInv' /\ HeardInv /\ [Next]_vars => HeardInv'
  BY HeardStep
<1> QED
  BY <1>1, HeardInit, FullInvariant, PTL DEF Spec

-----------------------------------------------------------------------------
(* A tripped breaker has heard Limit failures.                             *)
TripHeard == tripped => Recorded("failure") >= Limit

LEMMA LimitPositive == Limit \in Nat \ {0}
BY PoolAssumption DEF Limit, Breaker!Promise!Limit

LEMMA StreakIsHeard ==
  ASSUME outcomes \in Seq({"success", "failure"}), Breaker!Promise!HasStreak(outcomes)
  PROVE  Recorded("failure") >= Limit
<1> DEFINE At == {i \in 1..Len(outcomes) : outcomes[i] = "failure"}
<1>1. PICK i \in 1..Len(outcomes) :
        /\ i + Limit - 1 <= Len(outcomes)
        /\ Breaker!Promise!FailedThrough(outcomes, i, i + Limit - 1)
  BY DEF Breaker!Promise!HasStreak, Limit
<1>2. i..(i + Limit - 1) \subseteq At
  BY <1>1, LimitPositive DEF Breaker!Promise!FailedThrough
<1>3. /\ IsFiniteSet(At) /\ Cardinality(At) \in Nat
      /\ Cardinality(i..(i + Limit - 1)) = Limit
  <2>1. Len(outcomes) \in Nat /\ At \in SUBSET (1..Len(outcomes))
    OBVIOUS
  <2>2. IsFiniteSet(1..Len(outcomes))
    BY <2>1, FS_Interval
  <2>3. IsFiniteSet(At) /\ Cardinality(At) \in Nat
    BY <2>1, <2>2, FS_Subset, FS_CardinalityType
  <2>4. i \in Int /\ Limit \in Nat \ {0}
    BY LimitPositive
  <2>5. Cardinality(i..(i + Limit - 1)) = Limit
    <3> DEFINE j == i + Limit - 1
    <3>1. j \in Int /\ i <= j /\ j - i + 1 = Limit
      BY <2>4
    <3> HIDE DEF j
    <3>2. Cardinality(i..j) = j - i + 1
      BY <2>4, <3>1, FS_Interval
    <3> QED
      BY <3>1, <3>2 DEF j
  <2> QED
    BY <2>3, <2>5
<1>4. Cardinality(i..(i + Limit - 1)) <= Cardinality(At)
  BY <1>2, <1>3, FS_Subset
<1> QED
  BY <1>3, <1>4 DEF Recorded

LEMMA TripIsHeard == Spec => []TripHeard
<1>1. BreakerFacts!BreakerSpec => []BreakerFacts!BreakerInv
  BY BreakerFacts!BreakerInvariant, PoolAssumption DEF BreakerFacts!BreakerAssumption
<1>2. BreakerFacts!BreakerInv => TripHeard
  BY StreakIsHeard
     DEF TripHeard, BreakerFacts!BreakerInv, BreakerFacts!BreakerTypeOK,
         BreakerFacts!Promise!HasStreak, Breaker!Promise!HasStreak,
         BreakerFacts!Promise!FailedThrough, Breaker!Promise!FailedThrough,
         BreakerFacts!Promise!Limit, Breaker!Promise!Limit
<1> QED
  BY <1>1, <1>2, SameBreaker, PoolRunsTheBreaker, PTL

KnownInv == FullInv /\ HeardInv /\ TripHeard

LEMMA KnownInvariant == Spec => []KnownInv
BY FullInvariant, HeardInvariant, TripIsHeard, PTL DEF KnownInv

(* A run that skips anything reports at least the failures of a trip.      *)
THEOREM SkipsTellFailures == Spec => []SkipsNeedFailures
<1>1. KnownInv => SkipsNeedFailures
  <2> SUFFICES ASSUME KnownInv, main = "returned", result["skipped"] > 0
               PROVE  result["failed"] >= Limit
    BY DEF SkipsNeedFailures, Limit
  <2> USE DEF KnownInv, FullInv, PoolInv
  <2>1. /\ result["skipped"] = Cardinality(WithFuture("skipped"))
        /\ result["failed"] = Cardinality(WithFuture("failed"))
        /\ \A r \in Rows : future[r] \in Counted
    BY ReturnedFacts DEF Counted
  <2>2. WithFuture("skipped") # {}
    BY <2>1, FS_EmptySet
  <2>3. tripped
    BY <2>2 DEF TripInv, WithFuture
  <2>4. RowsWith("failed") = WithFuture("failed")
    BY <2>1, ResolvedRow DEF RowsWith, WithFuture, Resolved
  <2> QED
    BY <2>1, <2>3, <2>4 DEF TripHeard, HeardInv
<1> QED
  BY <1>1, KnownInvariant, PTL

-----------------------------------------------------------------------------
(* The main thread unwinds only from a future that raised.                 *)
UnwindInv == main \in {"unwind", "raised"} => \E r \in Rows : future[r] = "raised"

LEMMA UnwindStep ==
  ASSUME FullInv, UnwindInv, [Next]_vars
  PROVE  UnwindInv'
<1> USE DEF FullInv, PoolInv
<1>1. CASE CollectFinished \/ Drain
  BY <1>1 DEF CollectFinished, Drain, Raised, Finished, UnwindInv, TypeOK, Submitted
<1>2. ASSUME main' \in {"unwind", "raised"} => main \in {"unwind", "raised"},
             \A r \in Rows : future[r] = "raised" => future'[r] = "raised"
      PROVE  UnwindInv'
  BY <1>2 DEF UnwindInv
<1>3. CASE Submit
  <2>1. next \in Rows /\ future[next] = "unsubmitted"
    BY <1>3, PoolAssumption DEF Submit, TypeOK, FutureInv, Rows
  <2> QED
    BY <1>2, <1>3, <2>1 DEF Submit, TypeOK
<1>4. CASE Drained \/ Leave
  BY <1>2, <1>4 DEF Drained, Leave
<1>5. ASSUME NEW w \in Workers, Take(w) \/ ConsultBreaker(w) \/ Send(w) \/ Answer(w) \/ RecordOutcome(w)
      PROVE  UnwindInv'
  BY <1>2, <1>5 DEF Take, ConsultBreaker, Send, Answer, RecordOutcome, mainVars
<1>6. ASSUME NEW w \in Workers, Resolve(w)
      PROVE  UnwindInv'
  <2>1. future[job[w]] = "pending"
    BY <1>6, HeldRow DEF Resolve
  <2> QED
    BY <1>2, <1>6, <2>1 DEF Resolve, TypeOK, mainVars
<1>7. CASE UNCHANGED vars
  BY <1>7 DEF vars, mainVars, UnwindInv
<1> QED
  BY <1>1, <1>3, <1>4, <1>5, <1>6, <1>7 DEF Next, Main, Run, Terminated

LEMMA UnwindInvariant == Spec => []UnwindInv
<1>1. Init => UnwindInv
  BY DEF Init, UnwindInv
<1> QED
  BY <1>1, UnwindStep, FullInvariant, PTL DEF Spec

-----------------------------------------------------------------------------
(* The mapped variables of the promise, step by step.                      *)
PromiseStep == [Promise!SyncNext]_(Promise!syncVars)

LEMMA SameCardinality == \A S : Promise!Cardinality(S) = Cardinality(S)
BY DEF Promise!Cardinality, Cardinality

LEMMA MappedRows ==
  /\ \A o : Promise!With(o) = RowsWith(o)
  /\ Promise!Counted = Counted
BY DEF Promise!With, RowsWith, Promise!Counted, Counted

LEMMA NothingReported ==
  /\ ~Ended => ReportOf = [kind |-> "none", tally |-> NoTally]
  /\ ~Ended' => ReportOf' = [kind |-> "none", tally |-> NoTally]
BY DEF ReportOf, Ended, NoTally

LEMMA QuietStep ==
  ASSUME \A r \in Rows : OutcomeOf(r)' = OutcomeOf(r), main' = main \/ (~Ended /\ ~Ended'),
         result' = result \/ ~Ended'
  PROVE  PromiseStep
<1>1. Outcomes' = Outcomes
  BY DEF Outcomes
<1>2. ReportOf' = ReportOf
  BY NothingReported DEF ReportOf, Ended, NoTally
<1> QED
  BY <1>1, <1>2 DEF PromiseStep, Promise!syncVars, Outcomes, Rows

LEMMA RowStep ==
  ASSUME NEW r \in Rows, ~Ended, main' = main,
         \A q \in Rows : q # r => OutcomeOf(q)' = OutcomeOf(q)
  PROVE  \A o : OutcomeOf(r)' = o => Promise!Become(r, o)
<1> SUFFICES ASSUME NEW o, OutcomeOf(r)' = o
             PROVE  Promise!Become(r, o)
  OBVIOUS
<1>1. Outcomes' = [Outcomes EXCEPT ![r] = o]
  BY DEF Outcomes
<1>2. ReportOf.kind = "none" /\ ReportOf' = ReportOf
  BY NothingReported DEF Ended
<1> QED
  BY <1>1, <1>2 DEF Promise!Become, Outcomes, Rows

LEMMA RunImplements ==
  ASSUME KnownInv, FullInv', NEW w \in Workers, Run(w)
  PROVE  PromiseStep
<1> USE DEF KnownInv, FullInv, PoolInv
<1>0. PICK r : r = job[w]
  OBVIOUS
<1>1. ~Ended /\ main' = main /\ result' = result
  <2>1. step[w] # "idle"
    BY DEF Run, ConsultBreaker, Send, Answer, RecordOutcome, Resolve
  <2> QED
    BY <2>1 DEF MainInv, Quiescent, Run, ConsultBreaker, Send, Answer, RecordOutcome,
                Resolve, mainVars
<1>2. \A q \in Rows : q # r => OutcomeOf(q)' = OutcomeOf(q)
  BY <1>0, RunKeepsOtherOutcomes
<1>3. ASSUME r \in Rows, OutcomeOf(r)' = OutcomeOf(r)
      PROVE  PromiseStep
  BY <1>1, <1>2, <1>3, QuietStep
<1>4. ASSUME r \in Rows, NEW o, OutcomeOf(r)' = o
      PROVE  Promise!Become(r, o)
  BY <1>1, <1>2, <1>4, RowStep
<1>5. ASSUME r \in Rows, Promise!Send(r) \/ Promise!Skip(r)
                           \/ \E o \in Promise!Answers : Promise!Settle(r, o)
      PROVE  PromiseStep
  BY <1>5 DEF PromiseStep, Promise!SyncNext
<1>6. r \in Rows => Outcomes[r] = OutcomeOf(r)
  BY DEF Outcomes
<1>7. CASE ConsultBreaker(w)
  <2>1. /\ r \in Rows /\ OutcomeOf(r) = "none"
        /\ OutcomeOf(r)' = IF tripped THEN "skipped" ELSE "none"
    BY <1>0, <1>7, RunSettlesItsRow
  <2>2. CASE tripped
    <3>1. Cardinality(RowsWith("failed")) >= Limit
      BY <2>2 DEF TripHeard, HeardInv
    <3>2. Promise!Skip(r)
      BY <1>4, <1>6, <2>1, <2>2, <3>1, MappedRows, SameCardinality DEF Promise!Skip, Outcomes, Limit
    <3> QED
      BY <1>5, <2>1, <3>2
  <2> QED
    BY <1>3, <2>1, <2>2
<1>8. CASE Send(w)
  <2>1. r \in Rows /\ OutcomeOf(r) = "none" /\ OutcomeOf(r)' = "sent"
    BY <1>0, <1>8, RunSettlesItsRow
  <2>2. Promise!Send(r)
    BY <1>4, <1>6, <2>1 DEF Promise!Send, Outcomes
  <2> QED
    BY <1>5, <2>1, <2>2
<1>9. CASE Answer(w)
  <2>1. r \in Rows /\ OutcomeOf(r) = "sent" /\ OutcomeOf(r)' \in {"sent", "raised"}
    BY <1>0, <1>9, RunSettlesItsRow
  <2>2. CASE OutcomeOf(r)' = "raised"
    <3>1. Promise!Settle(r, "raised") /\ "raised" \in Promise!Answers
      BY <1>4, <1>6, <2>1, <2>2 DEF Promise!Settle, Promise!Answers, Outcomes
    <3> QED
      BY <1>5, <2>1, <3>1
  <2> QED
    BY <1>3, <2>1, <2>2
<1>10. CASE RecordOutcome(w)
  <2> DEFINE o == Classify(reply[w])
  <2>1. r \in Rows /\ OutcomeOf(r) = "sent" /\ OutcomeOf(r)' = o
    BY <1>0, <1>10, RunSettlesItsRow
  <2>2. o \in {"created", "updated", "failed"}
    BY <1>10, ClassifyIs DEF RecordOutcome, Accepted
  <2> HIDE DEF o
  <2>3. Promise!Settle(r, o) /\ o \in Promise!Answers
    BY <1>4, <1>6, <2>1, <2>2 DEF Promise!Settle, Promise!Answers, Outcomes
  <2> QED
    BY <1>5, <2>1, <2>3
<1>11. CASE Resolve(w)
  BY <1>0, <1>3, <1>11, RunSettlesItsRow
<1> QED
  BY <1>7, <1>8, <1>9, <1>10, <1>11 DEF Run

(* Leaving the with block is the report.                                   *)
LEMMA LeaveImplements ==
  ASSUME KnownInv, UnwindInv, Leave
  PROVE  PromiseStep
<1> USE DEF KnownInv, FullInv, PoolInv
<1>1. /\ main \in {"exit", "unwind"} /\ ~Ended /\ Quiescent /\ result' = result
      /\ main' = IF main = "exit" THEN "returned" ELSE "raised"
  BY DEF Leave, Ended
<1>2. Outcomes' = Outcomes
  <2>1. \A r \in Rows : OutcomeOf(r)' = OutcomeOf(r)
    BY MainKeepsOutcomes DEF Main
  <2> QED
    BY <2>1 DEF Outcomes
<1>3. ReportOf.kind = "none"
  BY <1>1, NothingReported
<1>4. CASE main = "exit"
  <2>1. next = NumRows + 1 /\ inFlight = {}
    BY <1>4 DEF MainInv
  <2>2. Collected = Rows
    BY <2>1, PoolAssumption DEF Collected, Submitted, Rows
  <2>3. \A r \in Rows : future[r] \in Counted
    BY <2>2 DEF FutureInv
  <2>4. \A r \in Rows : OutcomeOf(r) = future[r]
    BY <2>3, ResolvedRow DEF Resolved
  <2>5. \A k \in Counted : RowsWith(k) = Collected \cap WithFuture(k)
    BY <2>2, <2>4 DEF RowsWith, WithFuture
  <2>6. result = [k \in Counted |-> Cardinality(RowsWith(k))]
    BY <2>5 DEF TallyMatchesFutures, TypeOK
  <2>7. ReportOf' = [kind |-> "returned", tally |-> [k \in Counted |-> Cardinality(RowsWith(k))]]
    BY <1>1, <1>4, <2>6 DEF ReportOf, Ended
  <2>8. Promise!Return
    BY <1>2, <1>3, <2>3, <2>4, <2>7, MappedRows, SameCardinality
       DEF Promise!Return, Promise!Report, Outcomes, Rows
  <2> QED
    BY <2>8 DEF PromiseStep, Promise!SyncNext
<1>5. CASE main = "unwind"
  <2>1. PICK r \in Rows : future[r] = "raised"
    BY <1>5 DEF UnwindInv
  <2>2. RowsWith("raised") # {}
    BY <2>1, ResolvedRow DEF RowsWith, Resolved
  <2>3. \A w \in Workers : job[w] = 0
    BY <1>1 DEF Quiescent, WorkerInv
  <2>4. \A q \in Rows : OutcomeOf(q) # "sent"
    BY <2>3, ResolvedRow, FreeRow DEF Rows, Resolved, Counted
  <2>5. RowsWith("sent") = {}
    BY <2>4 DEF RowsWith
  <2>6. ReportOf' = [kind |-> "raised", tally |-> NoTally]
    BY <1>1, <1>5 DEF ReportOf, Ended, NoTally
  <2>7. Promise!Abort
    BY <1>2, <1>3, <2>2, <2>5, <2>6, MappedRows
       DEF Promise!Abort, Promise!Report, Promise!NoTally, NoTally, Outcomes, Rows
  <2> QED
    BY <2>7 DEF PromiseStep, Promise!SyncNext
<1> QED
  BY <1>1, <1>4, <1>5

(* sync_records keeps its promise to run(), for every number of records    *)
(* and workers, every window, every threshold, every behaviour of the      *)
(* destination.                                                            *)
THEOREM PoolImplementsRecordSync == Spec => ImplementsRecordSync
<1>1. Init => Promise!Begin(Rows)
  <2> SUFFICES ASSUME Init PROVE Promise!Begin(Rows)
    OBVIOUS
  <2>1. \A r \in Rows : OutcomeOf(r) = "none"
    BY FreeRow DEF Init, Resolved, Counted, Rows
  <2>2. Outcomes = [r \in Rows |-> "none"]
    BY <2>1 DEF Outcomes
  <2>3. ReportOf = Promise!Unreported
    BY NothingReported DEF Init, Ended, Promise!Unreported, Promise!NoTally, NoTally,
                           Promise!Counted, Counted
  <2> QED
    BY <2>2, <2>3 DEF Promise!Begin, Outcomes
<1>2. KnownInv /\ KnownInv' /\ UnwindInv /\ [Next]_vars => PromiseStep
  <2> SUFFICES ASSUME KnownInv, KnownInv', UnwindInv, [Next]_vars PROVE PromiseStep
    OBVIOUS
  <2> USE DEF KnownInv, FullInv, PoolInv
  <2>1. CASE Submit \/ CollectFinished \/ Drain \/ Drained
    <3>1. ~Ended /\ ~Ended'
      BY <2>1 DEF Submit, CollectFinished, Drain, Drained, Ended
    <3> QED
      BY <2>1, <3>1, MainKeepsOutcomes, QuietStep DEF Main
  <2>2. CASE Leave
    BY <2>2, LeaveImplements
  <2>3. ASSUME NEW w \in Workers, Take(w)
        PROVE  PromiseStep
    BY <2>3, TakeKeepsOutcomes, QuietStep DEF Take, mainVars
  <2>4. ASSUME NEW w \in Workers, Run(w)
        PROVE  PromiseStep
    BY <2>4, RunImplements
  <2>5. CASE UNCHANGED vars
    <3>1. \A r \in Rows : OutcomeOf(r)' = OutcomeOf(r)
      BY <2>5, SameRow DEF vars, workerVars
    <3> QED
      BY <2>5, <3>1, QuietStep DEF vars, mainVars
  <2> QED
    BY <2>1, <2>2, <2>3, <2>4, <2>5 DEF Next, Main, Terminated
<1> QED
  BY <1>1, <1>2, KnownInvariant, UnwindInvariant, PTL
     DEF Spec, ImplementsRecordSync, Promise!SyncSpec, PromiseStep

-----------------------------------------------------------------------------
(* No two workers hold the same row.                                       *)
JobsOf(A) == {job[w] : w \in A}

LEMMA JobsAreDistinct ==
  ASSUME TypeOK, WorkerInv, NEW A \in SUBSET Workers
  PROVE  /\ IsFiniteSet(JobsOf(A)) /\ Cardinality(JobsOf(A)) <= Cardinality(A)
         /\ Cardinality(A) \in Nat /\ Cardinality(JobsOf(A)) \in Nat
         /\ (\A w \in A : job[w] # 0) => Cardinality(JobsOf(A)) = Cardinality(A)
<1> DEFINE f == [w \in A |-> job[w]]
<1>1. IsFiniteSet(A) /\ Cardinality(A) \in Nat
  BY PoolAssumption, FS_Subset, FS_CardinalityType
<1>2. f \in Surjection(A, JobsOf(A))
  BY DEF Surjection, JobsOf
<1>3. (\A w \in A : job[w] # 0) => f \in Injection(A, JobsOf(A))
  BY DEF Injection, IsInjective, JobsOf, WorkerInv
<1> HIDE DEF f
<1>4. /\ IsFiniteSet(JobsOf(A)) /\ Cardinality(JobsOf(A)) <= Cardinality(A)
      /\ Cardinality(JobsOf(A)) = Cardinality(A) <=> f \in Injection(A, JobsOf(A))
  BY <1>1, <1>2, FS_Surjection
<1> QED
  BY <1>1, <1>3, <1>4, FS_CardinalityType

(* Rows with an outcome: those with a future, and those whose worker has   *)
(* told the breaker and is about to resolve it.                            *)
LEMMA RowsByHolder ==
  ASSUME TypeOK, WorkerInv, NEW A, NEW B, NEW r \in Rows,
         A \subseteq Resolved, "raised" \notin A,
         \A a \in Replies \cup {"skipped"} : a \in B <=> Classify(a) \in A
  PROVE  OutcomeOf(r) \in A <=> future[r] \in A \/ r \in JobsOf(Recording(B))
<1>1. "none" \notin A /\ "sent" \notin A /\ "pending" \notin A
  BY DEF Resolved, Counted
<1>2. CASE future[r] \in Resolved
  <2>1. r \notin JobsOf(Recording(B))
    BY <1>2 DEF JobsOf, Recording, WorkerInv, Resolved, Counted, Rows
  <2> QED
    BY <1>2, <2>1, ResolvedRow
<1>3. CASE future[r] \notin Resolved /\ \A w \in Workers : job[w] # r
  BY <1>1, <1>3, FreeRow DEF JobsOf, Recording
<1>4. ASSUME NEW w \in Workers, job[w] = r
      PROVE  OutcomeOf(r) \in A <=> future[r] \in A \/ r \in JobsOf(Recording(B))
  <2>1. /\ step[w] # "idle" /\ OutcomeOf(r) = HeldOutcome(w) /\ future[r] = "pending"
        /\ \A v \in Workers : job[v] = r => v = w
    BY <1>4, HeldRow DEF WorkerInv, Rows
  <2>2. r \in JobsOf(Recording(B)) <=> step[w] = "resolve" /\ reply[w] \in B
    BY <1>4, <2>1 DEF JobsOf, Recording
  <2>3. step[w] = "resolve" => reply[w] \in Replies \cup {"skipped"}
    BY DEF TypeOK, WorkerInv
  <2> QED
    BY <1>1, <2>1, <2>2, <2>3 DEF HeldOutcome
<1> QED
  BY <1>2, <1>3, <1>4

(* Each completed call is told to the breaker exactly once and as what it  *)
(* was.                                                                    *)
THEOREM BreakerHearsEachCall == Spec => []BreakerHearsEachCallOnce
<1>1. KnownInv => BreakerHearsEachCallOnce
  <2> SUFFICES ASSUME KnownInv PROVE BreakerHearsEachCallOnce
    OBVIOUS
  <2> USE DEF KnownInv, FullInv, PoolInv
  <2>1. \A a \in Replies \cup {"skipped"} :
          /\ a \in Caught <=> Classify(a) \in {"failed"}
          /\ a \in Accepted <=> Classify(a) \in {"created", "updated"}
    BY PoolAssumption, ClassifyIs DEF Accepted, Caught, Escaping
  <2> DEFINE Count(S, B) == Cardinality(S) + Cardinality(Recording(B))
             D == WithFuture("created") \cup WithFuture("updated")
  <2>2. ASSUME NEW S \in SUBSET Rows, NEW B,
               \A r \in S : future[r] \in Resolved
        PROVE  Cardinality(S \cup JobsOf(Recording(B))) = Count(S, B)
    <3>1. Recording(B) \in SUBSET Workers /\ \A w \in Recording(B) : job[w] # 0
      BY DEF Recording, WorkerInv
    <3>2. Cardinality(JobsOf(Recording(B))) = Cardinality(Recording(B))
      BY <3>1, JobsAreDistinct
    <3>3. \A w \in Recording(B) : job[w] \in Rows /\ job[w] \notin S
      <4>1. "pending" \notin Resolved
        BY DEF Resolved, Counted
      <4>2. ASSUME NEW w \in Recording(B)
            PROVE  job[w] \in Rows /\ future[job[w]] = "pending"
        <5>1. w \in Workers /\ step[w] # "idle"
          BY DEF Recording
        <5> QED
          BY <5>1, HeldRow
      <4> QED
        BY <2>2, <4>1, <4>2
    <3>4. JobsOf(Recording(B)) \in SUBSET Rows /\ S \cap JobsOf(Recording(B)) = {}
      BY <3>3 DEF JobsOf
    <3> QED
      BY <3>2, <3>4, DisjointRows
  <2>3. RowsWith("failed") = WithFuture("failed") \cup JobsOf(Recording(Caught))
    <3>1. \A r \in Rows : OutcomeOf(r) \in {"failed"} <=>
            future[r] \in {"failed"} \/ r \in JobsOf(Recording(Caught))
      BY <2>1, RowsByHolder DEF Resolved, Counted
    <3>2. JobsOf(Recording(Caught)) \subseteq Rows
      BY PoolAssumption DEF JobsOf, Recording, TypeOK, WorkerInv, Rows
    <3> QED
      BY <3>1, <3>2 DEF RowsWith, WithFuture
  <2>4. Succeeded = D \cup JobsOf(Recording(Accepted))
    <3>1. \A r \in Rows : OutcomeOf(r) \in {"created", "updated"} <=>
            future[r] \in {"created", "updated"} \/ r \in JobsOf(Recording(Accepted))
      BY <2>1, RowsByHolder DEF Resolved, Counted
    <3>2. JobsOf(Recording(Accepted)) \subseteq Rows
      BY PoolAssumption DEF JobsOf, Recording, TypeOK, WorkerInv, Rows
    <3> QED
      BY <3>1, <3>2 DEF Succeeded, RowsWith, WithFuture
  <2>5. Cardinality(RowsWith("failed")) = Count(WithFuture("failed"), Caught)
    BY <2>2, <2>3 DEF WithFuture, Resolved, Counted
  <2>6. D \in SUBSET Rows /\ \A r \in D : future[r] \in Resolved
    BY DEF WithFuture, Resolved, Counted
  <2> HIDE DEF D
  <2>7. Cardinality(Succeeded) = Count(D, Accepted)
    BY <2>2, <2>4, <2>6
  <2> QED
    BY <2>5, <2>7 DEF HeardInv, BreakerHearsEachCallOnce, D
<1> QED
  BY <1>1, KnownInvariant, PTL

-----------------------------------------------------------------------------
(* The queue is the end of what has been submitted; everything before it   *)
(* was taken in order, so that the worker that resolved a row has gone on  *)
(* to a later one or to none.                                              *)
Base == next - Len(queue)

OrderInv ==
    /\ \A i \in 1..Len(queue) : queue[i] = Base + i - 1
    /\ \A w \in Workers : job[w] < Base
    /\ \A r \in Rows : future[r] \in Resolved =>
          r < Base /\ \E w \in Workers : job[w] = 0 \/ job[w] > r

LEMMA OrderStep ==
  ASSUME FullInv, OrderInv, [Next]_vars
  PROVE  OrderInv'
<1> USE DEF FullInv, PoolInv
<1>0. next \in Nat /\ Len(queue) \in Nat /\ \A w \in Workers : job[w] \in Nat
  BY PoolAssumption, QueueFacts DEF TypeOK
<1>1. ASSUME UNCHANGED <<next, queue, job>>,
             \A r \in Rows : future'[r] \in Resolved => future[r] \in Resolved
      PROVE  OrderInv'
  <2>1. Base' = Base
    BY <1>1 DEF Base
  <2> QED
    BY <1>1, <2>1 DEF OrderInv
<1>2. CASE CollectFinished \/ Drain \/ Drained \/ Leave
  BY <1>1, <1>2 DEF CollectFinished, Drain, Drained, Leave, workerVars
<1>3. CASE Submit
  <2>1. /\ next \in Rows /\ next' = next + 1 /\ job' = job
        /\ queue' = Append(queue, next) /\ future' = [future EXCEPT ![next] = "pending"]
    BY <1>3, PoolAssumption DEF Submit, TypeOK, Rows, workerVars
  <2>2. /\ Len(queue') = Len(queue) + 1 /\ queue'[Len(queue) + 1] = next
        /\ \A i \in 1..Len(queue) : queue'[i] = queue[i]
    BY <2>1, QueueFacts DEF TypeOK
  <2>3. Base' = Base /\ next = Base + Len(queue)
    BY <1>0, <2>1, <2>2 DEF Base
  <2>4. \A i \in 1..Len(queue') : queue'[i] = Base' + i - 1
    BY <1>0, <2>2, <2>3 DEF OrderInv
  <2>5. \A r \in Rows : future'[r] \in Resolved => future[r] \in Resolved
    BY <2>1 DEF TypeOK, Resolved, Counted
  <2> QED
    BY <2>1, <2>3, <2>4, <2>5 DEF OrderInv
<1>4. ASSUME NEW w \in Workers, Take(w)
      PROVE  OrderInv'
  <2>1. /\ queue # <<>> /\ queue' = Tail(queue) /\ next' = next /\ future' = future
        /\ job' = [job EXCEPT ![w] = Head(queue)] /\ job[w] = 0
    BY <1>4 DEF Take, WorkerInv, mainVars
  <2>2. /\ Len(queue) >= 1 /\ Len(queue') = Len(queue) - 1 /\ Head(queue) = queue[1]
        /\ \A i \in 1..(Len(queue) - 1) : queue'[i] = queue[i + 1]
    BY <2>1, QueueFacts DEF TypeOK
  <2>3. Base' = Base + 1 /\ Head(queue) = Base /\ Base \in Int
    BY <1>0, <2>1, <2>2 DEF Base, OrderInv
  <2>4. \A i \in 1..Len(queue') : queue'[i] = Base' + i - 1
    BY <1>0, <2>2, <2>3 DEF OrderInv
  <2>5. /\ job'[w] = Base /\ \A v \in Workers : v # w => job'[v] = job[v]
    BY <2>1, <2>3 DEF TypeOK
  <2>6. \A v \in Workers : job'[v] < Base'
    BY <1>0, <2>3, <2>5 DEF OrderInv
  <2>7. ASSUME NEW r \in Rows, future[r] \in Resolved
        PROVE  r < Base' /\ \E v \in Workers : job'[v] = 0 \/ job'[v] > r
    <3>1. r < Base /\ r \in Int
      BY <2>7 DEF OrderInv, Rows
    <3>2. PICK v \in Workers : job[v] = 0 \/ job[v] > r
      BY <2>7 DEF OrderInv
    <3>3. job'[v] = 0 \/ job'[v] > r
      BY <2>3, <2>5, <3>1, <3>2
    <3> QED
      BY <2>3, <3>1, <3>3
  <2> QED
    BY <2>1, <2>4, <2>6, <2>7 DEF OrderInv
<1>5. ASSUME NEW w \in Workers, ConsultBreaker(w) \/ Send(w) \/ Answer(w) \/ RecordOutcome(w)
      PROVE  OrderInv'
  BY <1>1, <1>5 DEF ConsultBreaker, Send, Answer, RecordOutcome, mainVars
<1>6. ASSUME NEW w \in Workers, Resolve(w)
      PROVE  OrderInv'
  <2>1. /\ next' = next /\ queue' = queue /\ job' = [job EXCEPT ![w] = 0]
        /\ job[w] \in Rows
        /\ \A r \in Rows : r # job[w] => future'[r] = future[r]
    BY <1>6, HeldRow DEF Resolve, mainVars, TypeOK
  <2>2. Base' = Base /\ 0 < Base
    <3>1. job[w] < Base /\ 0 < job[w]
      BY <2>1 DEF OrderInv, Rows
    <3> QED
      BY <1>0, <2>1, <3>1 DEF Base
  <2>3. job'[w] = 0 /\ \A v \in Workers : v # w => job'[v] = job[v]
    BY <2>1 DEF TypeOK
  <2>4. \A v \in Workers : job'[v] < Base'
    BY <2>2, <2>3 DEF OrderInv
  <2>5. \A r \in Rows : future'[r] \in Resolved => r < Base'
    BY <2>1, <2>2 DEF OrderInv
  <2> QED
    BY <2>1, <2>2, <2>3, <2>4, <2>5 DEF OrderInv
<1>7. CASE UNCHANGED vars
  BY <1>1, <1>7 DEF vars, mainVars, workerVars
<1> QED
  BY <1>2, <1>3, <1>4, <1>5, <1>6, <1>7 DEF Next, Main, Run, Terminated

LEMMA OrderInvariant == Spec => []OrderInv
<1>1. Init => OrderInv
  BY DEF Init, OrderInv, Base, Resolved, Counted
<1> QED
  BY <1>1, OrderStep, FullInvariant, PTL DEF Spec

(* When a row has been started, at most one earlier row for each other     *)
(* worker is still without an outcome.                                     *)
THEOREM RowsStartInOrder == Spec => []InOrder
<1>1. FullInv /\ OrderInv => InOrder
  <2> SUFFICES ASSUME FullInv, OrderInv, NEW q \in Rows, Started(q)
               PROVE  Cardinality({r \in 1..(q - 1) : future[r] \notin Resolved})
                        <= Cardinality(Workers) - 1
    BY DEF InOrder
  <2> USE DEF FullInv, PoolInv
  <2> DEFINE E == {r \in 1..(q - 1) : future[r] \notin Resolved}
             A == {w \in Workers : job[w] \in 1..(q - 1)}
  <2>0. /\ q \in Nat /\ next \in Nat /\ Len(queue) \in Nat /\ Base <= next
        /\ \A w \in Workers : job[w] \in Nat
    BY PoolAssumption, QueueFacts DEF TypeOK, Rows, Base
  <2>1. PICK v \in Workers : job[v] = 0 \/ job[v] >= q
    BY <2>0 DEF Started, OrderInv
  <2>2. q < Base
    BY DEF Started, OrderInv
  <2>3. E \subseteq JobsOf(A)
    <3> SUFFICES ASSUME NEW r \in E PROVE r \in JobsOf(A)
      OBVIOUS
    <3>0. Base \in Int /\ NumRows \in Nat /\ q <= NumRows
      BY <2>0, PoolAssumption DEF Base, Rows
    <3>1. r \in Rows /\ r < Base /\ r < next /\ future[r] \notin Resolved
      BY <2>0, <2>2, <3>0 DEF Rows
    <3>2. future[r] = "pending"
      <4>1. future[r] # "unsubmitted"
        BY <2>0, <3>1 DEF FutureInv, Rows
      <4> QED
        BY <3>1, <4>1 DEF TypeOK
    <3>3. \A i \in 1..Len(queue) : queue[i] # r
      BY <2>0, <3>1 DEF OrderInv, Base
    <3>4. PICK w \in Workers : job[w] = r
      BY <3>1, <3>2, <3>3 DEF FutureInv
    <3> QED
      BY <3>4 DEF JobsOf
  <2>4. A \in SUBSET (Workers \ {v})
    BY <2>0, <2>1
  <2>5. /\ IsFiniteSet(Workers \ {v}) /\ Cardinality(Workers \ {v}) = Cardinality(Workers) - 1
        /\ Cardinality(Workers) \in Nat
    BY PoolAssumption, FS_RemoveElement, FS_CardinalityType
  <2> HIDE DEF A, E
  <2>6. Cardinality(A) <= Cardinality(Workers) - 1
    BY <2>4, <2>5, FS_Subset
  <2>7. /\ IsFiniteSet(JobsOf(A)) /\ Cardinality(JobsOf(A)) <= Cardinality(A)
        /\ Cardinality(A) \in Nat /\ Cardinality(JobsOf(A)) \in Nat
    BY <2>4, JobsAreDistinct
  <2>8. IsFiniteSet(E) /\ Cardinality(E) <= Cardinality(JobsOf(A)) /\ Cardinality(E) \in Nat
    BY <2>3, <2>7, FS_Subset, FS_CardinalityType
  <2>9. Cardinality(E) <= Cardinality(Workers) - 1
    BY <2>5, <2>6, <2>7, <2>8
  <2> QED
    BY <2>9 DEF E
<1> QED
  BY <1>1, OrderInvariant, FullInvariant, PTL

-----------------------------------------------------------------------------
(* What is still to be done: for every row, to wait until it fits into the *)
(* window, to submit it, to take it off the queue, to take it through each *)
(* step of _upsert_one and to collect it; for the main thread, to leave    *)
(* the loops and to join the pool.                                         *)
WorkDuties == {"take", "check", "send", "await", "record", "resolve"}
RowDuties == {"wait", "submit", "collect"} \cup WorkDuties

Past(s) ==
    CASE s = "check"   -> {"take"}
      [] s = "send"    -> {"take", "check"}
      [] s = "await"   -> {"take", "check", "send"}
      [] s = "record"  -> {"take", "check", "send", "await"}
      [] s = "resolve" -> {"take", "check", "send", "await", "record"}
      [] s = "idle"    -> {}

WaitDue(r) == r > next \/ (r = next /\ main # "submit")
CollectDue(r) == r >= next \/ r \in inFlight
WorkDue(r, d) ==
    future[r] \notin Resolved /\ \A w \in Workers : job[w] = r => d \notin Past(step[w])

Due(r, d) ==
    \/ d = "wait" /\ WaitDue(r)
    \/ d = "submit" /\ r >= next
    \/ d = "collect" /\ CollectDue(r)
    \/ d \in WorkDuties /\ WorkDue(r, d)

LeaveDue == main \in {"loop", "submit"}

Todo ==
    {p \in Rows \X RowDuties : Due(p[1], p[2])}
        \cup (IF LeaveDue THEN {<<0, "leave">>} ELSE {})
        \cup (IF Ended THEN {} ELSE {<<0, "join">>})

(* Nothing done is due again, and something due is done.                   *)
NothingRedone ==
    /\ \A r \in Rows, d \in RowDuties : Due(r, d)' => Due(r, d)
    /\ LeaveDue' => LeaveDue
    /\ Ended => Ended'

SomethingDone ==
    \/ \E r \in Rows, d \in RowDuties : Due(r, d) /\ ~(Due(r, d)')
    \/ LeaveDue /\ ~LeaveDue'
    \/ ~Ended /\ Ended'

LEMMA TodoShrinks ==
  ASSUME NothingRedone, SomethingDone
  PROVE  Todo' \subseteq Todo /\ Todo' # Todo
<1>1. Todo' \subseteq Todo
  BY DEF Todo, NothingRedone
<1>2. 0 \notin Rows
  BY DEF Rows
<1>3. ASSUME NEW r \in Rows, NEW d \in RowDuties, Due(r, d), ~(Due(r, d)')
      PROVE  Todo' # Todo
  <2>1. <<r, d>> \in Todo /\ r # 0
    BY <1>2, <1>3 DEF Todo
  <2>2. <<r, d>> \notin Todo'
    BY <1>3, <2>1 DEF Todo
  <2> QED
    BY <2>1, <2>2
<1>4. CASE LeaveDue /\ ~LeaveDue'
  <2>1. <<0, "leave">> \in Todo
    BY <1>4 DEF Todo
  <2>2. <<0, "leave">> \notin Todo'
    BY <1>2, <1>4 DEF Todo
  <2> QED
    BY <1>1, <2>1, <2>2
<1>5. CASE ~Ended /\ Ended'
  <2>1. <<0, "join">> \in Todo
    BY <1>5 DEF Todo
  <2>2. <<0, "join">> \notin Todo'
    BY <1>2, <1>5 DEF Todo
  <2> QED
    BY <1>1, <2>1, <2>2
<1> QED
  BY <1>1, <1>3, <1>4, <1>5 DEF SomethingDone

(* What each kind of step leaves as it is.                                 *)
LEMMA WorkKept ==
  ASSUME NEW r \in Rows, UNCHANGED <<step, job>>, future'[r] = future[r], NEW d
  PROVE  WorkDue(r, d)' <=> WorkDue(r, d)
BY DEF WorkDue

LEMMA MainDuesKept ==
  ASSUME UNCHANGED mainVars
  PROVE  /\ \A r \in Rows : (WaitDue(r)' <=> WaitDue(r)) /\ (CollectDue(r)' <=> CollectDue(r))
         /\ next' = next /\ (LeaveDue' <=> LeaveDue) /\ (Ended' <=> Ended)
BY DEF mainVars, WaitDue, CollectDue, LeaveDue, Ended

LEMMA SubmitIsProgress ==
  ASSUME FullInv, Submit
  PROVE  NothingRedone /\ SomethingDone
<1> USE DEF FullInv, PoolInv
<1>1. next \in Rows /\ next \in Nat /\ next' = next + 1 /\ main' = "loop"
  BY PoolAssumption DEF Submit, TypeOK, Rows
<1>2. future[next] = "unsubmitted" /\ inFlight \subseteq Rows
  BY <1>1 DEF FutureInv, TypeOK, Submitted
<1>3. ASSUME NEW r \in Rows
      PROVE  /\ WaitDue(r)' => WaitDue(r)
             /\ r >= next' => r >= next
             /\ CollectDue(r)' => CollectDue(r)
  BY <1>1 DEF Submit, WaitDue, CollectDue, Rows
<1>4. ASSUME NEW r \in Rows, NEW d \in WorkDuties
      PROVE  WorkDue(r, d)' => WorkDue(r, d)
  <2>1. CASE r = next
    BY <1>2, <2>1 DEF Submit, WorkDue, workerVars, Resolved, Counted
  <2>2. CASE r # next
    BY <1>1, <2>2, WorkKept DEF Submit, workerVars, TypeOK
  <2> QED
    BY <2>1, <2>2
<1>5. NothingRedone
  BY <1>1, <1>3, <1>4 DEF NothingRedone, Due, LeaveDue, Submit, Ended
<1>6. PICK r \in Rows : r = next
  BY <1>1
<1>7. Due(r, "submit") /\ ~(Due(r, "submit")')
  BY <1>1, <1>6 DEF Due, WorkDuties
<1> QED
  BY <1>5, <1>7 DEF SomethingDone, RowDuties

(* The main thread's other steps: collecting, leaving the loops, joining.  *)
LEMMA MainIsProgress ==
  ASSUME FullInv, CollectFinished \/ Drain \/ Drained \/ Leave
  PROVE  main' # main \/ inFlight' # inFlight => NothingRedone /\ SomethingDone
<1> USE DEF FullInv, PoolInv
<1> SUFFICES ASSUME main' # main \/ inFlight' # inFlight
             PROVE  NothingRedone /\ SomethingDone
  OBVIOUS
<1>1. /\ UNCHANGED <<next, step, job, future>> /\ inFlight' \subseteq inFlight
      /\ main' = "submit" => main = "loop" /\ next <= NumRows
      /\ LeaveDue' => LeaveDue
      /\ Ended => Ended'
  BY DEF CollectFinished, Drain, Drained, Leave, workerVars, LeaveDue, Ended
<1>2. next \in 1..(NumRows + 1) /\ inFlight \subseteq Submitted
  BY DEF TypeOK
<1>3. main = "submit" => main' = "submit"
  BY DEF CollectFinished, Drain, Drained, Leave
<1>4. ASSUME NEW r \in Rows
      PROVE  /\ WaitDue(r)' => WaitDue(r)
             /\ r >= next' => r >= next
             /\ CollectDue(r)' => CollectDue(r)
             /\ \A d \in WorkDuties : WorkDue(r, d)' => WorkDue(r, d)
  BY <1>1, <1>3, WorkKept DEF WaitDue, CollectDue
<1>5. NothingRedone
  BY <1>1, <1>4 DEF NothingRedone, Due
<1>6. CASE main' = "submit"
  <2>1. PICK r \in Rows : r = next
    BY <1>1, <1>2, <1>6, PoolAssumption DEF Rows
  <2>2. WaitDue(r) /\ ~(WaitDue(r)')
    BY <1>1, <1>2, <1>6, <2>1 DEF WaitDue
  <2>3. Due(r, "wait") /\ ~(Due(r, "wait")')
    BY <2>2 DEF Due, WorkDuties
  <2> QED
    BY <1>5, <2>3 DEF SomethingDone, RowDuties
<1>7. CASE LeaveDue /\ ~LeaveDue'
  BY <1>5, <1>7 DEF SomethingDone
<1>8. CASE ~Ended /\ Ended'
  BY <1>5, <1>8 DEF SomethingDone
<1>9. CASE main' = main
  <2>1. PICK r \in inFlight : r \notin inFlight'
    BY <1>1, <1>9
  <2>2. r \in Rows /\ ~(r >= next)
    BY <1>2, <2>1 DEF Submitted, Rows
  <2>3. Due(r, "collect") /\ ~(Due(r, "collect")')
    BY <1>1, <2>1, <2>2 DEF Due, CollectDue, WorkDuties
  <2> QED
    BY <1>5, <2>2, <2>3 DEF SomethingDone, RowDuties
<1> QED
  BY <1>6, <1>7, <1>8, <1>9 DEF CollectFinished, Drain, Drained, Leave, LeaveDue, Ended

LEMMA TakeIsProgress ==
  ASSUME FullInv, NEW w \in Workers, Take(w)
  PROVE  NothingRedone /\ SomethingDone
<1> USE DEF FullInv, PoolInv
<1>1. PICK h \in Rows : h = Head(queue)
  BY QueueFacts DEF Take, TypeOK
<1>2. /\ future[h] = "pending" /\ h # 0
      /\ \A v \in Workers : job[v] # h
  <2>1. queue[1] = h /\ 1 \in 1..Len(queue)
    BY <1>1, QueueFacts DEF Take, TypeOK
  <2> QED
    BY <2>1 DEF QueueInv, Rows
<1>3. /\ UNCHANGED <<mainVars, future>> /\ job'[w] = h /\ step'[w] = "check"
      /\ \A v \in Workers : v # w => job'[v] = job[v] /\ step'[v] = step[v]
      /\ job[w] = 0
  BY <1>1 DEF Take, Goto, TypeOK, WorkerInv
<1>4. ASSUME NEW r \in Rows, NEW d \in WorkDuties
      PROVE  WorkDue(r, d)' => WorkDue(r, d)
  <2>1. CASE r = h
    BY <1>2, <1>3, <2>1 DEF WorkDue, Resolved, Counted
  <2>2. CASE r # h
    BY <1>3, <2>2 DEF WorkDue, Rows
  <2> QED
    BY <2>1, <2>2
<1>5. NothingRedone
  BY <1>3, <1>4, MainDuesKept DEF NothingRedone, Due
<1>6. WorkDue(h, "take") /\ ~(WorkDue(h, "take")')
  BY <1>2, <1>3 DEF WorkDue, Past, Resolved, Counted
<1>7. Due(h, "take") /\ ~(Due(h, "take")')
  BY <1>6 DEF Due, WorkDuties
<1> QED
  BY <1>5, <1>7 DEF SomethingDone, RowDuties, WorkDuties

(* A worker that moves on to step t has done what it was at.               *)
LEMMA MoveIsProgress ==
  ASSUME FullInv, NEW w \in Workers, NEW t,
         UNCHANGED <<mainVars, job, future>>, Goto(w, t), step[w] # "idle",
         Past(step[w]) \subseteq Past(t),
         step[w] \in WorkDuties, step[w] \in Past(t), step[w] \notin Past(step[w])
  PROVE  NothingRedone /\ SomethingDone
<1> USE DEF FullInv, PoolInv
<1>1. PICK j \in Rows : j = job[w] /\ future[j] = "pending"
  BY PoolAssumption DEF WorkerInv, TypeOK, Rows
<1>2. /\ step'[w] = t /\ \A v \in Workers : v # w => step'[v] = step[v]
  BY DEF Goto, TypeOK
<1>3. ASSUME NEW r \in Rows, NEW d \in WorkDuties
      PROVE  WorkDue(r, d)' => WorkDue(r, d)
  BY <1>2 DEF WorkDue
<1>4. NothingRedone
  BY <1>3, MainDuesKept DEF NothingRedone, Due
<1>5. PICK d \in WorkDuties : d = step[w]
  OBVIOUS
<1>6. \A v \in Workers : job[v] = j => v = w
  BY <1>1 DEF WorkerInv, Rows
<1>7. WorkDue(j, d) /\ ~(WorkDue(j, d)')
  BY <1>1, <1>2, <1>5, <1>6 DEF WorkDue, Resolved, Counted
<1>8. Due(j, d) /\ ~(Due(j, d)')
  BY <1>5, <1>7 DEF Due, WorkDuties
<1> QED
  BY <1>4, <1>8 DEF SomethingDone, RowDuties

LEMMA ResolveIsProgress ==
  ASSUME FullInv, NEW w \in Workers, Resolve(w)
  PROVE  NothingRedone /\ SomethingDone
<1> USE DEF FullInv, PoolInv
<1>1. PICK j \in Rows : j = job[w] /\ future[j] = "pending"
  BY PoolAssumption DEF Resolve, WorkerInv, TypeOK, Rows
<1>2. future'[j] \in Resolved /\ \A r \in Rows : r # j => future'[r] = future[r]
  <2>1. reply[w] \in (Accepted \cup {"skipped"}) \cup Caught \cup Escaping
    BY PoolAssumption DEF Resolve, WorkerInv, TypeOK
  <2>2. Classify(reply[w]) \in Resolved
    BY <2>1, ClassifyIs DEF Resolved, Counted, Accepted
  <2> QED
    BY <1>1, <2>2 DEF Resolve, TypeOK
<1>3. /\ \A v \in Workers : v # w => job'[v] = job[v] /\ step'[v] = step[v]
      /\ UNCHANGED mainVars
  BY DEF Resolve, Goto, TypeOK
<1>4. \A v \in Workers : job[v] = j => v = w
  BY <1>1 DEF WorkerInv, Rows
<1>5. ASSUME NEW r \in Rows, NEW d \in WorkDuties
      PROVE  WorkDue(r, d)' => WorkDue(r, d)
  BY <1>1, <1>2, <1>3 DEF WorkDue
<1>6. NothingRedone
  BY <1>3, <1>5, MainDuesKept DEF NothingRedone, Due
<1>7. WorkDue(j, "resolve") /\ ~(WorkDue(j, "resolve")')
  BY <1>1, <1>2, <1>4 DEF WorkDue, Resolve, Past, Resolved, Counted
<1>8. Due(j, "resolve") /\ ~(Due(j, "resolve")')
  BY <1>7 DEF Due, WorkDuties
<1> QED
  BY <1>6, <1>8 DEF SomethingDone, RowDuties, WorkDuties

(* CollectFinished goes on collecting or unwinds; Drain collects a row or  *)
(* unwinds: neither waits in vain.                                         *)
LEMMA MainMoves ==
  ASSUME FullInv, CollectFinished \/ Drain \/ Drained \/ Leave
  PROVE  main' # main \/ inFlight' # inFlight
BY DEF CollectFinished, Drain, Drained, Leave, Finished

LEMMA RunIsProgress ==
  ASSUME FullInv, NEW w \in Workers, Run(w)
  PROVE  NothingRedone /\ SomethingDone
<1>1. CASE ConsultBreaker(w)
  <2>1. PICK t \in {"send", "resolve"} : Goto(w, t)
    BY <1>1 DEF ConsultBreaker
  <2> QED
    BY <1>1, <2>1, MoveIsProgress DEF ConsultBreaker, Past, WorkDuties
<1>2. CASE Send(w)
  BY <1>2, MoveIsProgress DEF Send, Past, WorkDuties
<1>3. CASE Answer(w)
  <2>1. PICK t \in {"record", "resolve"} : Goto(w, t)
    BY <1>3 DEF Answer
  <2> QED
    BY <1>3, <2>1, MoveIsProgress DEF Answer, Past, WorkDuties
<1>4. CASE RecordOutcome(w)
  BY <1>4, MoveIsProgress DEF RecordOutcome, Past, WorkDuties
<1>5. CASE Resolve(w)
  BY <1>5, ResolveIsProgress
<1> QED
  BY <1>1, <1>2, <1>3, <1>4, <1>5 DEF Run

LEMMA StepIsProgress ==
  ASSUME FullInv, Next, ~UNCHANGED vars
  PROVE  Todo' \subseteq Todo /\ Todo' # Todo
<1>1. CASE Main
  BY <1>1, SubmitIsProgress, MainIsProgress, MainMoves, TodoShrinks DEF Main
<1>2. ASSUME NEW w \in Workers, Take(w) \/ Run(w)
      PROVE  Todo' \subseteq Todo /\ Todo' # Todo
  BY <1>2, TakeIsProgress, RunIsProgress, TodoShrinks
<1> QED
  BY <1>1, <1>2 DEF Next, Terminated

(* sync_records never goes round in circles: whatever the destination      *)
(* answers and however the threads are scheduled, every step of any thread *)
(* does something that was still to be done and that is never due again.   *)
THEOREM EveryStepIsProgress == Spec => [][Todo' \subseteq Todo /\ Todo' # Todo]_vars
<1>1. FullInv /\ [Next]_vars => [Todo' \subseteq Todo /\ Todo' # Todo]_vars
  BY StepIsProgress
<1> QED
  BY <1>1, FullInvariant, PTL DEF Spec

LEMMA OneMore ==
  ASSUME NEW S, NEW x, IsFiniteSet(S)
  PROVE  /\ IsFiniteSet(S \cup {x}) /\ Cardinality(S) \in Nat
         /\ Cardinality(S \cup {x}) \in Nat
         /\ Cardinality(S \cup {x}) <= Cardinality(S) + 1
<1>1. /\ IsFiniteSet(S \cup {x})
      /\ Cardinality(S \cup {x}) = IF x \in S THEN Cardinality(S) ELSE Cardinality(S) + 1
  BY FS_AddElement
<1>2. Cardinality(S) \in Nat /\ Cardinality(S \cup {x}) \in Nat
  BY <1>1, FS_CardinalityType
<1> QED
  BY <1>1, <1>2

LEMMA AtMostNineEach ==
  ASSUME NEW n \in Nat, NEW k \in 0..9
  PROVE  n * k <= 9 * n
<1>1. k \in {0, 1, 2, 3, 4, 5, 6, 7, 8, 9}
  OBVIOUS
<1> QED
  BY <1>1

(* At most nine duties a row, and two of the main thread.                  *)
LEMMA TodoIsBounded ==
  /\ IsFiniteSet(Todo) /\ Cardinality(Todo) \in Nat
  /\ Cardinality(Todo) <= 9 * NumRows + 2
<1> DEFINE Pairs == Rows \X RowDuties
           WithLeave == Pairs \cup {<<0, "leave">>}
           Whole == WithLeave \cup {<<0, "join">>}
<1>1. IsFiniteSet(RowDuties) /\ Cardinality(RowDuties) <= 9
  <2> DEFINE D1 == {"wait"}
             D2 == D1 \cup {"submit"}
             D3 == D2 \cup {"collect"}
             D4 == D3 \cup {"take"}
             D5 == D4 \cup {"check"}
             D6 == D5 \cup {"send"}
             D7 == D6 \cup {"await"}
             D8 == D7 \cup {"record"}
             D9 == D8 \cup {"resolve"}
  <2>1. RowDuties = D9
    BY DEF RowDuties, WorkDuties
  <2>2. IsFiniteSet(D1) /\ Cardinality(D1) <= 1
    BY FS_Singleton
  <2> HIDE DEF D1
  <2>3. IsFiniteSet(D2) /\ Cardinality(D2) <= 2
    <3>1. /\ IsFiniteSet(D2) /\ Cardinality(D1) \in Nat /\ Cardinality(D2) \in Nat
          /\ Cardinality(D2) <= Cardinality(D1) + 1
      BY <2>2, OneMore
    <3> QED
      BY <2>2, <3>1
  <2> HIDE DEF D2
  <2>4. IsFiniteSet(D3) /\ Cardinality(D3) <= 3
    <3>1. /\ IsFiniteSet(D3) /\ Cardinality(D2) \in Nat /\ Cardinality(D3) \in Nat
          /\ Cardinality(D3) <= Cardinality(D2) + 1
      BY <2>3, OneMore
    <3> QED
      BY <2>3, <3>1
  <2> HIDE DEF D3
  <2>5. IsFiniteSet(D4) /\ Cardinality(D4) <= 4
    <3>1. /\ IsFiniteSet(D4) /\ Cardinality(D3) \in Nat /\ Cardinality(D4) \in Nat
          /\ Cardinality(D4) <= Cardinality(D3) + 1
      BY <2>4, OneMore
    <3> QED
      BY <2>4, <3>1
  <2> HIDE DEF D4
  <2>6. IsFiniteSet(D5) /\ Cardinality(D5) <= 5
    <3>1. /\ IsFiniteSet(D5) /\ Cardinality(D4) \in Nat /\ Cardinality(D5) \in Nat
          /\ Cardinality(D5) <= Cardinality(D4) + 1
      BY <2>5, OneMore
    <3> QED
      BY <2>5, <3>1
  <2> HIDE DEF D5
  <2>7. IsFiniteSet(D6) /\ Cardinality(D6) <= 6
    <3>1. /\ IsFiniteSet(D6) /\ Cardinality(D5) \in Nat /\ Cardinality(D6) \in Nat
          /\ Cardinality(D6) <= Cardinality(D5) + 1
      BY <2>6, OneMore
    <3> QED
      BY <2>6, <3>1
  <2> HIDE DEF D6
  <2>8. IsFiniteSet(D7) /\ Cardinality(D7) <= 7
    <3>1. /\ IsFiniteSet(D7) /\ Cardinality(D6) \in Nat /\ Cardinality(D7) \in Nat
          /\ Cardinality(D7) <= Cardinality(D6) + 1
      BY <2>7, OneMore
    <3> QED
      BY <2>7, <3>1
  <2> HIDE DEF D7
  <2>9. IsFiniteSet(D8) /\ Cardinality(D8) <= 8
    <3>1. /\ IsFiniteSet(D8) /\ Cardinality(D7) \in Nat /\ Cardinality(D8) \in Nat
          /\ Cardinality(D8) <= Cardinality(D7) + 1
      BY <2>8, OneMore
    <3> QED
      BY <2>8, <3>1
  <2> HIDE DEF D8
  <2>10. IsFiniteSet(D9) /\ Cardinality(D9) <= 9
    <3>1. /\ IsFiniteSet(D9) /\ Cardinality(D8) \in Nat /\ Cardinality(D9) \in Nat
          /\ Cardinality(D9) <= Cardinality(D8) + 1
      BY <2>9, OneMore
    <3> QED
      BY <2>9, <3>1
  <2> HIDE DEF D9
  <2> QED
    BY <2>1, <2>10
<1>2. IsFiniteSet(Pairs) /\ Cardinality(Pairs) = NumRows * Cardinality(RowDuties)
  BY <1>1, RowSetsFinite, FS_Product
<1>3. Cardinality(RowDuties) \in 0..9
  BY <1>1, FS_CardinalityType
<1>4. Cardinality(Pairs) <= 9 * NumRows
  BY <1>2, <1>3, AtMostNineEach, PoolAssumption
<1>5. Todo \in SUBSET Whole
  BY DEF Todo
<1> HIDE DEF Pairs
<1>6. /\ IsFiniteSet(WithLeave) /\ Cardinality(WithLeave) \in Nat
      /\ Cardinality(Pairs) \in Nat /\ Cardinality(WithLeave) <= Cardinality(Pairs) + 1
  BY <1>2, OneMore
<1> HIDE DEF WithLeave
<1>7. /\ IsFiniteSet(Whole) /\ Cardinality(Whole) \in Nat
      /\ Cardinality(Whole) <= Cardinality(WithLeave) + 1
  BY <1>6, OneMore
<1>8. Cardinality(Whole) <= 9 * NumRows + 2
  BY <1>4, <1>6, <1>7, PoolAssumption
<1> HIDE DEF Whole
<1>9. /\ IsFiniteSet(Todo) /\ Cardinality(Todo) \in Nat
      /\ Cardinality(Todo) <= Cardinality(Whole)
  BY <1>5, <1>7, FS_Subset, FS_CardinalityType
<1> QED
  BY <1>7, <1>8, <1>9, PoolAssumption

LEMMA SmallerCounts ==
  ASSUME NEW S, IsFiniteSet(S), NEW U, U \subseteq S, U # S
  PROVE  /\ Cardinality(S) \in Nat /\ Cardinality(U) \in Nat
         /\ Cardinality(U) + 1 <= Cardinality(S)
<1>1. /\ IsFiniteSet(U) /\ Cardinality(U) <= Cardinality(S)
      /\ Cardinality(S) # Cardinality(U)
  BY FS_Subset
<1>2. Cardinality(S) \in Nat /\ Cardinality(U) \in Nat
  BY <1>1, FS_CardinalityType
<1> QED
  BY <1>1, <1>2

(* A clock that every step of the main thread or of a worker advances.     *)
VARIABLE steps

CountedSpec ==
    /\ Init /\ steps = 0
    /\ [][Next /\ steps' = steps + (IF UNCHANGED vars THEN 0 ELSE 1)]_<<vars, steps>>

StepsLeft ==
    steps \in Nat /\ steps + Cardinality(Todo) <= 9 * NumRows + 2

(* The threads of sync_records take at most nine steps a record and two    *)
(* more, whatever the destination answers and however they are scheduled.  *)
THEOREM StepsAreBounded == CountedSpec => [](steps <= 9 * NumRows + 2)
<1> DEFINE Tick == Next /\ steps' = steps + (IF UNCHANGED vars THEN 0 ELSE 1)
<1>1. Init /\ steps = 0 => StepsLeft
  BY TodoIsBounded, PoolAssumption DEF StepsLeft
<1>2. [Tick]_<<vars, steps>> => [Next]_vars
  OBVIOUS
<1>3. FullInv /\ StepsLeft /\ [Tick]_<<vars, steps>> => StepsLeft'
  <2> SUFFICES ASSUME FullInv, StepsLeft, [Tick]_<<vars, steps>>
               PROVE  StepsLeft'
    OBVIOUS
  <2>1. CASE UNCHANGED vars
    <3>1. steps' = steps
      BY <2>1 DEF StepsLeft
    <3>2. Todo' = Todo
      BY <2>1 DEF vars, mainVars, workerVars, Todo, Due, WaitDue, CollectDue, WorkDue,
                  LeaveDue, Ended
    <3> QED
      BY <3>1, <3>2 DEF StepsLeft
  <2>2. CASE Tick /\ ~UNCHANGED vars
    <3>1. Todo' \subseteq Todo /\ Todo' # Todo
      BY <2>2, StepIsProgress
    <3>2. /\ Cardinality(Todo) \in Nat /\ Cardinality(Todo') \in Nat
          /\ Cardinality(Todo') + 1 <= Cardinality(Todo)
      BY <3>1, TodoIsBounded, SmallerCounts
    <3>3. steps' = steps + 1
      BY <2>2
    <3> QED
      BY <3>2, <3>3, PoolAssumption DEF StepsLeft
  <2> QED
    BY <2>1, <2>2
<1>4. StepsLeft => steps <= 9 * NumRows + 2
  BY TodoIsBounded, PoolAssumption DEF StepsLeft
<1>5. CountedSpec => []FullInv
  <2> HIDE DEF Tick
  <2>1. CountedSpec => Init /\ [][Tick]_<<vars, steps>>
    BY DEF CountedSpec, Tick
  <2> QED
    BY <1>2, <2>1, FullInvariant, PTL DEF Spec
<1> HIDE DEF Tick
<1>6. CountedSpec => (Init /\ steps = 0) /\ [][Tick]_<<vars, steps>>
  BY DEF CountedSpec, Tick
<1> QED
  BY <1>1, <1>3, <1>4, <1>5, <1>6, PTL

-----------------------------------------------------------------------------
(* Who can go on: the guards of Main, of Take and of Run.                  *)
MainCanGo ==
    \/ main = "submit"
    \/ main = "loop" /\ (Finished # {} \/ inFlight = {} \/ (next <= NumRows /\ ~WindowFull))
    \/ main \in {"exit", "unwind"} /\ Quiescent

WorkerCanGo(w) ==
    IF step[w] = "idle" THEN queue # <<>> ELSE step[w] = "await" => Replies # {}

(* A row that is submitted and has no outcome keeps some worker busy.      *)
LEMMA SomeWorkerGoes ==
  ASSUME FullInv, Replies # {}, queue # <<>> \/ \E w \in Workers : step[w] # "idle"
  PROVE  \E w \in Workers : WorkerCanGo(w)
<1>1. PICK w \in Workers : queue # <<>> \/ step[w] # "idle"
  BY PoolAssumption
<1> QED
  BY <1>1 DEF WorkerCanGo

(* The threads never all wait for one another: as long as sync_records has *)
(* not ended, the main thread or some worker can take a step, provided a   *)
(* request ends in some way (Replies).                                     *)
THEOREM SomebodyCanGo ==
  Replies # {} => (Spec => [](~Ended => MainCanGo \/ \E w \in Workers : WorkerCanGo(w)))
<1> SUFFICES ASSUME Replies # {}
             PROVE  Spec => [](~Ended => MainCanGo \/ \E w \in Workers : WorkerCanGo(w))
  OBVIOUS
<1>1. ASSUME FullInv, ~Ended, ~MainCanGo
      PROVE  \E w \in Workers : WorkerCanGo(w)
  <2> USE DEF FullInv, PoolInv
  <2>1. CASE main = "loop"
    <3>1. PICK r \in inFlight : future[r] \notin Resolved
      BY <1>1, <2>1 DEF MainCanGo, Finished
    <3>2. r \in Rows /\ ~(r >= next) /\ r # 0
      BY <1>1 DEF TypeOK, Submitted, Rows
    <3>3. future[r] = "pending"
      BY <1>1, <3>1, <3>2 DEF TypeOK, FutureInv
    <3>4. (\E i \in 1..Len(queue) : queue[i] = r) \/ (\E w \in Workers : job[w] = r)
      BY <1>1, <3>2, <3>3 DEF FutureInv
    <3>5. queue = <<>> => 1..Len(queue) = {}
      OBVIOUS
    <3> QED
      BY <1>1, <3>2, <3>4, <3>5, SomeWorkerGoes DEF WorkerInv
  <2>2. CASE main \in {"exit", "unwind"}
    BY <1>1, <2>2, SomeWorkerGoes DEF MainCanGo, Quiescent
  <2> QED
    BY <1>1, <2>1, <2>2 DEF TypeOK, Ended, MainCanGo
<1>2. FullInv => (~Ended => MainCanGo \/ \E w \in Workers : WorkerCanGo(w))
  BY <1>1
<1> QED
  BY <1>2, FullInvariant, PTL
=============================================================================

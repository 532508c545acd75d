----------------------------- MODULE UpsertPool -----------------------------
(***************************************************************************)
(* BaseODataSyncRunner.sync_records (lag_service_kit/runners/odata.py): a  *)
(* main thread submits one upsert per record to a ThreadPoolExecutor,      *)
(* holding at most Window futures it has not collected; max_workers worker *)
(* threads run _upsert_one and share one circuit breaker; only the main    *)
(* thread touches the tally.  An exception _upsert_one does not catch is   *)
(* kept in its future and surfaces in the main thread, which then leaves   *)
(* through the executor's __exit__ (shutdown(wait=True)).                  *)
(***************************************************************************)
EXTENDS Integers, Sequences, FiniteSets

CONSTANTS NumRows,    \* len(records)
          Workers,    \* the threads of the pool
          Window,     \* write_window_size, not validated
          Threshold,  \* failure_threshold, not validated
          Replies     \* what client.upsert_record may do in this instance

Accepted == {"created", "updated"}
Caught == {"HTTPError", "ConnectionError", "Timeout"}
Escaping == {"RetryError", "AuthenticationError", "KeyError"}

ASSUME PoolAssumption ==
    /\ NumRows \in Nat
    /\ IsFiniteSet(Workers) /\ Workers # {}
    /\ Window \in Int
    /\ Threshold \in Int
    /\ Replies \subseteq Accepted \cup Caught \cup Escaping

Rows == 1..NumRows
Counted == {"created", "updated", "failed", "skipped"}
Resolved == Counted \cup {"raised"}

VARIABLES
    main,       \* where the main thread is
    next,       \* the next record of itertuples(), NumRows + 1 at its end
    inFlight,   \* in_flight: submitted and not yet collected
    result,     \* the tally
    queue,      \* the executor's FIFO work queue
    step,       \* per worker: where it is in _upsert_one
    job,        \* per worker: the row it works on
    reply,      \* per worker: how the call ended
    future,     \* per row: the state of its future
    failures, tripped, outcomes, announced,  \* the shared breaker
    late        \* history: rows sent although the breaker had tripped

mainVars == <<main, next, inFlight, result>>
workerVars == <<step, job, reply>>
breakerVars == <<failures, tripped, outcomes, announced>>
vars == <<mainVars, queue, workerVars, future, breakerVars, late>>

Breaker == INSTANCE CircuitBreaker WITH MaxCalls <- NumRows

Init ==
    /\ main = "loop" /\ next = 1 /\ inFlight = {}
    /\ result = [k \in Counted |-> 0]
    /\ queue = <<>>
    /\ step = [w \in Workers |-> "idle"]
    /\ job = [w \in Workers |-> 0]
    /\ reply = [w \in Workers |-> "none"]
    /\ future = [r \in Rows |-> "unsubmitted"]
    /\ Breaker!BreakerInit
    /\ late = {}

-----------------------------------------------------------------------------
(* The main thread.                                                        *)

Finished == {r \in inFlight : future[r] \in Resolved}

Raised(done) == \E r \in done : future[r] = "raised"

(* result[future.result()] += 1 for each collected future.                 *)
TallyCountingSkippedAsFailed(done) ==
    [k \in Counted |-> result[k] + Cardinality({r \in done :
        future[r] = k \/ (k = "failed" /\ future[r] = "skipped")})]

TallyWith(done) ==
    [k \in Counted |-> result[k] + Cardinality({r \in done : future[r] = k})]

WindowFullOneLate == Cardinality(inFlight) > Window

WindowFull == Cardinality(inFlight) >= Window

SubmitAhead ==
    /\ main = "submit" \/ (main = "loop" /\ ~WindowFull)
    /\ next <= NumRows
    /\ queue' = <<next>> \o queue
    /\ future' = [future EXCEPT ![next] = "pending"]
    /\ inFlight' = inFlight \cup {next}
    /\ next' = next + 1
    /\ main' = "loop"
    /\ UNCHANGED <<result, workerVars, breakerVars, late>>

(* The executor appends to its queue; a worker is started lazily, which    *)
(* only makes some of Workers idle for longer.                             *)
Submit ==
    /\ main = "submit" \/ (main = "loop" /\ ~WindowFull)
    /\ next <= NumRows
    /\ queue' = Append(queue, next)
    /\ future' = [future EXCEPT ![next] = "pending"]
    /\ inFlight' = inFlight \cup {next}
    /\ next' = next + 1
    /\ main' = "loop"
    /\ UNCHANGED <<result, workerVars, breakerVars, late>>

(* wait(in_flight, FIRST_COMPLETED): returns at once on an empty set. The  *)
(* first future that raised leaves the function, and the tally with it:    *)
(* what the loop had already added of that done set is not modelled.       *)
CollectFinished ==
    /\ main = "loop" /\ next <= NumRows /\ WindowFull
    /\ Finished # {} \/ inFlight = {}
    /\ \/ /\ Raised(Finished)
          /\ main' = "unwind"
          /\ UNCHANGED <<result, inFlight>>
       \/ /\ ~Raised(Finished)
          /\ result' = TallyWith(Finished)
          /\ inFlight' = inFlight \ Finished
          /\ main' = "submit"
    /\ UNCHANGED <<next, queue, workerVars, future, breakerVars, late>>

(* as_completed(in_flight): one finished future at a time.                 *)
Drain ==
    /\ main = "loop" /\ next > NumRows
    /\ \E r \in Finished :
        \/ /\ Raised({r})
           /\ main' = "unwind"
           /\ UNCHANGED <<result, inFlight>>
        \/ /\ ~Raised({r})
           /\ result' = TallyWith({r})
           /\ inFlight' = inFlight \ {r}
           /\ UNCHANGED main
    /\ UNCHANGED <<next, queue, workerVars, future, breakerVars, late>>

Drained ==
    /\ main = "loop" /\ next > NumRows /\ inFlight = {}
    /\ main' = "exit"
    /\ UNCHANGED <<next, inFlight, result, queue, workerVars, future, breakerVars, late>>

Quiescent == queue = <<>> /\ \A w \in Workers : step[w] = "idle"

LeaveWithoutJoining ==
    /\ main \in {"exit", "unwind"}
    /\ main' = IF main = "exit" THEN "returned" ELSE "raised"
    /\ UNCHANGED <<next, inFlight, result, queue, workerVars, future, breakerVars, late>>

LeaveOnceCollected ==
    /\ main \in {"exit", "unwind"}
    /\ Quiescent
    /\ main' = IF inFlight # {} THEN main
               ELSE IF main = "exit" THEN "returned" ELSE "raised"
    /\ UNCHANGED <<next, inFlight, result, queue, workerVars, future, breakerVars, late>>

(* __exit__: shutdown(wait=True) cancels nothing; it lets the workers empty *)
(* the queue and joins them, whether the loop ended or an exception left it.*)
Leave ==
    /\ main \in {"exit", "unwind"}
    /\ Quiescent
    /\ main' = IF main = "exit" THEN "returned" ELSE "raised"
    /\ UNCHANGED <<next, inFlight, result, queue, workerVars, future, breakerVars, late>>

Main == Submit \/ CollectFinished \/ Drain \/ Drained \/ Leave

-----------------------------------------------------------------------------
(* A worker thread: _upsert_one, from taking a row to resolving its future.*)

Goto(w, s) == step' = [step EXCEPT ![w] = s]

Take(w) ==
    /\ step[w] = "idle" /\ queue # <<>>
    /\ job' = [job EXCEPT ![w] = Head(queue)]
    /\ queue' = Tail(queue)
    /\ Goto(w, "check")
    /\ UNCHANGED <<mainVars, reply, future, breakerVars, late>>

ConsultNothing(w) ==
    /\ step[w] = "check"
    /\ Goto(w, "send")
    /\ UNCHANGED <<mainVars, queue, job, reply, future, breakerVars, late>>

(* if breaker.is_tripped: return "skipped"                                 *)
ConsultBreaker(w) ==
    /\ step[w] = "check"
    /\ \/ /\ tripped
          /\ reply' = [reply EXCEPT ![w] = "skipped"]
          /\ Goto(w, "resolve")
       \/ /\ ~tripped
          /\ Goto(w, "send")
          /\ UNCHANGED reply
    /\ UNCHANGED <<mainVars, queue, job, future, breakerVars, late>>

(* client.upsert_record is called: the breaker's lock was released since   *)
(* ConsultBreaker, so another worker may have tripped it meanwhile.        *)
Send(w) ==
    /\ step[w] = "send"
    /\ late' = IF tripped THEN late \cup {job[w]} ELSE late
    /\ Goto(w, "await")
    /\ UNCHANGED <<mainVars, queue, job, reply, future, breakerVars>>

(* The call ends. An error outside the except clause skips the breaker and *)
(* goes straight into the future.                                          *)
Answer(w) ==
    /\ step[w] = "await"
    /\ \E a \in Replies :
        /\ reply' = [reply EXCEPT ![w] = a]
        /\ Goto(w, IF a \in Escaping THEN "resolve" ELSE "record")
    /\ UNCHANGED <<mainVars, queue, job, future, breakerVars, late>>

RecordFailuresOnly(w) ==
    /\ step[w] = "record"
    /\ \/ reply[w] \in Accepted /\ UNCHANGED breakerVars
       \/ reply[w] \in Caught /\ Breaker!RecordFailure
    /\ Goto(w, "resolve")
    /\ UNCHANGED <<mainVars, queue, job, reply, future, late>>

RecordOutcome(w) ==
    /\ step[w] = "record"
    /\ \/ reply[w] \in Accepted /\ Breaker!RecordSuccess
       \/ reply[w] \in Caught /\ Breaker!RecordFailure
    /\ Goto(w, "resolve")
    /\ UNCHANGED <<mainVars, queue, job, reply, future, late>>

Classify(a) ==
    CASE a \in Accepted \cup {"skipped"} -> a
      [] a \in Caught -> "failed"
      [] a \in Escaping -> "raised"

(* The executor stores what _upsert_one returned or raised.                *)
Resolve(w) ==
    /\ step[w] = "resolve"
    /\ future' = [future EXCEPT ![job[w]] = Classify(reply[w])]
    /\ Goto(w, "idle")
    /\ job' = [job EXCEPT ![w] = 0]
    /\ reply' = [reply EXCEPT ![w] = "none"]
    /\ UNCHANGED <<mainVars, queue, breakerVars, late>>

Run(w) == ConsultBreaker(w) \/ Send(w) \/ Answer(w) \/ RecordOutcome(w) \/ Resolve(w)

-----------------------------------------------------------------------------
Ended == main \in {"returned", "raised"}

(* The interpreter is done with sync_records; nothing is left to do.       *)
Terminated == Ended /\ UNCHANGED vars

Next == Main \/ (\E w \in Workers : Take(w) \/ Run(w)) \/ Terminated

Spec == Init /\ [][Next]_vars

(* The operating system runs every runnable thread, some idle worker takes *)
(* a queued row, and a request ends: requests gets a timeout on every call *)
(* and the adapter's retries are finite.                                   *)
Fairness ==
    /\ WF_vars(Main)
    /\ WF_vars(\E w \in Workers : Take(w))
    /\ \A w \in Workers : WF_vars(Run(w))

FairSpec == Spec /\ Fairness

-----------------------------------------------------------------------------
Submitted == {r \in Rows : r < next}
Collected == Submitted \ inFlight
WithFuture(k) == {r \in Rows : future[r] = k}

TypeOK ==
    /\ main \in {"loop", "submit", "exit", "unwind", "returned", "raised"}
    /\ next \in 1..(NumRows + 1)
    /\ inFlight \subseteq Submitted
    /\ result \in [Counted -> Nat]
    /\ queue \in Seq(Rows)
    /\ step \in [Workers -> {"idle", "check", "send", "await", "record", "resolve"}]
    /\ job \in [Workers -> 0..NumRows]
    /\ reply \in [Workers -> Replies \cup {"none", "skipped"}]
    /\ future \in [Rows -> {"unsubmitted", "pending"} \cup Resolved]
    /\ Breaker!BreakerTypeOK
    /\ late \subseteq Rows

(* sync_records' "result[future.result()] += 1" in two loops: every row    *)
(* collected so far was counted exactly once, under the outcome its worker *)
(* returned, and no future that raised was ever counted.                   *)
TallyMatchesFutures ==
    \A k \in Counted : result[k] = Cardinality(Collected \cap WithFuture(k))

(* BaseSyncRunner.run reports the counts as the parts of total_records: a  *)
(* run that returns has counted every record.                              *)
ReturnAccountsForAll ==
    main = "returned" =>
        result["created"] + result["updated"] + result["failed"] + result["skipped"] = NumRows

ExitCodeOfSkipped == IF result["skipped"] > 0 THEN 1 ELSE 0

(* The exit code looks at "failed" only (runners/base.py); it is still 0   *)
(* exactly when every record was written, because no record is skipped     *)
(* unless one is counted as failed.                                        *)
ExitCode == IF result["failed"] > 0 THEN 1 ELSE 0

ExitCodeTellsTruth ==
    main = "returned" => (ExitCode = 0 <=> \A r \in Rows : future[r] \in Accepted)

(* A run that skips anything shows at least as many failures in its tally  *)
(* as the breaker needs to trip.                                           *)
SkipsNeedFailures ==
    main = "returned" /\ result["skipped"] > 0 => result["failed"] >= Breaker!Promise!Limit

(* "Holds at most _write_window_size futures in memory at once" (a window  *)
(* below 1 acts as 1).                                                     *)
MaxWindow == IF Window < 1 THEN 1 ELSE Window

WindowBound == Cardinality(inFlight) <= MaxWindow

(* is_tripped is read before the request and the lock is released between: *)
(* a tripped breaker still lets the requests through whose workers had     *)
(* already asked, at most one for each worker but the one that tripped it. *)
LateSendsBounded == Cardinality(late) <= Cardinality(Workers) - 1

(* Each completed call is told to the breaker exactly once and as what it  *)
(* was; skipped rows and escaped exceptions never reach it.                *)
Recording(answers) == {w \in Workers : step[w] = "resolve" /\ reply[w] \in answers}
Recorded(o) == Cardinality({i \in 1..Len(outcomes) : outcomes[i] = o})

BreakerHearsEachCallOnce ==
    /\ Recorded("failure") = Cardinality(WithFuture("failed")) + Cardinality(Recording(Caught))
    /\ Recorded("success") = Cardinality(WithFuture("created") \cup WithFuture("updated"))
                              + Cardinality(Recording(Accepted))

(* Leaving the with block joins the pool, also on an exception: nothing is *)
(* written after sync_records has returned or raised, and every submitted  *)
(* row has an outcome.                                                     *)
JoinedOnExit ==
    Ended => Quiescent /\ \A r \in Submitted : future[r] \in Resolved

(* "Submitted in records' own order regardless of the window": when a row  *)
(* has been started, at most one earlier row for each other worker is      *)
(* still without an outcome. With max_workers=1 that is none, "every       *)
(* record is attempted strictly in that order".                            *)
Started(q) == future[q] \in Resolved \/ \E w \in Workers : job[w] = q

InOrder ==
    \A q \in Rows : Started(q) =>
        Cardinality({r \in 1..(q - 1) : future[r] \notin Resolved}) <= Cardinality(Workers) - 1

(* The strengthening that makes the invariants above inductive: who holds  *)
(* a row, which futures the main thread may have counted, and what must    *)
(* have happened before the breaker is open.                               *)
WorkerInv ==
    \A w \in Workers :
        /\ step[w] = "idle" <=> job[w] = 0
        /\ job[w] # 0 => future[job[w]] = "pending"
        /\ \A v \in Workers : v # w /\ job[v] = job[w] => job[w] = 0
        /\ step[w] = "record" => reply[w] \in Accepted \cup Caught
        /\ step[w] = "resolve" => reply[w] # "none"

QueueInv ==
    \A i \in 1..Len(queue) :
        /\ future[queue[i]] = "pending"
        /\ \A w \in Workers : job[w] # queue[i]
        /\ \A j \in 1..Len(queue) : queue[i] = queue[j] => i = j

FutureInv ==
    \A r \in Rows :
        /\ future[r] = "unsubmitted" <=> r >= next
        /\ future[r] = "pending" =>
              \/ \E i \in 1..Len(queue) : queue[i] = r
              \/ \E w \in Workers : job[w] = r
        /\ r \in Collected => future[r] \in Counted

TripInv ==
    /\ (\E r \in Rows : future[r] = "skipped") \/ (\E w \in Workers : reply[w] = "skipped")
          => tripped
    /\ tripped => (\E r \in Rows : future[r] = "failed") \/ Recording(Caught) # {}

Sending == {w \in Workers : step[w] = "send"}

LateInv ==
    /\ ~tripped => late = {}
    /\ tripped => Cardinality(late) + Cardinality(Sending) <= Cardinality(Workers) - 1

MainInv ==
    /\ main = "submit" => next <= NumRows /\ Cardinality(inFlight) < MaxWindow
    /\ main \in {"exit", "returned"} => next = NumRows + 1 /\ inFlight = {}
    /\ Ended => Quiescent

PoolInv == WorkerInv /\ QueueInv /\ FutureInv /\ TripInv /\ LateInv /\ MainInv

(* The workers use the shared breaker as its promise allows: open exactly  *)
(* after Limit consecutive completions failed, announced (logged) once.    *)
BreakerKeepsPromise == Breaker!KeepsPromise

(* The call as its caller sees it: a row counts as sent while its worker is *)
(* in upsert_record or tells the breaker, and has its outcome as soon as   *)
(* the worker knows it, before its future does.                            *)
Holding(r, steps) == {w \in Workers : job[w] = r /\ step[w] \in steps}

OutcomeOf(r) ==
    IF future[r] \in Resolved THEN future[r]
    ELSE IF Holding(r, {"await", "record"}) # {} THEN "sent"
    ELSE IF Holding(r, {"resolve"}) # {}
         THEN Classify(reply[CHOOSE w \in Workers : w \in Holding(r, {"resolve"})])
    ELSE "none"

NoTally == [k \in Counted |-> 0]

ReportOf ==
    [kind |-> IF Ended THEN main ELSE "none",
     tally |-> IF main = "returned" THEN result ELSE NoTally]

Promise == INSTANCE RecordSync WITH
    Limit <- Breaker!Promise!Limit, rows <- Rows,
    outcome <- [r \in Rows |-> OutcomeOf(r)], report <- ReportOf

(* sync_records is the promise made to run(): every record sent at most    *)
(* once, one outcome each, skips only after Limit failures, and a report   *)
(* that is the tally of the outcomes or an exception with nothing left     *)
(* under way.                                                              *)
ImplementsRecordSync == Promise!SyncSpec

(* sync_records ends, whatever the destination answers.                    *)
Terminates == <>Ended

(* docs/execution-flow.md: a request rejected "(retried first, per         *)
(* BaseHttpClient)" is "logged, counted" as a failed record.               *)
RejectionsAreCounted == \A r \in Rows : future[r] # "raised"
=============================================================================

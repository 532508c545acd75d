----------------------------- MODULE ODataCalls -----------------------------
(***************************************************************************)
(* Calls of ODataClient that address one record (upsert_record, get_record, *)
(* delete_record), one after the other, by one run or by several: each     *)
(* sends a request through a session whose adapter retries it              *)
(* (BaseHttpClient, DEFAULT_RETRY).  A request the client has given up on  *)
(* may still be under way and be applied later, in this call or in a later *)
(* one.  Records of different keys never touch the same row of the         *)
(* destination (EntityKey), and one run sends a key once (RecordLoading,   *)
(* UpsertPool), so one key stands for all.  The network, urllib3's retry   *)
(* loop and the destination are external, modelled from the way the        *)
(* clients configure and use them.                                         *)
(***************************************************************************)
EXTENDS Integers, FiniteSets

CONSTANTS Retries,  \* DEFAULT_RETRY's total
          MaxCalls  \* bound on the calls

ASSUME CallsAssumption == Retries \in Nat /\ MaxCalls \in Nat

VARIABLES
    call,       \* the calls so far
    op,         \* what the current one is
    wanted,     \* the version of the record an upsert writes
    pc,         \* "idle", "sending" or "waiting" for an answer
    attempt,    \* attempts made by this call
    answer,     \* the answer under way to the current attempt
    got,        \* the row in that answer to a GET
    outcome,    \* how the call ended
    net,        \* requests under way
    record,     \* the request that changed the destination's row last
    before,     \* history: the record as this call began
    unanswered, \* history: the calls that gave an attempt up unanswered
    applied     \* history: the calls that changed the row

client == <<call, op, wanted, pc, attempt, outcome>>
history == <<before, unanswered, applied>>
vars == <<client, answer, got, net, record, history>>

Ops == {"upsert", "get", "delete"}

(* The row exists as long as the last change was not a DELETE.             *)
Absent == [call |-> 0, attempt |-> 0, op |-> "delete", version |-> 0]
Exists == record.op = "upsert"
Existed == before.op = "upsert"

Init ==
    /\ call = 0 /\ op = "get" /\ wanted = 0
    /\ pc = "idle" /\ attempt = 0 /\ answer = "none" /\ got = Absent /\ outcome = "none"
    /\ net = {} /\ record = Absent
    /\ before = Absent /\ unanswered = {} /\ applied = {}

Current == [call |-> call, attempt |-> attempt, op |-> op, version |-> wanted]

-----------------------------------------------------------------------------
(* A caller calls; what it wants written may have changed since last time. *)
Call(o) ==
    /\ pc = "idle" /\ call < MaxCalls
    /\ call' = call + 1 /\ op' = o
    /\ IF o = "upsert" THEN wanted' \in {wanted, wanted + 1} \ {0} ELSE wanted' = wanted
    /\ pc' = "sending" /\ attempt' = 0 /\ outcome' = "none"
    /\ answer' = "none" /\ got' = Absent
    /\ before' = record
    /\ UNCHANGED <<net, record, unanswered, applied>>

End(o) == pc' = "idle" /\ outcome' = o /\ UNCHANGED <<call, op, wanted, attempt>>

(* Building the URL or the headers raises, and nothing is sent: also a     *)
(* ConnectionError or Timeout of the token request, which the caller takes *)
(* for one of the destination's and counts as failed.                      *)
PrepareFails ==
    /\ pc = "sending" /\ attempt = 0
    /\ \E o \in {"failed", "raised"} : End(o)
    /\ UNCHANGED <<answer, got, net, record, history>>

TransmitUncounted ==
    /\ pc = "sending"
    /\ attempt' = 1
    /\ net' = net \cup {[Current EXCEPT !.attempt = 1]}
    /\ pc' = "waiting" /\ answer' = "none" /\ got' = Absent
    /\ UNCHANGED <<call, op, wanted, outcome, record, history>>

(* session.patch, get or delete, and each retry of the adapter.            *)
Transmit ==
    /\ pc = "sending"
    /\ attempt' = attempt + 1
    /\ net' = net \cup {[Current EXCEPT !.attempt = attempt + 1]}
    /\ pc' = "waiting" /\ answer' = "none" /\ got' = Absent
    /\ UNCHANGED <<call, op, wanted, outcome, record, history>>

(* The destination: 201 for a new row and 204 for an existing one, or 204  *)
(* for a row deleted, or 200 with the row; 404 where there is none.        *)
AnswerTo(q) ==
    CASE q.op = "upsert" -> IF Exists THEN "updated" ELSE "created"
      [] q.op = "delete" -> IF Exists THEN "deleted" ELSE "missing"
      [] q.op = "get"    -> IF Exists THEN "found" ELSE "missing"

Apply(q) ==
    /\ net' = net \ {q}
    /\ IF q.op = "upsert" \/ (q.op = "delete" /\ Exists)
       THEN record' = q /\ applied' = applied \cup {q.call}
       ELSE UNCHANGED <<record, applied>>
    /\ IF pc = "waiting" /\ q = Current
       THEN /\ answer' = AnswerTo(q)
            /\ got' = IF AnswerTo(q) = "found" THEN record ELSE Absent
       ELSE UNCHANGED <<answer, got>>
    /\ UNCHANGED <<client, before, unanswered>>

Lose(q) ==
    /\ net' = net \ {q}
    /\ UNCHANGED <<client, answer, got, record, history>>

AnsweredSwapped ==
    /\ pc = "waiting" /\ answer # "none"
    /\ End(IF answer = "updated" THEN "created" ELSE IF answer = "created" THEN "updated" ELSE answer)
    /\ UNCHANGED <<answer, got, net, record, history>>

AnsweredCreatedOnly ==
    /\ pc = "waiting" /\ answer # "none"
    /\ End(IF answer = "updated" THEN "failed" ELSE answer)
    /\ UNCHANGED <<answer, got, net, record, history>>

(* The status decides: raise_for_status makes a 404 an HTTPError, and the  *)
(* body of a GET may turn out not to be readable.                          *)
Answered ==
    /\ pc = "waiting" /\ answer # "none"
    /\ End(answer) \/ (answer = "found" /\ End("raised"))
    /\ UNCHANGED <<answer, got, net, record, history>>

MayRetryOnceMore == attempt <= Retries + 1

MayRetry == attempt <= Retries

RetryOrEnd(o) ==
    \/ MayRetry /\ pc' = "sending" /\ UNCHANGED <<call, op, wanted, attempt, outcome>>
    \/ ~MayRetry /\ End(o)

RejectUnnoticed ==
    /\ pc = "waiting" /\ Current \in net
    /\ net' = net \ {Current}
    /\ End(IF op = "upsert" THEN "updated" ELSE "failed")
    /\ UNCHANGED <<answer, got, record, history>>

(* Another 4xx or a 500: no retry, raise_for_status raises HTTPError.      *)
Reject ==
    /\ pc = "waiting" /\ Current \in net
    /\ net' = net \ {Current}
    /\ End("failed")
    /\ UNCHANGED <<answer, got, record, history>>

(* A 429 or 503 of the destination itself, which has dropped the request;  *)
(* out of retries, requests raises RetryError, which is not an HTTPError.  *)
Throttle ==
    /\ pc = "waiting" /\ Current \in net
    /\ net' = net \ {Current}
    /\ RetryOrEnd("raised")
    /\ UNCHANGED <<answer, got, record, history>>

Abandoned == [call |-> call, op |-> op]

GaveUp == unanswered' = unanswered \cup {Abandoned}

(* A 502 or 504 of a gateway: the request behind it may go on.             *)
GatewayError ==
    /\ pc = "waiting"
    /\ GaveUp
    /\ RetryOrEnd("raised")
    /\ UNCHANGED <<answer, got, net, record, before, applied>>

(* A broken connection, or no answer within DEFAULT_TIMEOUT: retried too,  *)
(* as all three methods are in allowed_methods; out of retries, a          *)
(* ConnectionError.                                                        *)
NoAnswer ==
    /\ pc = "waiting"
    /\ GaveUp
    /\ RetryOrEnd("failed")
    /\ UNCHANGED <<answer, got, net, record, before, applied>>

(* The process is killed.                                                  *)
Crash ==
    /\ pc # "idle"
    /\ unanswered' = IF pc = "waiting" THEN unanswered \cup {Abandoned} ELSE unanswered
    /\ End("crashed")
    /\ UNCHANGED <<answer, got, net, record, before, applied>>

Client == PrepareFails \/ Transmit \/ Answered \/ NoAnswer

Done == pc = "idle" /\ call = MaxCalls /\ net = {}
Terminated == Done /\ UNCHANGED vars

Next ==
    \/ \E o \in Ops : Call(o)
    \/ Client \/ Reject \/ Throttle \/ GatewayError \/ Crash
    \/ \E q \in net : Apply(q) \/ Lose(q)
    \/ Terminated

Spec == Init /\ [][Next]_vars

(* The calling thread runs, and requests ends every wait by its timeout.   *)
FairSpec == Spec /\ WF_vars(Client)

-----------------------------------------------------------------------------
Written == {"created", "updated", "deleted"}

Request == [call : 1..MaxCalls, attempt : 1..(Retries + 1), op : Ops, version : 0..MaxCalls]

TypeOK ==
    /\ call \in 0..MaxCalls /\ op \in Ops /\ wanted \in 0..call
    /\ pc \in {"idle", "sending", "waiting"}
    /\ attempt \in 0..(Retries + 1)
    /\ answer \in Written \cup {"none", "found", "missing"}
    /\ got \in Request \cup {Absent}
    /\ outcome \in Written \cup {"none", "found", "missing", "failed", "raised", "crashed"}
    /\ net \subseteq Request /\ {record, before} \subseteq Request \cup {Absent}
    /\ unanswered \subseteq [call : 1..call, op : Ops] /\ applied \subseteq 1..call

(* "Safe to retry PATCH and DELETE": an answer still holds when the call   *)
(* has returned it - a record counted as written holds this version, a     *)
(* deleted or missing one is not there, one that was read is as it was     *)
(* read - unless a request of an earlier call, given up unanswered, was    *)
(* applied since.  A late PATCH of the same version changes nothing.       *)
Overtaken ==
    record.call < call /\ \E u \in unanswered : u.call = record.call

AnswersHold ==
    /\ outcome \in {"created", "updated"} =>
        call \in applied /\ (Overtaken \/ (Exists /\ record.version = wanted))
    /\ outcome = "deleted" => call \in applied /\ (Overtaken \/ ~Exists)
    /\ outcome = "missing" => Overtaken \/ ~Exists
    /\ outcome = "found" => Overtaken \/ got = record

(* A call that failed may have changed the row after all, and a DELETE     *)
(* answered 404 may have deleted it, but only if it gave an attempt up     *)
(* unanswered: a refused request changes nothing.                          *)
RefusedChangesNothing ==
    outcome \in {"failed", "raised", "missing"} /\ call \in applied => Abandoned \in unanswered

(* What an answer tells of the row before the call is wrong only through   *)
(* a request given up unanswered, of the kind that explains it: "created"  *)
(* or "missing" of a row that was there through a DELETE, the others of    *)
(* one that was not through a PATCH.                                       *)
GaveUpOn(o) == \E u \in unanswered : u.op = o

OutcomeTellsOfBefore ==
    /\ outcome \in {"created", "missing"} /\ Existed => GaveUpOn("delete")
    /\ outcome \in {"updated", "deleted", "found"} /\ ~Existed => GaveUpOn("upsert")

(* Seen from the runs, each of which calls once for the key: PatchDelivery. *)
TheKey == "the key"

Called == op = "upsert" /\ attempt > 0

PatchOf(q) == [of |-> TheKey, version |-> q.version, late |-> q.call < call]

(* While the call lasts, another attempt may follow.                       *)
Patches ==
    {PatchOf(q) : q \in {q \in net : q.op = "upsert"}}
        \cup IF Called /\ pc # "idle" THEN {PatchOf(Current)} ELSE {}

Standing ==
    IF pc # "idle"
    THEN IF call \in applied THEN "applied" ELSE "open"
    ELSE IF outcome \in {"created", "updated"} THEN "accepted" ELSE "given up"

Standings == [k \in IF Called THEN {TheKey} ELSE {} |-> Standing]

Writer ==
    IF record.call = call THEN "this run"
    ELSE IF record = before THEN "a run before" ELSE "a late PATCH"

Rows ==
    [t \in IF Exists THEN {TheKey} ELSE {} |->
        [of |-> TheKey, version |-> record.version, by |-> Writer]]

Delivery ==
    INSTANCE PatchDelivery WITH
        Keys <- {TheKey}, Versions <- 1..MaxCalls,
        net <- Patches, calls <- Standings, dest <- Rows

(* A call never returns "created" or "updated" unless a PATCH of its own   *)
(* record has been applied; whatever its attempts leave behind is still    *)
(* that record's PATCH, and is marked as a run's before once the next call *)
(* begins.  SyncRun takes no more than this from the client.               *)
ImplementsDelivery == Delivery!DeliverySpec

(* Every call ends, after at most Retries + 1 attempts.                    *)
CallEnds == [](pc # "idle" => <>(pc = "idle"))
=============================================================================

----------------------------- MODULE RecordSync -----------------------------
(***************************************************************************)
(* What sync_records promises its caller (runners/base.py, runners/        *)
(* odata.py), without threads, queue, window or breaker: every record is   *)
(* sent at most once and reaches one outcome, a record is passed over only *)
(* after Limit failures, and the call ends with the tally of those         *)
(* outcomes, or with an exception once no request of it is under way.      *)
(* SyncRun builds a whole run on it; UpsertPool implements it.             *)
(***************************************************************************)
EXTENDS Integers, FiniteSets

CONSTANT Limit  \* the failures before anything is skipped

ASSUME LimitAssumption == Limit \in Nat \ {0}

VARIABLES
    rows,     \* the records of this call
    outcome,  \* per row: "none", "sent", or how it ended
    report    \* how the call ended, and its tally

syncVars == <<rows, outcome, report>>

Counted == {"created", "updated", "failed", "skipped"}
Answers == {"created", "updated", "failed", "raised"}

With(o) == {r \in rows : outcome[r] = o}

NoTally == [k \in Counted |-> 0]
Unreported == [kind |-> "none", tally |-> NoTally]

Begin(rs) ==
    /\ rows = rs
    /\ outcome = [r \in rs |-> "none"]
    /\ report = Unreported

(* A later call, with a breaker and a tally of its own.                    *)
BeginAnew(rs) ==
    /\ rows' = rs
    /\ outcome' = [r \in rs |-> "none"]
    /\ report' = Unreported

-----------------------------------------------------------------------------
Become(r, o) ==
    /\ report.kind = "none"
    /\ outcome' = [outcome EXCEPT ![r] = o]
    /\ UNCHANGED <<rows, report>>

Send(r) == outcome[r] = "none" /\ Become(r, "sent")

Skip(r) ==
    /\ outcome[r] = "none" /\ Cardinality(With("failed")) >= Limit
    /\ Become(r, "skipped")

Settle(r, o) == outcome[r] = "sent" /\ o \in Answers /\ Become(r, o)

Report(kind, tally) ==
    /\ report.kind = "none"
    /\ report' = [kind |-> kind, tally |-> tally]
    /\ UNCHANGED <<rows, outcome>>

Return ==
    /\ \A r \in rows : outcome[r] \in Counted
    /\ Report("returned", [k \in Counted |-> Cardinality(With(k))])

(* Rows may be left without an outcome, but no request is left under way.  *)
Abort ==
    /\ With("raised") # {} /\ With("sent") = {}
    /\ Report("raised", NoTally)

SyncNext ==
    \/ \E r \in rows : Send(r) \/ Skip(r) \/ \E o \in Answers : Settle(r, o)
    \/ Return \/ Abort

SyncSpec == Begin(rows) /\ [][SyncNext]_syncVars
=============================================================================

------------------------------- MODULE SyncRun -------------------------------
(***************************************************************************)
(* BaseSyncRunner.run for the inventory sync, run again and again against  *)
(* one destination: the phases and except clauses of run(), the records it *)
(* loads, the call of sync_records as RecordSync promises it (UpsertPool   *)
(* implements that), its calls of the client as PatchDelivery does         *)
(* (ODataCalls implements that), and the URL each request names its row by *)
(* (EntityKey).  The ERP that writes the feed, the network and the         *)
(* destination are external.                                               *)
(***************************************************************************)
EXTENDS RecordSync, PatchDelivery, EntityKey

CONSTANT MaxEdits  \* bound on the edits of the feed

ASSUME RunAssumption ==
    /\ IsFiniteSet(Keys) /\ Keys # {} /\ Keys \subseteq Seq(Symbols)
    /\ MaxEdits \in Nat

VARIABLES
    feed,     \* the file: its status and, per key, the row that wins
    edits,    \* edits of it so far
    phase,    \* where run() is
    records,  \* what load_records returned in this run
    exit,     \* the last run: "none" yet, exit code "0" or "1", "killed"
    message   \* what it logged as it ended

run == <<phase, records, exit, message>>
world == <<feed, edits>>
vars == <<syncVars, world, run, wire>>

Feeds == [status : {"good"}, rows : [Keys -> Versions]]
            \cup [status : {"malformed", "missing", "unreadable"}, rows : {<<>>}]

Init ==
    /\ feed \in Feeds
    /\ edits = 0
    /\ phase = "idle" /\ records = <<>> /\ exit = "none" /\ message = "none"
    /\ Begin({})
    /\ DeliveryInit

-----------------------------------------------------------------------------
(* The feed is rewritten, at any time.                                     *)
EditFeed ==
    /\ edits < MaxEdits /\ edits' = edits + 1
    /\ feed' \in Feeds
    /\ UNCHANGED <<syncVars, run, wire>>

-----------------------------------------------------------------------------
(* run().                                                                  *)

(* A process of its own: it knows nothing of an earlier one, whose         *)
(* requests may still be under way.                                        *)
Start ==
    /\ phase = "idle"
    /\ phase' = "settings" /\ exit' = "none" /\ message' = "none"
    /\ records' = <<>>
    /\ NewRun
    /\ UNCHANGED <<syncVars, world>>

(* run() returns, or the process is gone, and with it what the call held.  *)
Exit(code, text) ==
    /\ phase' = "idle" /\ exit' = code /\ message' = text
    /\ BeginAnew({}) /\ EndCalls
    /\ UNCHANGED <<world, records>>

(* The first except clause that matches; each of them returns 1.           *)
Clause(error) ==
    CASE error = "ValidationError" -> "Configuration error"
      [] error = "AuthenticationError" -> "Authentication error"
      [] error = "FileNotFoundError" -> "Source error"
      [] error = "RecordValidationError" -> "Data validation error"
      [] OTHER -> "Unexpected error"

Raise(error) == Exit("1", Clause(error))

Advance(from, to, errors) ==
    /\ phase = from
    /\ \/ phase' = to /\ UNCHANGED <<syncVars, world, records, exit, message, wire>>
       \/ \E error \in errors : Raise(error)

(* InventorySyncSettings(): ConfigResolution says how it ends.             *)
LoadSettings == Advance("settings", "client", {"ValidationError", "AzureError"})

(* DataverseClient.from_settings builds the MSAL application.              *)
BuildClient == Advance("client", "token", {"ValueError"})

(* One token before anything is read: TokenCache says how that ends.       *)
AcquireToken == Advance("token", "load", {"AuthenticationError", "ConnectionError"})

LoadUnvalidated ==
    /\ phase = "load"
    /\ \/ /\ feed.status # "missing"
          /\ phase' = "sync" /\ records' = feed.rows
          /\ BeginAnew(Keys)
          /\ UNCHANGED <<world, exit, message, wire>>
       \/ feed.status = "missing" /\ Raise("FileNotFoundError")

(* load_records reads and validates the whole feed (RecordLoading); only   *)
(* then is sync_records called with what it returned.  pandas raises       *)
(* errors of its own on a file it cannot parse.                            *)
LoadRecords ==
    /\ phase = "load"
    /\ \/ /\ feed.status = "good"
          /\ phase' = "sync" /\ records' = feed.rows
          /\ BeginAnew(Keys)
          /\ UNCHANGED <<world, exit, message, wire>>
       \/ feed.status = "missing" /\ Raise("FileNotFoundError")
       \/ feed.status = "malformed" /\ Raise("RecordValidationError")
       \/ feed.status = "unreadable" /\ Raise("ParserError")

ExitCodeOfSkipped(tally) == IF tally["skipped"] > 0 THEN "1" ELSE "0"

(* result["failed"] decides the exit code.                                 *)
ExitCode(tally) == IF tally["failed"] > 0 THEN "1" ELSE "0"

SyncRaisedOrRejected ==
    /\ phase = "sync" /\ report.kind = "raised"
    /\ \E error \in {"AuthenticationError", "RetryError", "RecordValidationError"} : Raise(error)

(* sync_records has raised what one of its calls raised.                   *)
SyncRaised ==
    /\ phase = "sync" /\ report.kind = "raised"
    /\ \E error \in {"AuthenticationError", "RetryError"} : Raise(error)

Finish ==
    /\ phase = "sync" /\ report.kind = "returned"
    /\ Exit(ExitCode(report.tally), "Sync complete")

Kill ==
    /\ phase # "idle"
    /\ Exit("killed", "none")

-----------------------------------------------------------------------------
(* sync_records, and the requests it sends.                                *)

(* Per key, the row its URL names to the destination.                      *)
RowOf == [k \in Keys |-> RowNamed(EntityUrl(k))]

(* upsert_record, with build_payload(row) and the row's key.               *)
SendRecord(k) ==
    /\ phase = "sync" /\ Send(k)
    /\ OpenCall(k, records[k])
    /\ UNCHANGED <<world, run>>

SkipExisting(k) ==
    /\ phase = "sync" /\ outcome[k] = "none" /\ (k \in DOMAIN dest \/ Skip(k))
    /\ Become(k, "skipped")
    /\ UNCHANGED <<world, run, wire>>

SkipRecord(k) ==
    /\ phase = "sync" /\ Skip(k)
    /\ UNCHANGED <<world, run, wire>>

Standing(o) == IF o \in {"created", "updated"} THEN "accepted" ELSE "given up"

(* Accepted only on an answer; failed or raised also when the request was  *)
(* applied unanswered.                                                     *)
SettleRecord(k, o) ==
    /\ phase = "sync" /\ Settle(k, o)
    /\ EndCall(k, Standing(o))
    /\ UNCHANGED <<world, run>>

EndSync ==
    /\ phase = "sync" /\ (Return \/ Abort)
    /\ UNCHANGED <<world, run, wire>>

(* The destination upserts the row the URL names, if it names one.         *)
Apply(q) ==
    /\ RowOf[q.of] # NoRow
    /\ Deliver(q, RowOf[q.of])
    /\ UNCHANGED <<syncVars, world, run>>

Lose(q) ==
    /\ Vanish(q)
    /\ UNCHANGED <<syncVars, world, run>>

-----------------------------------------------------------------------------
Next ==
    \/ EditFeed \/ Start
    \/ LoadSettings \/ BuildClient \/ AcquireToken \/ LoadRecords
    \/ \E k \in rows : SendRecord(k) \/ SkipRecord(k) \/ \E o \in Answers : SettleRecord(k, o)
    \/ EndSync \/ SyncRaised \/ Finish \/ Kill
    \/ \E q \in net : Apply(q) \/ Lose(q)

Spec == Init /\ [][Next]_vars

(* A request an earlier run left behind does not stay under way for ever.  *)
FairSpec ==
    Spec /\ \A k \in Keys, v \in Versions :
        WF_vars(Lose([of |-> k, version |-> v, late |-> TRUE]))

-----------------------------------------------------------------------------
TypeOK ==
    /\ feed \in Feeds /\ edits \in 0..MaxEdits
    /\ phase \in {"idle", "settings", "client", "token", "load", "sync"}
    /\ records \in [Keys -> Versions] \cup {<<>>}
    /\ exit \in {"none", "0", "1", "killed"}
    /\ rows \in {{}, DOMAIN records}
    /\ outcome \in [rows -> Counted \cup {"none", "sent", "raised"}]
    /\ report \in [kind : {"none", "returned", "raised"}, tally : [Counted -> 0..Cardinality(Keys)]]
    /\ net \subseteq Requests
    /\ calls \in [{k \in rows : outcome[k] \notin {"none", "skipped"}} -> Standings]
    /\ \A t \in DOMAIN dest : dest[t] \in [of : Keys, version : Versions, by : Writers]

(* run() returns 0 "if every record synced without error": then every      *)
(* record it loaded is stored as loaded, unless a PATCH an earlier run had *)
(* left under way has overwritten it.                                      *)
ExitZeroMeansStored ==
    exit = "0" => \A k \in DOMAIN records :
        /\ k \in DOMAIN dest
        /\ \/ dest[k].by = "this run" /\ dest[k].version = records[k]
           \/ dest[k].by = "a late PATCH"

(* "Which record the resulting PATCH actually targets" (odata.py): whatever *)
(* characters the keys are made of, a row never holds another key's values. *)
RowsHoldTheirOwnRecord == \A t \in DOMAIN dest : dest[t].of = t

(* A run that reports a configuration, source or data error has written    *)
(* nothing and leaves nothing under way: these are found before the first  *)
(* request, however late in the feed.  (An authentication or unexpected    *)
(* error can end a run half way through its records.)                      *)
EarlyErrorsWriteNothing ==
    message \in {"Configuration error", "Source error", "Data validation error"} =>
        /\ \A q \in net : q.late
        /\ \A t \in DOMAIN dest : dest[t].by # "this run"

(* "Re-running the whole batch after the outage is fixed reproduces the    *)
(* correct end state": after any crashes, failures, skips and late PATCHes,*)
(* if runs keep succeeding and the feed is no longer edited, the           *)
(* destination comes to hold the feed and keeps it.                        *)
Converged ==
    \A k \in DOMAIN feed.rows : k \in DOMAIN dest /\ dest[k].version = feed.rows[k]

RerunsReachTheFeed ==
    []<><<Finish /\ exit' = "0">>_vars => <>[]Converged
=============================================================================

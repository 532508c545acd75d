---------------------------- MODULE PatchDelivery ----------------------------
(***************************************************************************)
(* What a run may rely on of the client's calls and of the network under   *)
(* them, without attempts, timeouts or statuses: the PATCH of a call is    *)
(* under way from its begin, may be applied any number of times or not at  *)
(* all, during the call or after it, also in a later run, and its call is  *)
(* accepted only if it has been applied.  ODataCalls implements it for a   *)
(* key; SyncRun builds a run on it.                                        *)
(***************************************************************************)

CONSTANTS
    Keys,     \* the business keys
    Versions  \* what a PATCH may say of a key's item

VARIABLES
    net,   \* PATCHes under way, late ones of an earlier run
    calls, \* per key that was called in this run: how its call stands
    dest   \* the destination: per existing row, what was written last

wire == <<net, calls, dest>>

Requests == [of : Keys, version : Versions, late : BOOLEAN]
Writers == {"this run", "a run before", "a late PATCH"}
Standings == {"open", "applied", "accepted", "given up"}

NoCalls == [k \in {} |-> "open"]
NoRows == [t \in {} |-> "no row"]

DeliveryInit == net = {} /\ calls = NoCalls /\ dest = NoRows

Open(k) == k \in DOMAIN calls /\ calls[k] \in {"open", "applied"}

Patch(k, v) == [of |-> k, version |-> v, late |-> FALSE]

-----------------------------------------------------------------------------
(* A process of its own, which knows nothing of an earlier one's calls.    *)
NewRun ==
    /\ \A k \in DOMAIN calls : ~Open(k)
    /\ calls' = NoCalls
    /\ net' = {[q EXCEPT !.late = TRUE] : q \in net}
    /\ dest' = [t \in DOMAIN dest |-> [dest[t] EXCEPT !.by = "a run before"]]

OpenCall(k, v) ==
    /\ k \notin DOMAIN calls
    /\ calls' = [j \in DOMAIN calls \cup {k} |-> IF j = k THEN "open" ELSE calls[j]]
    /\ net' = net \cup {Patch(k, v)}
    /\ UNCHANGED dest

(* What the calls of ks have sent may end with them, or go on.             *)
MayDrop(ks) ==
    \E dropped \in SUBSET {q \in net : q.of \in ks /\ ~q.late} : net' = net \ dropped

EndCall(k, standing) ==
    /\ Open(k) /\ (standing = "accepted" => calls[k] = "applied")
    /\ calls' = [calls EXCEPT ![k] = standing]
    /\ MayDrop({k})
    /\ UNCHANGED dest

(* The process is gone.                                                    *)
EndCalls == calls' = NoCalls /\ MayDrop(DOMAIN calls) /\ UNCHANGED dest

(* The destination upserts row t.  Another attempt of the same PATCH may   *)
(* stay under way.                                                         *)
Deliver(q, t) ==
    /\ dest' = [u \in DOMAIN dest \cup {t} |->
                    IF u = t
                    THEN [of |-> q.of, version |-> q.version,
                          by |-> IF q.late THEN "a late PATCH" ELSE "this run"]
                    ELSE dest[u]]
    /\ net' \in {net, net \ {q}}
    /\ calls' = [k \in DOMAIN calls |->
                    IF k = q.of /\ ~q.late /\ calls[k] = "open" THEN "applied" ELSE calls[k]]

Vanish(q) == q \in net /\ net' = net \ {q} /\ UNCHANGED <<calls, dest>>

(* Somebody deletes a row.  The sync has no part in that.                  *)
DeleteRow(t) ==
    /\ t \in DOMAIN dest
    /\ dest' = [u \in DOMAIN dest \ {t} |-> dest[u]]
    /\ UNCHANGED <<net, calls>>

DeliveryNext ==
    \/ NewRun \/ EndCalls
    \/ \E k \in Keys :
        \/ \E v \in Versions : OpenCall(k, v)
        \/ \E standing \in {"accepted", "given up"} : EndCall(k, standing)
        \/ DeleteRow(k)
    \/ \E q \in net : Deliver(q, q.of) \/ Vanish(q)

DeliverySpec == DeliveryInit /\ [][DeliveryNext]_wire
=============================================================================

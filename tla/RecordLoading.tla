---------------------------- MODULE RecordLoading ----------------------------
(***************************************************************************)
(* InventoryDomainMixin.load_records: read the feed, validate it, collapse *)
(* it to the last row seen for each business key.  A streaming source      *)
(* (CSV) is pulled chunk by chunk through a generator that validates each  *)
(* chunk before dedupe_last_seen_chunks merges it row by row into a dict;  *)
(* any other source is read whole and handed to dedupe_last_seen.          *)
(* A row is its position in the feed; only its key column matters here.    *)
(***************************************************************************)
EXTENDS Integers, Sequences, FiniteSets

CONSTANTS Keys,      \* business keys, as the feed spells them
          Blank,     \* a null or blank key
          Numeric,   \* the keys pandas can read as integers
          Number,    \* what it reads them as
          MaxRows,   \* bound on the feed's length
          MaxChunk   \* bound on chunksize

ASSUME LoadingAssumption ==
    /\ Blank \notin Keys
    /\ Numeric \subseteq Keys /\ Number \in [Numeric -> Nat]
    /\ MaxRows \in Nat /\ MaxChunk \in Nat \ {0}

Texts == Keys \cup {Blank}

VARIABLES
    feed,       \* the key column, in file order
    header,     \* does the feed carry every required column
    streamed,   \* isinstance(source, ChunkedRecordSource)
    chunksize,
    phase,      \* "reading", then "loaded" or "rejected"
    pulled,     \* chunks pulled from the source
    start, end, \* the current chunk is rows start + 1 .. end
    row,        \* rows merged so far
    seen,       \* latest_by_key's keys, in insertion order
    latest,     \* latest_by_key
    records     \* the deduplicated rows

input == <<feed, header, streamed, chunksize>>
vars == <<input, phase, pulled, start, end, row, seen, latest, records>>

Init ==
    /\ feed \in UNION {[1..n -> Texts] : n \in 0..MaxRows}
    /\ header \in BOOLEAN /\ streamed \in BOOLEAN /\ chunksize \in 1..MaxChunk
    /\ phase = "reading" /\ pulled = 0
    /\ start = 0 /\ end = 0 /\ row = 0
    /\ seen = <<>> /\ latest = [v \in {} |-> 0]
    /\ records = <<>>

-----------------------------------------------------------------------------
(* pandas infers one dtype per batch it parses: a column whose every key   *)
(* looks like an integer becomes integers, any other stays text.           *)
Typed(i, from, to) ==
    IF \A j \in from..to : feed[j] \in Numeric
    THEN <<"int", Number[feed[i]]>>
    ELSE <<"str", feed[i]>>

ValidFirstRowOnly(from, to) ==
    header /\ (from <= to => feed[from] # Blank)

(* require_columns, then require_non_null; both raise RecordValidationError.*)
Valid(from, to) == header /\ \A j \in from..to : feed[j] # Blank

Smaller(a, b) == IF a < b THEN a ELSE b

PullChunkWithoutStart ==
    /\ streamed /\ phase = "reading" /\ row = end
    /\ end < Len(feed) \/ pulled = 0
    /\ pulled' = pulled + 1
    /\ start' = Smaller(end + chunksize, Len(feed))
    /\ end' = Smaller(end + chunksize, Len(feed))
    /\ phase' = IF Valid(end + 1, end') THEN "reading" ELSE "rejected"
    /\ UNCHANGED <<input, row, seen, latest, records>>

(* The generator: a chunk is pulled when the merge loop asks for it and    *)
(* validated before it is yielded.  A feed of a header only is one empty   *)
(* chunk.                                                                  *)
PullChunk ==
    /\ streamed /\ phase = "reading" /\ row = end
    /\ end < Len(feed) \/ pulled = 0
    /\ pulled' = pulled + 1
    /\ start' = end
    /\ end' = Smaller(end + chunksize, Len(feed))
    /\ phase' = IF Valid(end + 1, end') THEN "reading" ELSE "rejected"
    /\ UNCHANGED <<input, row, seen, latest, records>>

KeepFirst(v, i) ==
    [u \in DOMAIN latest \cup {v} |-> IF u \in DOMAIN latest THEN latest[u] ELSE i]

Assign(v, i) == [u \in DOMAIN latest \cup {v} |-> IF u = v THEN i ELSE latest[u]]

(* A dict keeps the position a key was first inserted at.                  *)
Insert(v) == IF v \in DOMAIN latest THEN seen ELSE Append(seen, v)

MergeRow ==
    /\ streamed /\ phase = "reading" /\ row < end
    /\ LET v == Typed(row + 1, start + 1, end)
       IN  seen' = Insert(v) /\ latest' = Assign(v, row + 1)
    /\ row' = row + 1
    /\ UNCHANGED <<input, phase, pulled, start, end, records>>

FinishMerge ==
    /\ streamed /\ phase = "reading" /\ row = end
    /\ end = Len(feed) /\ pulled > 0
    /\ records' = [i \in 1..Len(seen) |-> latest[seen[i]]]
    /\ phase' = "loaded"
    /\ UNCHANGED <<input, pulled, start, end, row, seen, latest>>

(* drop_duplicates(keep="last"): the surviving rows, in file order.        *)
LastRows ==
    {i \in 1..Len(feed) : \A j \in (i + 1)..Len(feed) :
        Typed(j, 1, Len(feed)) # Typed(i, 1, Len(feed))}

DropDuplicates ==
    CHOOSE s \in [1..Cardinality(LastRows) -> LastRows] :
        /\ \A i \in LastRows : \E n \in DOMAIN s : s[n] = i
        /\ \A m, n \in DOMAIN s : m < n => s[m] < s[n]

LoadWhole ==
    /\ ~streamed /\ phase = "reading"
    /\ \/ /\ Valid(1, Len(feed))
          /\ phase' = "loaded" /\ records' = DropDuplicates
       \/ /\ ~Valid(1, Len(feed))
          /\ phase' = "rejected" /\ UNCHANGED records
    /\ UNCHANGED <<input, pulled, start, end, row, seen, latest>>

Ended == phase \in {"loaded", "rejected"}
Terminated == Ended /\ UNCHANGED vars

Next == PullChunk \/ MergeRow \/ FinishMerge \/ LoadWhole \/ Terminated

Spec == Init /\ [][Next]_vars

-----------------------------------------------------------------------------
TypeOK ==
    /\ feed \in Seq(Texts) /\ header \in BOOLEAN /\ streamed \in BOOLEAN
    /\ chunksize \in Nat \ {0}
    /\ phase \in {"reading", "loaded", "rejected"} /\ pulled \in Nat
    /\ start \in Nat /\ row \in start..end /\ end \in 0..Len(feed)
    /\ seen \in Seq(DOMAIN latest)
    /\ \A v \in DOMAIN latest : latest[v] \in 1..row

LastOfKey(i) == \A j \in (i + 1)..Len(feed) : feed[j] # feed[i]

(* dedupe_last_seen and dedupe_last_seen_chunks: what is handed to the     *)
(* destination is the last row of every key in the feed and nothing else,  *)
(* each once, wherever the chunk boundaries fall.                          *)
LastSeenWins ==
    phase = "loaded" =>
        /\ \A i \in 1..Len(records) : records[i] \in 1..Len(feed) /\ LastOfKey(records[i])
        /\ \A n \in 1..Len(feed) : LastOfKey(n) => \E i \in 1..Len(records) : records[i] = n
        /\ \A i, j \in 1..Len(records) : records[i] = records[j] => i = j

(* A duplicate in a later chunk supersedes an earlier row "exactly as if   *)
(* the chunks had first been concatenated and passed to dedupe_last_seen"  *)
(* (dedupe.py): both paths hand the destination the same records, in the   *)
(* order they are then submitted in.                                       *)
ChunkedAsWhole ==
    streamed /\ phase = "loaded" => records = DropDuplicates

(* A feed with a missing column or a blank key anywhere yields no records  *)
(* at all, also when the bad chunk is the last: nothing is written before  *)
(* the whole feed has been validated.                                      *)
AllOrNothing ==
    Ended => (phase = "loaded" <=> header /\ \A i \in 1..Len(feed) : feed[i] # Blank)

(* A malformed chunk raises before any chunk after it is read: no complete *)
(* chunk was pulled beyond the first bad row.                              *)
StopsAtBadChunk ==
    streamed => \A i \in 1..end : ~header \/ feed[i] = Blank =>
        phase = "rejected" /\ end - i < chunksize

(* The merge loop's invariant: after some rows the dict holds exactly the  *)
(* keys among them, each with its last row so far, and seen lists each of  *)
(* its keys once.                                                          *)
MergedSoFar ==
    Numeric = {} =>
        /\ DOMAIN latest = {<<"str", feed[i]>> : i \in 1..row}
        /\ \A v \in DOMAIN latest :
            /\ latest[v] \in 1..row /\ v = <<"str", feed[latest[v]]>>
            /\ \A j \in (latest[v] + 1)..row : feed[j] # feed[latest[v]]
            /\ \E i \in 1..Len(seen) : seen[i] = v
        /\ \A i, j \in 1..Len(seen) : seen[i] = seen[j] => i = j

(* How far the feed has been validated: what AllOrNothing and              *)
(* StopsAtBadChunk rest on.                                                *)
ValidatedSoFar ==
    /\ pulled = 0 => end = 0
    /\ streamed /\ phase # "rejected" /\ pulled > 0 =>
        header /\ \A j \in 1..end : feed[j] # Blank
    /\ streamed /\ phase = "loaded" => pulled > 0 /\ row = Len(feed)
    /\ streamed /\ phase = "rejected" =>
        /\ end - start <= chunksize
        /\ \A j \in 1..start : feed[j] # Blank
        /\ ~header \/ \E j \in (start + 1)..end : feed[j] = Blank
        /\ ~header => start = 0
    /\ ~streamed => end = 0
=============================================================================

------------------------- MODULE RecordLoadingProofs -------------------------
(***************************************************************************)
(* load_records for feeds and chunks of any length.  Validation: nothing   *)
(* is loaded unless the whole feed is valid, and no chunk after a          *)
(* malformed one is read.  Merging: the chunked path returns the last row  *)
(* of every key, in the order of the keys' first rows, whatever the chunk  *)
(* boundaries, if no key reads as a number.  The other path returns the    *)
(* same rows in file order, also when keys read as numbers, as long as no  *)
(* two of them read as the same number.                                    *)
(***************************************************************************)
EXTENDS RecordLoading, SequenceLemmas

RowsType ==
    /\ feed \in Seq(Texts) /\ header \in BOOLEAN /\ streamed \in BOOLEAN
    /\ chunksize \in Nat \ {0}
    /\ phase \in {"reading", "loaded", "rejected"} /\ pulled \in Nat
    /\ start \in Nat /\ row \in start..end /\ end \in 0..Len(feed)

LEMMA InitRows == Init => RowsType
<1> SUFFICES ASSUME Init PROVE RowsType
  OBVIOUS
<1>1. PICK n \in 0..MaxRows : feed \in [1..n -> Texts]
  BY DEF Init
<1>2. n \in Nat
  BY <1>1, LoadingAssumption
<1>3. feed \in Seq(Texts) /\ Len(feed) = n
  BY <1>1, <1>2
<1> QED
  BY <1>3, LoadingAssumption DEF Init, RowsType

(* Where the next chunk ends.                                              *)
LEMMA NextEnd ==
    ASSUME RowsType
    PROVE  /\ Smaller(end + chunksize, Len(feed)) \in end..Len(feed)
           /\ Smaller(end + chunksize, Len(feed)) - end <= chunksize
<1>1. end \in Nat /\ chunksize \in Nat /\ Len(feed) \in Nat /\ end <= Len(feed)
  BY DEF RowsType
<1> QED
  BY <1>1 DEF Smaller

LEMMA NextRows == RowsType /\ [Next]_vars => RowsType'
<1> SUFFICES ASSUME RowsType, [Next]_vars PROVE RowsType'
  OBVIOUS
<1>1. Len(feed) \in Nat
  BY DEF RowsType
<1>2. CASE PullChunk
  <2>1. Smaller(end + chunksize, Len(feed)) \in end..Len(feed)
    BY NextEnd
  <2> QED
    BY <1>2, <2>1 DEF PullChunk, RowsType, input
<1>3. CASE MergeRow
  BY <1>3 DEF MergeRow, RowsType, input
<1>4. CASE FinishMerge
  BY <1>4 DEF FinishMerge, RowsType, input
<1>5. CASE LoadWhole
  BY <1>5 DEF LoadWhole, RowsType, input
<1>6. CASE UNCHANGED vars
  BY <1>6 DEF RowsType, vars, input
<1> QED
  BY <1>2, <1>3, <1>4, <1>5, <1>6 DEF Next, Terminated

-----------------------------------------------------------------------------
(* Validation.                                                             *)

WholeValidated ==
    /\ ~streamed /\ phase = "loaded" => Valid(1, Len(feed))
    /\ ~streamed /\ phase = "rejected" => ~Valid(1, Len(feed))

ValidInv == RowsType /\ ValidatedSoFar /\ WholeValidated

(* A chunk is read after a valid prefix: it extends the prefix, or it is   *)
(* the one that is rejected.                                               *)
LEMMA PullValidates ==
    ASSUME ValidInv, PullChunk
    PROVE  ValidatedSoFar'
<1> USE DEF ValidInv
<1>1. /\ streamed' /\ streamed /\ phase = "reading" /\ row = end
      /\ pulled' = pulled + 1 /\ start' = end
      /\ end' = Smaller(end + chunksize, Len(feed))
      /\ phase' = IF Valid(end + 1, end') THEN "reading" ELSE "rejected"
      /\ feed' = feed /\ header' = header /\ chunksize' = chunksize
  BY DEF PullChunk, input
<1>2. end \in Nat /\ end' \in end..Len(feed) /\ end' - end <= chunksize
  BY <1>1, NextEnd DEF RowsType
<1>3. \A j \in 1..end : feed[j] # Blank
  BY <1>1, <1>2 DEF ValidatedSoFar, RowsType
<1>4. pulled > 0 => header
  BY <1>1 DEF ValidatedSoFar
<1>5. pulled' # 0
  BY <1>1 DEF RowsType
<1>6. ASSUME phase' # "rejected"
      PROVE  header' /\ \A j \in 1..end' : feed'[j] # Blank
  <2>1. header /\ \A j \in (end + 1)..end' : feed[j] # Blank
    BY <1>1, <1>6 DEF Valid
  <2> QED
    BY <1>1, <1>2, <1>3, <2>1
<1>7. ASSUME phase' = "rejected"
      PROVE  /\ ~header' \/ \E j \in (start' + 1)..end' : feed'[j] = Blank
             /\ ~header' => start' = 0
  <2>1. ~header \/ \E j \in (end + 1)..end' : feed[j] = Blank
    BY <1>1, <1>7 DEF Valid
  <2>2. ~header => end = 0
    BY <1>4 DEF ValidatedSoFar, RowsType
  <2> QED
    BY <1>1, <2>1, <2>2
<1>8. phase' # "loaded"
  BY <1>1
<1> QED
  BY <1>1, <1>2, <1>3, <1>5, <1>6, <1>7, <1>8 DEF ValidatedSoFar

LEMMA InitValidates == Init => ValidInv
BY InitRows DEF Init, ValidInv, ValidatedSoFar, WholeValidated

LEMMA NextValidates == ValidInv /\ [Next]_vars => ValidInv'
<1> SUFFICES ASSUME ValidInv, [Next]_vars PROVE ValidInv'
  OBVIOUS
<1>1. RowsType'
  BY NextRows DEF ValidInv
<1>2. CASE PullChunk
  <2>1. WholeValidated'
    BY <1>2 DEF PullChunk, WholeValidated, input
  <2> QED
    BY <1>1, <1>2, <2>1, PullValidates DEF ValidInv
<1>3. CASE MergeRow
  <2>1. ValidatedSoFar' /\ WholeValidated'
    BY <1>3 DEF MergeRow, ValidInv, ValidatedSoFar, WholeValidated, input
  <2> QED
    BY <1>1, <2>1 DEF ValidInv
<1>4. CASE FinishMerge
  <2>1. ValidatedSoFar' /\ WholeValidated'
    BY <1>4 DEF FinishMerge, ValidInv, ValidatedSoFar, WholeValidated, input, RowsType
  <2> QED
    BY <1>1, <2>1 DEF ValidInv
<1>5. CASE LoadWhole
  <2>1. ValidatedSoFar'
    BY <1>5 DEF LoadWhole, ValidInv, ValidatedSoFar, input
  <2>2. WholeValidated'
    BY <1>5 DEF LoadWhole, ValidInv, WholeValidated, Valid, input
  <2> QED
    BY <1>1, <2>1, <2>2 DEF ValidInv
<1>6. CASE UNCHANGED vars
  BY <1>1, <1>6 DEF vars, input, ValidInv, ValidatedSoFar, WholeValidated, Valid
<1> QED
  BY <1>2, <1>3, <1>4, <1>5, <1>6 DEF Next, Terminated

LEMMA SpecValidates == Spec => []ValidInv
BY InitValidates, NextValidates, PTL DEF Spec

LEMMA ValidImpliesAllOrNothing == ValidInv => AllOrNothing
<1> SUFFICES ASSUME ValidInv, Ended
             PROVE  phase = "loaded" <=> header /\ \A i \in 1..Len(feed) : feed[i] # Blank
  BY DEF AllOrNothing
<1> USE DEF ValidInv
<1>1. Len(feed) \in Nat
  BY DEF RowsType
<1>2. CASE streamed /\ phase = "loaded"
  BY <1>1, <1>2 DEF ValidatedSoFar, RowsType
<1>3. CASE streamed /\ phase = "rejected"
  BY <1>1, <1>3 DEF ValidatedSoFar, RowsType
<1>4. CASE ~streamed
  BY <1>4 DEF WholeValidated, Valid, Ended
<1> QED
  BY <1>2, <1>3, <1>4 DEF Ended

LEMMA ValidImpliesStops == ValidInv => StopsAtBadChunk
<1> SUFFICES ASSUME ValidInv, streamed, NEW i \in 1..end, ~header \/ feed[i] = Blank
             PROVE  phase = "rejected" /\ end - i < chunksize
  BY DEF StopsAtBadChunk
<1> USE DEF ValidInv
<1>1. end \in Nat /\ pulled > 0
  BY DEF ValidatedSoFar, RowsType
<1>2. phase = "rejected"
  BY <1>1 DEF ValidatedSoFar
<1>3. i > start
  BY <1>1, <1>2 DEF ValidatedSoFar, RowsType
<1> QED
  BY <1>1, <1>2, <1>3 DEF ValidatedSoFar, RowsType

(* A feed that is malformed anywhere, even in its last chunk, yields no    *)
(* records at all, on either path and for any chunk size.                  *)
THEOREM NothingFromBadFeed == Spec => []AllOrNothing
BY SpecValidates, ValidImpliesAllOrNothing, PTL

(* No complete chunk is pulled beyond the first malformed row.             *)
THEOREM BadChunkStopsReading == Spec => []StopsAtBadChunk
BY SpecValidates, ValidImpliesStops, PTL
-----------------------------------------------------------------------------
(* Merging, when every key stays a text.                                   *)

Returned ==
    streamed /\ phase = "loaded" =>
        records = [i \in 1..Len(seen) |-> latest[seen[i]]]

MergeInv == RowsType /\ seen \in Seq(DOMAIN latest) /\ MergedSoFar /\ Returned

LEMMA TypedAsText ==
    ASSUME Numeric = {}, RowsType, row < end
    PROVE  Typed(row + 1, start + 1, end) = <<"str", feed[row + 1]>>
<1>1. row \in Int /\ start \in Int /\ end \in Int /\ start <= row
  BY DEF RowsType
<1>2. row + 1 \in (start + 1)..end
  BY <1>1
<1> QED
  BY <1>2 DEF Typed

(* The row just merged is the last of its key; every other key keeps its   *)
(* row and its place.                                                      *)
LEMMA MergeKeepsInv ==
    ASSUME Numeric = {}, MergeInv, MergeRow
    PROVE  seen' \in Seq(DOMAIN latest') /\ MergedSoFar'
<1> DEFINE v == <<"str", feed[row + 1]>>
<1> USE DEF MergeInv
<1>1. /\ row < end /\ row' = row + 1 /\ feed' = feed
      /\ row \in Nat /\ end \in Nat /\ row' \in 1..Len(feed) /\ Len(feed) \in Nat
  BY DEF MergeRow, input, RowsType
<1>2. seen' = Insert(v) /\ latest' = Assign(v, row + 1)
  BY <1>1, TypedAsText DEF MergeRow
<1> HIDE DEF v
<1>3. DOMAIN latest' = DOMAIN latest \cup {v}
  BY <1>2 DEF Assign
<1>4. \A u \in DOMAIN latest' : latest'[u] = IF u = v THEN row + 1 ELSE latest[u]
  BY <1>2, <1>3 DEF Assign
<1>5. /\ DOMAIN latest = {<<"str", feed[i]>> : i \in 1..row}
      /\ \A u \in DOMAIN latest :
            /\ latest[u] \in 1..row /\ u = <<"str", feed[latest[u]]>>
            /\ \A j \in (latest[u] + 1)..row : feed[j] # feed[latest[u]]
            /\ \E i \in 1..Len(seen) : seen[i] = u
      /\ \A i, j \in 1..Len(seen) : seen[i] = seen[j] => i = j
  BY DEF MergedSoFar
<1>6. DOMAIN latest' = {<<"str", feed'[i]>> : i \in 1..row'}
  <2>1. 1..row' = 1..row \cup {row + 1}
    BY <1>1
  <2> QED
    BY <1>1, <1>3, <1>5, <2>1 DEF v
<1>7. ASSUME NEW u \in DOMAIN latest'
      PROVE  /\ latest'[u] \in 1..row' /\ u = <<"str", feed'[latest'[u]]>>
             /\ \A j \in (latest'[u] + 1)..row' : feed'[j] # feed'[latest'[u]]
  <2>1. CASE u = v
    BY <1>1, <1>4, <2>1 DEF v
  <2>2. CASE u # v
    <3>1. latest'[u] = latest[u] /\ u \in DOMAIN latest
      BY <1>3, <1>4, <2>2
    <3>2. latest[u] \in 1..row /\ u = <<"str", feed[latest[u]]>>
      BY <1>5, <3>1
    <3>3. feed[row + 1] # feed[latest[u]]
      BY <2>2, <3>2 DEF v
    <3>4. ASSUME NEW j \in (latest[u] + 1)..row'
          PROVE  feed[j] # feed[latest[u]]
      <4>1. j = row + 1 \/ j \in (latest[u] + 1)..row
        BY <1>1, <3>2
      <4> QED
        BY <1>5, <3>1, <3>3, <4>1
    <3> QED
      BY <1>1, <3>1, <3>2, <3>4
  <2> QED
    BY <2>1, <2>2
<1>8. CASE v \in DOMAIN latest
  <2>1. seen' = seen /\ DOMAIN latest' = DOMAIN latest
    BY <1>2, <1>3, <1>8 DEF Insert
  <2>2. \A u \in DOMAIN latest' : \E i \in 1..Len(seen') : seen'[i] = u
    BY <1>5, <2>1
  <2>3. \A i, j \in 1..Len(seen') : seen'[i] = seen'[j] => i = j
    BY <1>5, <2>1
  <2> QED
    BY <1>6, <1>7, <2>1, <2>2, <2>3 DEF MergedSoFar
<1>9. CASE v \notin DOMAIN latest
  <2>1. seen' = Append(seen, v)
    BY <1>2, <1>9 DEF Insert
  <2>2. seen \in Seq(DOMAIN latest') /\ v \in DOMAIN latest'
    BY <1>3
  <2>3. seen' \in Seq(DOMAIN latest') /\ Len(seen) \in Nat /\ Len(seen') = Len(seen) + 1
    BY <2>1, <2>2
  <2>4. \A i \in 1..Len(seen) : seen'[i] = seen[i]
    BY <2>1, <2>2
  <2>5. seen'[Len(seen) + 1] = v
    BY <2>1, <2>2
  <2>6. ASSUME NEW u \in DOMAIN latest'
        PROVE  \E i \in 1..Len(seen') : seen'[i] = u
    <3>1. CASE u = v
      BY <2>3, <2>5, <3>1
    <3>2. CASE u # v
      <4>1. PICK i \in 1..Len(seen) : seen[i] = u
        BY <1>3, <1>5, <3>2
      <4> QED
        BY <2>3, <2>4, <4>1
    <3> QED
      BY <3>1, <3>2
  <2>7. \A i \in 1..Len(seen) : seen[i] # v
    BY <1>9
  <2>8. ASSUME NEW i \in 1..Len(seen'), NEW j \in 1..Len(seen'), seen'[i] = seen'[j]
        PROVE  i = j
    <3>1. (i \in 1..Len(seen) \/ i = Len(seen) + 1) /\ (j \in 1..Len(seen) \/ j = Len(seen) + 1)
      BY <2>3
    <3> QED
      BY <1>5, <2>4, <2>5, <2>7, <2>8, <3>1
  <2> QED
    BY <1>6, <1>7, <2>3, <2>6, <2>8 DEF MergedSoFar
<1> QED
  BY <1>8, <1>9

LEMMA InitMerged == Init => MergeInv
<1> SUFFICES ASSUME Init PROVE MergeInv
  OBVIOUS
<1>1. row = 0 /\ seen = <<>> /\ DOMAIN latest = {} /\ phase = "reading"
  BY DEF Init
<1>2. seen \in Seq(DOMAIN latest) /\ Len(seen) = 0
  BY <1>1
<1>3. MergedSoFar
  BY <1>1, <1>2 DEF MergedSoFar
<1> QED
  BY <1>1, <1>2, <1>3, InitRows DEF MergeInv, Returned

LEMMA NextMerged == Numeric = {} /\ MergeInv /\ [Next]_vars => MergeInv'
<1> SUFFICES ASSUME Numeric = {}, MergeInv, [Next]_vars PROVE MergeInv'
  OBVIOUS
<1>1. RowsType'
  BY NextRows DEF MergeInv
<1>2. CASE MergeRow
  <2>1. Returned'
    BY <1>2 DEF MergeRow, Returned
  <2> QED
    BY <1>1, <1>2, <2>1, MergeKeepsInv DEF MergeInv
<1>3. CASE FinishMerge
  <2>1. /\ feed' = feed /\ row' = row /\ seen' = seen /\ latest' = latest
        /\ records' = [i \in 1..Len(seen) |-> latest[seen[i]]]
    BY <1>3 DEF FinishMerge, input
  <2>2. MergedSoFar' /\ seen' \in Seq(DOMAIN latest')
    BY <2>1 DEF MergeInv, MergedSoFar
  <2>3. Returned'
    BY <2>1 DEF Returned
  <2> QED
    BY <1>1, <2>2, <2>3 DEF MergeInv
<1>4. CASE PullChunk
  <2>1. /\ feed' = feed /\ phase' # "loaded" /\ row' = row
        /\ seen' = seen /\ latest' = latest
    BY <1>4 DEF PullChunk, input
  <2>2. MergedSoFar' /\ Returned' /\ seen' \in Seq(DOMAIN latest')
    BY <2>1 DEF MergeInv, MergedSoFar, Returned
  <2> QED
    BY <1>1, <2>2 DEF MergeInv
<1>5. CASE LoadWhole
  <2>1. /\ feed' = feed /\ ~streamed' /\ row' = row
        /\ seen' = seen /\ latest' = latest
    BY <1>5 DEF LoadWhole, input
  <2>2. MergedSoFar' /\ Returned' /\ seen' \in Seq(DOMAIN latest')
    BY <2>1 DEF MergeInv, MergedSoFar, Returned
  <2> QED
    BY <1>1, <2>2 DEF MergeInv
<1>6. CASE UNCHANGED vars
  <2>1. /\ feed' = feed /\ streamed' = streamed /\ phase' = phase /\ row' = row
        /\ seen' = seen /\ latest' = latest /\ records' = records
    BY <1>6 DEF vars, input
  <2>2. MergedSoFar' /\ Returned' /\ seen' \in Seq(DOMAIN latest')
    BY <2>1 DEF MergeInv, MergedSoFar, Returned
  <2> QED
    BY <1>1, <2>2 DEF MergeInv
<1> QED
  BY <1>2, <1>3, <1>4, <1>5, <1>6 DEF Next, Terminated

(* Once the merge has read the whole feed, its dict is the answer.         *)
LEMMA MergedIsLastSeen ==
    ASSUME Numeric = {}, MergeInv, ValidInv, streamed
    PROVE  LastSeenWins
<1> SUFFICES ASSUME phase = "loaded"
             PROVE
        /\ \A i \in 1..Len(records) : records[i] \in 1..Len(feed) /\ LastOfKey(records[i])
        /\ \A n \in 1..Len(feed) : LastOfKey(n) => \E i \in 1..Len(records) : records[i] = n
        /\ \A i, j \in 1..Len(records) : records[i] = records[j] => i = j
  BY DEF LastSeenWins
<1>1. row = Len(feed) /\ Len(feed) \in Nat
  BY DEF ValidInv, ValidatedSoFar, RowsType
<1>2. records = [i \in 1..Len(seen) |-> latest[seen[i]]] /\ Len(seen) \in Nat
  BY DEF MergeInv, Returned
<1>3. Len(records) = Len(seen)
  BY <1>2
<1>4. \A i \in 1..Len(seen) : records[i] = latest[seen[i]] /\ seen[i] \in DOMAIN latest
  BY <1>2 DEF MergeInv
<1>5. /\ DOMAIN latest = {<<"str", feed[i]>> : i \in 1..row}
      /\ \A u \in DOMAIN latest :
            /\ latest[u] \in 1..row /\ u = <<"str", feed[latest[u]]>>
            /\ \A j \in (latest[u] + 1)..row : feed[j] # feed[latest[u]]
            /\ \E i \in 1..Len(seen) : seen[i] = u
      /\ \A i, j \in 1..Len(seen) : seen[i] = seen[j] => i = j
  BY DEF MergeInv, MergedSoFar
<1>6. \A u \in DOMAIN latest : latest[u] \in 1..Len(feed) /\ LastOfKey(latest[u])
  BY <1>1, <1>5 DEF LastOfKey
<1>7. ASSUME NEW n \in 1..Len(feed), LastOfKey(n)
      PROVE  \E i \in 1..Len(records) : records[i] = n
  <2> DEFINE u == <<"str", feed[n]>>
  <2>1. u \in DOMAIN latest
    BY <1>1, <1>5
  <2>2. feed[latest[u]] = feed[n] /\ latest[u] \in 1..Len(feed)
    BY <1>1, <1>5, <2>1
  <2>3. ~(latest[u] > n)
    BY <1>1, <1>7, <2>2 DEF LastOfKey
  <2>4. ~(n > latest[u])
    BY <1>1, <1>6, <2>1, <2>2 DEF LastOfKey
  <2>5. latest[u] = n
    BY <1>1, <2>2, <2>3, <2>4
  <2>6. PICK i \in 1..Len(seen) : seen[i] = u
    BY <1>5, <2>1
  <2> QED
    BY <1>3, <1>4, <2>5, <2>6
<1>8. ASSUME NEW i \in 1..Len(records), NEW j \in 1..Len(records), records[i] = records[j]
      PROVE  i = j
  <2>1. seen[i] = <<"str", feed[records[i]]>> /\ seen[j] = <<"str", feed[records[j]]>>
    BY <1>3, <1>4, <1>5
  <2> QED
    BY <1>3, <1>5, <1>8, <2>1
<1> QED
  BY <1>3, <1>4, <1>6, <1>7, <1>8

(* dedupe_last_seen_chunks keeps its promise when no key reads as a number: *)
(* the chunked path returns exactly the last row of every key of the feed,  *)
(* each once, for every feed and every chunk size.                          *)
THEOREM ChunkedLastSeenWins ==
    ASSUME Numeric = {}
    PROVE  Spec => [](streamed => LastSeenWins)
<1>1. MergeInv /\ ValidInv => (streamed => LastSeenWins)
  BY MergedIsLastSeen
<1>2. MergeInv /\ [Next]_vars => MergeInv'
  BY NextMerged
<1> QED
  BY <1>1, <1>2, InitMerged, SpecValidates, PTL DEF Spec

-----------------------------------------------------------------------------
(* The order of the merged rows.                                           *)

(* Every key of the dict has a first row, and the keys inserted after it   *)
(* did not appear up to there.                                             *)
InsertedInOrder ==
    \A a \in 1..Len(seen) : \E n \in 1..row :
        /\ seen[a] = <<"str", feed[n]>>
        /\ \A m \in 1..(n - 1) : feed[m] # feed[n]
        /\ \A b \in (a + 1)..Len(seen) : \A m \in 1..n : seen[b] # <<"str", feed[m]>>

LEMMA MergeKeepsOrder ==
    ASSUME Numeric = {}, MergeInv, InsertedInOrder, MergeRow
    PROVE  InsertedInOrder'
<1> DEFINE v == <<"str", feed[row + 1]>>
<1> USE DEF MergeInv
<1>1. /\ row < end /\ row' = row + 1 /\ feed' = feed /\ row \in Nat
  BY DEF MergeRow, input, RowsType
<1>2. seen' = Insert(v)
  BY <1>1, TypedAsText DEF MergeRow
<1>3. v \notin DOMAIN latest => \A m \in 1..row : v # <<"str", feed[m]>>
  BY DEF MergedSoFar
<1>4. Len(seen) \in Nat
  OBVIOUS
<1>5. CASE v \in DOMAIN latest
  <2>1. seen' = seen /\ 1..row \subseteq 1..row'
    BY <1>1, <1>2, <1>5 DEF Insert
  <2> QED
    BY <1>1, <2>1 DEF InsertedInOrder
<1>6. CASE v \notin DOMAIN latest
  <2>1. seen' = Append(seen, v)
    BY <1>2, <1>6 DEF Insert
  <2>2. /\ Len(seen') = Len(seen) + 1 /\ seen'[Len(seen) + 1] = v
        /\ \A i \in 1..Len(seen) : seen'[i] = seen[i]
    BY <2>1
  <2>3. ASSUME NEW a \in 1..Len(seen)
        PROVE  \E n \in 1..row' :
            /\ seen'[a] = <<"str", feed'[n]>>
            /\ \A m \in 1..(n - 1) : feed'[m] # feed'[n]
            /\ \A b \in (a + 1)..Len(seen') : \A m \in 1..n : seen'[b] # <<"str", feed'[m]>>
    <3>1. PICK n \in 1..row :
            /\ seen[a] = <<"str", feed[n]>>
            /\ \A m \in 1..(n - 1) : feed[m] # feed[n]
            /\ \A b \in (a + 1)..Len(seen) : \A m \in 1..n : seen[b] # <<"str", feed[m]>>
      BY DEF InsertedInOrder
    <3> HIDE DEF v
    <3>2. ASSUME NEW b \in (a + 1)..Len(seen'), NEW m \in 1..n
          PROVE  seen'[b] # <<"str", feed[m]>>
      <4>1. CASE b = Len(seen) + 1
        <5>1. m \in 1..row
          BY <1>1
        <5> QED
          BY <1>3, <1>6, <2>2, <4>1, <5>1
      <4>2. CASE b # Len(seen) + 1
        <5>1. b \in (a + 1)..Len(seen) /\ b \in 1..Len(seen)
          BY <1>4, <2>2, <4>2
        <5> QED
          BY <2>2, <3>1, <5>1
      <4> QED
        BY <4>1, <4>2
    <3>3. n \in 1..row' /\ seen'[a] = <<"str", feed'[n]>>
      BY <1>1, <2>2, <3>1
    <3> QED
      BY <1>1, <3>1, <3>2, <3>3
  <2>4. \E n \in 1..row' :
            /\ seen'[Len(seen')] = <<"str", feed'[n]>>
            /\ \A m \in 1..(n - 1) : feed'[m] # feed'[n]
    <3>1. \A m \in 1..row : feed[m] # feed[row + 1]
      BY <1>3, <1>6
    <3>2. row + 1 \in 1..row' /\ (row + 1) - 1 = row
      BY <1>1
    <3> QED
      BY <1>1, <2>2, <3>1, <3>2
  <2>5. \A a \in 1..Len(seen') : a \in 1..Len(seen) \/ a = Len(seen')
    BY <1>4, <2>2
  <2>6. (Len(seen') + 1)..Len(seen') = {}
    BY <1>4, <2>2
  <2> QED
    BY <2>3, <2>4, <2>5, <2>6 DEF InsertedInOrder
<1> QED
  BY <1>5, <1>6

LEMMA SpecMerges == Numeric = {} => (Spec => [](MergeInv /\ ValidInv /\ InsertedInOrder))
<1> SUFFICES ASSUME Numeric = {} PROVE Spec => [](MergeInv /\ ValidInv /\ InsertedInOrder)
  OBVIOUS
<1>1. Init => InsertedInOrder
  BY DEF Init, InsertedInOrder
<1>2. ASSUME MergeInv, InsertedInOrder, [Next]_vars
      PROVE  InsertedInOrder'
  <2>1. MergeRow \/ UNCHANGED <<feed, row, seen>>
    BY <1>2 DEF Next, PullChunk, FinishMerge, LoadWhole, Terminated, vars, input
  <2>2. CASE UNCHANGED <<feed, row, seen>>
    BY <1>2, <2>2 DEF InsertedInOrder
  <2> QED
    BY <1>2, <2>1, <2>2, MergeKeepsOrder
<1>3. MergeInv /\ [Next]_vars => MergeInv'
  BY NextMerged
<1> QED
  BY <1>1, <1>2, <1>3, InitMerged, SpecValidates, PTL DEF Spec

(* The order each path gives the records: of first appearance of their key *)
(* on the chunked path, of their own row on the other.  The two differ.    *)
Same(a, b) == feed[a] = feed[b]

FirstOf(i) == CHOOSE n \in 1..i : Same(n, i) /\ \A m \in 1..(n - 1) : ~Same(m, i)

OutputOrder ==
    phase = "loaded" =>
        \A i, j \in 1..Len(records) : i < j =>
            IF streamed THEN FirstOf(records[i]) < FirstOf(records[j])
                        ELSE records[i] < records[j]

(* The order the merged records are submitted in, when no key reads as a   *)
(* number: that of the first appearance of their keys.                     *)
THEOREM ChunkedOutputOrder ==
    ASSUME Numeric = {}
    PROVE  Spec => [](streamed => OutputOrder)
<1>1. ASSUME MergeInv, ValidInv, InsertedInOrder, streamed, phase = "loaded",
             NEW i \in 1..Len(records), NEW j \in 1..Len(records), i < j
      PROVE  FirstOf(records[i]) < FirstOf(records[j])
  <2>1. records = [a \in 1..Len(seen) |-> latest[seen[a]]] /\ Len(seen) \in Nat
    BY <1>1 DEF MergeInv, Returned
  <2>2. Len(records) = Len(seen) /\ row \in Nat
    BY <1>1, <2>1 DEF MergeInv, RowsType
  <2>3. ASSUME NEW a \in 1..Len(seen), NEW n \in 1..row, seen[a] = <<"str", feed[n]>>,
               \A m \in 1..(n - 1) : feed[m] # feed[n]
        PROVE  FirstOf(records[a]) = n
    <3> DEFINE r == records[a]
    <3>1. r = latest[seen[a]] /\ seen[a] \in DOMAIN latest
      BY <1>1, <2>1 DEF MergeInv
    <3>2. r \in 1..row /\ feed[r] = feed[n]
      BY <1>1, <2>3, <3>1 DEF MergeInv, MergedSoFar
    <3> HIDE DEF r
    <3>3. n \in 1..r
      BY <2>2, <2>3, <3>2
    <3>4. \A m \in 1..r : Same(m, r) /\ (\A l \in 1..(m - 1) : ~Same(l, r)) <=> m = n
      BY <2>2, <2>3, <3>2, <3>3 DEF Same
    <3>5. FirstOf(r) = n
      BY <3>3, <3>4 DEF FirstOf
    <3> QED
      BY <3>5 DEF r
  <2>4. i \in 1..Len(seen) /\ j \in 1..Len(seen) /\ j \in (i + 1)..Len(seen)
    BY <1>1, <2>1, <2>2
  <2>5. PICK n \in 1..row :
            /\ seen[i] = <<"str", feed[n]>>
            /\ \A m \in 1..(n - 1) : feed[m] # feed[n]
            /\ \A m \in 1..n : seen[j] # <<"str", feed[m]>>
    BY <1>1, <2>4 DEF InsertedInOrder
  <2>6. PICK o \in 1..row :
            /\ seen[j] = <<"str", feed[o]>>
            /\ \A m \in 1..(o - 1) : feed[m] # feed[o]
    BY <1>1, <2>4 DEF InsertedInOrder
  <2>7. n < o
    BY <2>2, <2>5, <2>6
  <2>8. FirstOf(records[i]) = n /\ FirstOf(records[j]) = o
    BY <2>3, <2>4, <2>5, <2>6
  <2> QED
    BY <2>7, <2>8
<1>2. MergeInv /\ ValidInv /\ InsertedInOrder => (streamed => OutputOrder)
  BY <1>1 DEF OutputOrder
<1> QED
  BY <1>2, SpecMerges, PTL

-----------------------------------------------------------------------------
(* The path of a source that is read whole.                                *)
Whole == 1..Len(feed)
KeyRead(i) == Typed(i, 1, Len(feed))

LEMMA DroppedList ==
    ASSUME RowsType
    PROVE  /\ DropDuplicates \in [1..Cardinality(LastRows) -> LastRows]
           /\ Cardinality(LastRows) \in Nat
           /\ Enumerates(DropDuplicates, LastRows)
<1>1. Len(feed) \in Nat /\ LastRows \in SUBSET Whole
  BY DEF RowsType, LastRows, Whole
<1> HIDE DEF LastRows
<1>2. \E s \in [1..Cardinality(LastRows) -> LastRows] : Enumerates(s, LastRows)
  BY <1>1, EnumerationExists DEF Whole
<1>3. DropDuplicates = CHOOSE s \in [1..Cardinality(LastRows) -> LastRows] : Enumerates(s, LastRows)
  BY DEF DropDuplicates, Enumerates
<1>4. /\ DropDuplicates \in [1..Cardinality(LastRows) -> LastRows]
      /\ Enumerates(DropDuplicates, LastRows)
  BY <1>2, <1>3
<1>5. IsFiniteSet(Whole)
  BY <1>1, FS_Interval DEF Whole
<1>6. IsFiniteSet(LastRows)
  BY <1>1, <1>5, FS_Subset
<1> QED
  BY <1>4, <1>6, FS_CardinalityType

WholeInv == ~streamed /\ phase = "loaded" => records = DropDuplicates

LEMMA NextWhole == WholeInv /\ [Next]_vars => WholeInv'
<1> SUFFICES ASSUME WholeInv, [Next]_vars PROVE WholeInv'
  OBVIOUS
<1>1. UNCHANGED <<feed, streamed>>
  BY DEF Next, PullChunk, MergeRow, FinishMerge, LoadWhole, Terminated, vars, input
<1>2. DropDuplicates' = DropDuplicates
  BY <1>1 DEF DropDuplicates, LastRows, Typed
<1>3. CASE LoadWhole
  BY <1>2, <1>3 DEF LoadWhole, WholeInv
<1>4. CASE PullChunk \/ MergeRow \/ FinishMerge
  BY <1>1, <1>4 DEF PullChunk, MergeRow, FinishMerge, WholeInv
<1>5. CASE UNCHANGED <<phase, records>>
  BY <1>1, <1>2, <1>5 DEF WholeInv
<1> QED
  BY <1>3, <1>4, <1>5 DEF Next, Terminated, vars

LEMMA SpecLoadsWhole == Spec => [](RowsType /\ WholeInv)
<1>1. Init => WholeInv
  BY DEF Init, WholeInv
<1> QED
  BY <1>1, InitRows, NextRows, NextWhole, PTL DEF Spec

(* The records are the last rows of what pandas made of the keys.          *)
LEMMA LoadedWhole ==
    ASSUME RowsType, WholeInv, ~streamed, phase = "loaded"
    PROVE  /\ Len(records) \in Nat /\ DOMAIN records = 1..Len(records)
           /\ \A i \in 1..Len(records) : records[i] \in LastRows
           /\ Enumerates(records, LastRows)
<1>1. /\ records \in [1..Cardinality(LastRows) -> LastRows] /\ Cardinality(LastRows) \in Nat
      /\ Enumerates(records, LastRows)
  BY DroppedList DEF WholeInv
<1> HIDE DEF LastRows
<1>2. Len(records) = Cardinality(LastRows)
  BY <1>1
<1> QED
  BY <1>1, <1>2

NumbersApart == \A k, l \in Numeric : Number[k] = Number[l] => k = l

LEMMA ReadApart ==
    ASSUME NumbersApart, NEW i \in Whole, NEW j \in Whole
    PROVE  KeyRead(i) = KeyRead(j) <=> feed[i] = feed[j]
<1>1. CASE \A n \in 1..Len(feed) : feed[n] \in Numeric
  <2>1. feed[i] \in Numeric /\ feed[j] \in Numeric
    BY <1>1 DEF Whole
  <2>2. KeyRead(i) = <<"int", Number[feed[i]]>> /\ KeyRead(j) = <<"int", Number[feed[j]]>>
    BY <1>1 DEF KeyRead, Typed
  <2> QED
    BY <2>1, <2>2 DEF NumbersApart
<1>2. CASE ~\A n \in 1..Len(feed) : feed[n] \in Numeric
  <2>1. KeyRead(i) = <<"str", feed[i]>> /\ KeyRead(j) = <<"str", feed[j]>>
    BY <1>2 DEF KeyRead, Typed
  <2> QED
    BY <2>1
<1> QED
  BY <1>1, <1>2

LEMMA LastRowsAre ==
    ASSUME NumbersApart, RowsType, NEW i
    PROVE  i \in LastRows <=> i \in Whole /\ LastOfKey(i)
<1>1. Len(feed) \in Nat
  BY DEF RowsType
<1>2. ASSUME NEW n \in Whole
      PROVE  (\A j \in (n + 1)..Len(feed) : KeyRead(j) # KeyRead(n)) <=> LastOfKey(n)
  <2>1. \A j \in (n + 1)..Len(feed) : j \in Whole
    BY <1>1 DEF Whole
  <2> QED
    BY <2>1, ReadApart DEF LastOfKey
<1>3. LastRows = {n \in Whole : \A j \in (n + 1)..Len(feed) : KeyRead(j) # KeyRead(n)}
  BY DEF LastRows, Whole, KeyRead
<1> QED
  BY <1>2, <1>3

(* dedupe_last_seen returns exactly the last row of every key, each once,  *)
(* also from a column pandas reads as integers, as long as no two keys of  *)
(* the feed read as the same number.                                       *)
THEOREM WholeLastSeenWins ==
    ASSUME NumbersApart
    PROVE  Spec => [](~streamed => LastSeenWins)
<1>1. ASSUME RowsType, WholeInv, ~streamed, phase = "loaded" PROVE LastSeenWins
  <2>1. /\ Len(records) \in Nat /\ DOMAIN records = 1..Len(records)
        /\ \A i \in 1..Len(records) : records[i] \in LastRows
        /\ Enumerates(records, LastRows)
    BY <1>1, LoadedWhole
  <2>2. ASSUME NEW i \in 1..Len(records)
        PROVE  records[i] \in 1..Len(feed) /\ LastOfKey(records[i])
    BY <1>1, <2>1, LastRowsAre DEF Whole
  <2>3. ASSUME NEW n \in 1..Len(feed), LastOfKey(n)
        PROVE  \E i \in 1..Len(records) : records[i] = n
    <3>1. n \in LastRows
      BY <1>1, <2>3, LastRowsAre DEF Whole
    <3> QED
      BY <2>1, <3>1 DEF Enumerates
  <2>4. ASSUME NEW i \in 1..Len(records), NEW j \in 1..Len(records), records[i] = records[j]
        PROVE  i = j
    <3>1. records[i] \in Int
      BY <2>2
    <3>2. ~(i < j) /\ ~(j < i)
      BY <2>1, <2>4, <3>1 DEF Enumerates
    <3> QED
      BY <2>1, <3>2
  <2> QED
    BY <2>2, <2>3, <2>4 DEF LastSeenWins
<1>2. RowsType /\ WholeInv => (~streamed => LastSeenWins)
  BY <1>1 DEF LastSeenWins
<1> QED
  BY <1>2, SpecLoadsWhole, PTL

(* load_records on either path, when no key reads as a number.             *)
THEOREM LoadedRowsAreLastSeen ==
    ASSUME Numeric = {}
    PROVE  Spec => []LastSeenWins
<1>1. NumbersApart
  BY DEF NumbersApart
<1>2. Spec => [](~streamed => LastSeenWins)
  BY <1>1, WholeLastSeenWins
<1>3. Spec => [](streamed => LastSeenWins)
  BY ChunkedLastSeenWins
<1> QED
  BY <1>2, <1>3, PTL

(* The order dedupe_last_seen's records are submitted in: that of the file,*)
(* whatever the keys read as.                                              *)
THEOREM WholeOutputOrder == Spec => [](~streamed => OutputOrder)
<1>1. RowsType /\ WholeInv => (~streamed => OutputOrder)
  BY LoadedWhole DEF OutputOrder, Enumerates
<1> QED
  BY <1>1, SpecLoadsWhole, PTL

(* The order of the records on either path, when no key reads as a number. *)
THEOREM LoadedOrder ==
    ASSUME Numeric = {}
    PROVE  Spec => []OutputOrder
<1>1. Spec => [](streamed => OutputOrder)
  BY ChunkedOutputOrder
<1> QED
  BY <1>1, WholeOutputOrder, PTL

-----------------------------------------------------------------------------
(* Type correctness, whatever pandas makes of the keys.                    *)
DictType ==
    /\ seen \in Seq(DOMAIN latest)
    /\ \A v \in DOMAIN latest : latest[v] \in 1..row

LEMMA NextDict == RowsType /\ DictType /\ [Next]_vars => DictType'
<1> SUFFICES ASSUME RowsType, DictType, [Next]_vars PROVE DictType'
  OBVIOUS
<1>1. CASE MergeRow
  <2> DEFINE v == Typed(row + 1, start + 1, end)
  <2>1. /\ seen' = Insert(v) /\ latest' = Assign(v, row + 1) /\ row' = row + 1 /\ row \in Nat
    BY <1>1 DEF MergeRow, RowsType
  <2> HIDE DEF v
  <2>2. /\ DOMAIN latest' = DOMAIN latest \cup {v}
        /\ \A u \in DOMAIN latest' : latest'[u] = IF u = v THEN row + 1 ELSE latest[u]
    BY <2>1 DEF Assign
  <2>3. \A u \in DOMAIN latest' : latest'[u] \in 1..row'
    BY <2>1, <2>2 DEF DictType
  <2>4. seen \in Seq(DOMAIN latest') /\ v \in DOMAIN latest'
    BY <2>2 DEF DictType
  <2>5. seen' \in Seq(DOMAIN latest')
    <3>1. seen' = seen \/ seen' = Append(seen, v)
      BY <2>1 DEF Insert
    <3>2. Append(seen, v) \in Seq(DOMAIN latest')
      BY <2>4
    <3> QED
      BY <2>4, <3>1, <3>2
  <2> QED
    BY <2>3, <2>5 DEF DictType
<1>2. CASE UNCHANGED <<seen, latest, row>>
  BY <1>2 DEF DictType
<1> QED
  BY <1>1, <1>2 DEF Next, PullChunk, FinishMerge, LoadWhole, Terminated, vars

(* Type correctness of load_records on both paths.                         *)
THEOREM LoadingTypeOK == Spec => []TypeOK
<1>1. Init => DictType
  <2> SUFFICES ASSUME Init PROVE DictType
    OBVIOUS
  <2>1. seen = <<>> /\ DOMAIN latest = {}
    BY DEF Init
  <2> QED
    BY <2>1 DEF DictType
<1>2. RowsType /\ DictType => TypeOK
  BY DEF RowsType, DictType, TypeOK
<1> QED
  BY <1>1, <1>2, InitRows, NextRows, NextDict, PTL DEF Spec
=============================================================================

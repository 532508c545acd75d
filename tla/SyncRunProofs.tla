---------------------------- MODULE SyncRunProofs ----------------------------
(***************************************************************************)
(* What a run's exit code and its error messages say of the destination,   *)
(* for any number of records, runs, edits and requests under way; and      *)
(* first, that a key's URL names the row of that key, for every key.       *)
(***************************************************************************)
EXTENDS SyncRun, SequenceLemmas

-----------------------------------------------------------------------------
(* From a key to its URL and back.                                         *)

(* What each transform makes of one symbol.                                *)
QuotePiece(c) == IF c = "'" THEN <<c, c>> ELSE <<c>>
EscapePiece(c) == IF c \in Reserved THEN <<"%", Hex[c]>> ELSE <<c>>

(* A transformed text is the flattened sequence of its symbols' pieces.    *)
LEMMA QuotesJoin ==
  ASSUME NEW S, NEW text \in Seq(S)
  PROVE  DoubleQuotes(text) = FlattenSeq([i \in 1..Len(text) |-> QuotePiece(text[i])])
<1>1. DOMAIN text = 1..Len(text)
  OBVIOUS
<1> QED BY <1>1 DEF DoubleQuotes, MapText, QuotePiece

LEMMA EscapesJoin ==
  ASSUME NEW S, NEW text \in Seq(S)
  PROVE  PercentEncode(text) = FlattenSeq([i \in 1..Len(text) |-> EscapePiece(text[i])])
<1>1. DOMAIN text = 1..Len(text)
  OBVIOUS
<1> QED BY <1>1 DEF PercentEncode, MapText, EscapePiece

(* The two recursions of the server, at one position and as the equation   *)
(* their function is chosen to satisfy.                                    *)
ReadThere(text, f, i) ==
    IF i > Len(text) THEN <<>>
    ELSE IF text[i] # "'" THEN <<text[i]>> \o f[i + 1]
    ELSE IF i < Len(text) /\ text[i + 1] = "'" THEN <<"'">> \o f[i + 2]
    ELSE NoRow

ReadStep(text, f) == [i \in 1..(Len(text) + 2) |-> ReadThere(text, f, i)]

LEMMA ReadAt ==
  ASSUME NEW text, NEW f, f = ReadStep(text, f), NEW i \in 1..(Len(text) + 2)
  PROVE  f[i] = ReadThere(text, f, i)
<1>1. ReadStep(text, f)[i] = ReadThere(text, f, i)
  BY DEF ReadStep, ReadThere
<1>2. f[i] = ReadStep(text, f)[i]
  BY Zenon
<1> QED BY <1>1, <1>2

DecodeThere(text, f, i) ==
    IF i > Len(text) THEN <<>>
    ELSE IF HasDigits(text, i)
         THEN <<CHOOSE c \in Reserved : Hex[c] = text[i + 1]>> \o f[i + 2]
    ELSE <<text[i]>> \o f[i + 1]

DecodeStep(text, f) == [i \in 1..(Len(text) + 2) |-> DecodeThere(text, f, i)]

LEMMA DecodeAt ==
  ASSUME NEW text, NEW f, f = DecodeStep(text, f), NEW i \in 1..(Len(text) + 2)
  PROVE  f[i] = DecodeThere(text, f, i)
<1>1. DecodeStep(text, f)[i] = DecodeThere(text, f, i)
  BY DEF DecodeStep, DecodeThere
<1>2. f[i] = DecodeStep(text, f)[i]
  BY Zenon
<1> QED BY <1>1, <1>2

LEMMA ReadIsFixpoint ==
  ASSUME NEW text, NEW h, h = ReadStep(text, h)
  PROVE  \E f : /\ f = ReadStep(text, f)
                /\ ReadLiteral(text) = IF NoRow[1] \in ToSet(f[1]) THEN NoRow ELSE f[1]
<1> DEFINE f == CHOOSE f : f = ReadStep(text, f)
<1>1. f = ReadStep(text, f)
  OBVIOUS
<1>2. ReadLiteral(text) = IF NoRow[1] \in ToSet(f[1]) THEN NoRow ELSE f[1]
  BY DEF ReadLiteral, ReadStep, ReadThere
<1> HIDE DEF f
<1> QED BY <1>1, <1>2

LEMMA DecodeIsFixpoint ==
  ASSUME NEW text, NEW h, h = DecodeStep(text, h)
  PROVE  \E f : f = DecodeStep(text, f) /\ PercentDecode(text) = f[1]
<1> DEFINE f == CHOOSE f : f = DecodeStep(text, f)
<1>1. f = DecodeStep(text, f)
  OBVIOUS
<1>2. PercentDecode(text) = f[1]
  BY DEF PercentDecode, DecodeStep, DecodeThere
<1> HIDE DEF f
<1> QED BY <1>1, <1>2

LEMMA NoRowText ==
  ASSUME NEW S, NoRow[1] \in S
  PROVE  NoRow \in Seq(S) /\ NoRow \o <<>> = NoRow
<1>1. NoRow[1] = "no row" /\ NoRow = <<"no row">>
  BY DEF NoRow
<1>2. "no row" \in S
  BY <1>1
<1> QED BY <1>1, <1>2, Single

(* Such functions exist: each is a scan that moves forward.                *)
LEMMA ReadExists ==
  ASSUME NEW S, NEW text \in Seq(S), "'" \in S, NoRow[1] \in S
  PROVE  \E f : f = ReadStep(text, f)
<1> DEFINE L == Len(text)
           doubled(i) == i < L /\ text[i + 1] = "'"
           head == [i \in 1..L |-> IF text[i] # "'" THEN <<text[i]>>
                                   ELSE IF doubled(i) THEN <<"'">> ELSE NoRow]
           jump == [i \in 1..L |-> IF text[i] # "'" THEN i + 1
                                   ELSE IF doubled(i) THEN i + 2 ELSE L + 2]
<1>1. L \in Nat
  OBVIOUS
<1>2. head \in [1..L -> Seq(S)]
  <2>1. ASSUME NEW i \in 1..L PROVE text[i] \in S
    OBVIOUS
  <2>2. NoRow \in Seq(S) /\ <<"'">> \in Seq(S)
    BY NoRowText, Single
  <2> QED BY <2>1, <2>2
<1>3. jump \in [1..L -> Nat] /\ \A i \in 1..L : i < jump[i] /\ jump[i] <= L + 2
  BY <1>1
<1>4. PICK f \in [1..(L + 2) -> Seq(S)] : Scanned(L, 1, head, jump, f)
  <2> HIDE DEF head, jump, L
  <2> QED BY <1>1, <1>2, <1>3, ScanExists
<1>5. ASSUME NEW i \in 1..(L + 2)
      PROVE  f[i] = ReadThere(text, f, i)
  <2>1. CASE i > L
    <3>1. i = L + 1 \/ i = L + 2
      <4> HIDE DEF L
      <4> QED BY <2>1, <1>1
    <3>2. f[i] = <<>>
      BY <3>1, <1>4 DEF Scanned
    <3> QED BY <2>1, <3>2 DEF ReadThere
  <2>2. CASE ~(i > L)
    <3>1. i \in 1..L /\ L + 2 \in 1..(L + 2)
      <4> HIDE DEF L
      <4> QED BY <2>2, <1>1
    <3>2. f[i] = head[i] \o f[jump[i]] /\ f[L + 2] = <<>>
      BY <3>1, <1>4 DEF Scanned
    <3>3. CASE text[i] # "'"
      BY <3>1, <3>2, <3>3, <2>2 DEF ReadThere
    <3>4. CASE text[i] = "'" /\ doubled(i)
      BY <3>1, <3>2, <3>4, <2>2 DEF ReadThere
    <3>5. CASE text[i] = "'" /\ ~doubled(i)
      <4>1. head[i] = NoRow /\ jump[i] = L + 2
        BY <3>1, <3>5
      <4>2. f[i] = NoRow \o <<>>
        BY <3>2, <4>1
      <4>3. NoRow \o <<>> = NoRow
        BY NoRowText
      <4> QED BY <3>1, <3>5, <2>2, <4>2, <4>3 DEF ReadThere
    <3> QED BY <3>3, <3>4, <3>5
  <2> QED BY <2>1, <2>2
<1>6. f = ReadStep(text, f)
  <2>1. f = [i \in 1..(L + 2) |-> f[i]]
    OBVIOUS
  <2> QED BY <2>1, <1>5 DEF ReadStep
<1> QED BY <1>6

LEMMA DecodeExists ==
  ASSUME NEW S, NEW text \in Seq(S)
  PROVE  \E f : f = DecodeStep(text, f)
<1> DEFINE L == Len(text)
           char(i) == CHOOSE c \in Reserved : Hex[c] = text[i + 1]
           U == S \cup Reserved
           head == [i \in 1..L |-> IF HasDigits(text, i) THEN <<char(i)>> ELSE <<text[i]>>]
           jump == [i \in 1..L |-> IF HasDigits(text, i) THEN i + 2 ELSE i + 1]
<1>1. L \in Nat
  OBVIOUS
<1>2. ASSUME NEW i \in 1..L PROVE head[i] \in Seq(U)
  <2>1. CASE HasDigits(text, i)
    <3>1. char(i) \in Reserved
      BY <2>1 DEF HasDigits
    <3> QED BY <2>1, <3>1
  <2>2. CASE ~HasDigits(text, i)
    BY <2>2
  <2> QED BY <2>1, <2>2
<1>3. head \in [1..L -> Seq(U)]
  BY <1>2
<1>4. jump \in [1..L -> Nat] /\ \A i \in 1..L : i < jump[i] /\ jump[i] <= L + 2
  BY <1>1
<1>5. PICK f \in [1..(L + 2) -> Seq(U)] : Scanned(L, 1, head, jump, f)
  <2> HIDE DEF head, jump, L, U
  <2> QED BY <1>1, <1>3, <1>4, ScanExists
<1>6. ASSUME NEW i \in 1..(L + 2)
      PROVE  f[i] = DecodeThere(text, f, i)
  <2>1. CASE i > L
    <3>1. i = L + 1 \/ i = L + 2
      BY <2>1, <1>1
    <3>2. f[i] = <<>>
      BY <3>1, <1>5 DEF Scanned
    <3> QED BY <2>1, <3>2 DEF DecodeThere
  <2>2. CASE ~(i > L)
    <3>1. i \in 1..L
      BY <2>2, <1>1
    <3>2. f[i] = head[i] \o f[jump[i]]
      BY <3>1, <1>5 DEF Scanned
    <3>3. CASE HasDigits(text, i)
      BY <3>1, <3>2, <3>3, <2>2 DEF DecodeThere
    <3>4. CASE ~HasDigits(text, i)
      BY <3>1, <3>2, <3>4, <2>2 DEF DecodeThere
    <3> QED BY <3>3, <3>4
  <2> QED BY <2>1, <2>2
<1>7. f = DecodeStep(text, f)
  <2>1. f = [i \in 1..(L + 2) |-> f[i]]
    OBVIOUS
  <2> QED BY <2>1, <1>6 DEF DecodeStep
<1> QED BY <1>7

(* The literal with its quotes doubled is read as the key it was made of:  *)
(* the mark of symbol i is the position its piece starts at.               *)
LEMMA QuotesReadBack ==
  ASSUME NEW S, NEW text \in Seq(S), NoRow[1] \notin S
  PROVE  DoubleQuotes(text) \in Seq(S) /\ ReadLiteral(DoubleQuotes(text)) = text
<1> DEFINE L == Len(text)
           piece == [i \in 1..L |-> QuotePiece(text[i])]
<1>0. L \in Nat /\ \A i \in 1..L : text[i] \in S
  OBVIOUS
<1>1. piece \in [1..L -> Seq(S)]
  <2>1. ASSUME NEW i \in 1..L PROVE QuotePiece(text[i]) \in Seq(S)
    BY <1>0 DEF QuotePiece
  <2> QED BY <2>1
<1>2. PICK join \in [0..L -> Seq(S)] : JoinedTo(L, piece, join)
  <2> HIDE DEF L, piece
  <2> QED BY <1>0, <1>1, JoinExists
<1> DEFINE e == join[L]
           at == [i \in 0..L |-> Len(join[i]) + 1]
<1>3. DoubleQuotes(text) = e
  <2>1. DoubleQuotes(text) = FlattenSeq(piece)
    BY QuotesJoin
  <2> HIDE DEF L, piece
  <2> QED BY <2>1, <1>0, <1>1, <1>2, FlattenIsJoin
<1>4. e \in Seq(S) /\ Len(e) \in Nat
  <2> HIDE DEF L, piece
  <2> QED BY <1>0
<1>5. PICK f : /\ f = ReadStep(e, f)
               /\ ReadLiteral(e) = IF NoRow[1] \in ToSet(f[1]) THEN NoRow ELSE f[1]
  <2> DEFINE U == S \cup {"'", NoRow[1]}
  <2>1. e \in Seq(U) /\ "'" \in U /\ NoRow[1] \in U
    <3> HIDE DEF e
    <3> QED BY <1>4
  <2> HIDE DEF U, e
  <2>2. \E f : f = ReadStep(e, f)
    BY <2>1, ReadExists
  <2> QED BY <2>2, ReadIsFixpoint
<1>6. f[at[L]] = <<>>
  <2>1. at[L] = Len(e) + 1 /\ at[L] \in 1..(Len(e) + 2)
    BY <1>0, <1>4
  <2> HIDE DEF e, at
  <2>2. f[at[L]] = ReadThere(e, f, at[L])
    BY <1>5, <2>1, ReadAt
  <2> QED BY <2>1, <2>2, <1>4 DEF ReadThere
<1>7. ASSUME NEW i \in 1..L
      PROVE  f[at[i - 1]] = <<text[i]>> \o f[at[i]]
  <2> DEFINE p == at[i - 1]
             n == Len(piece[i])
  <2>1. /\ i \in 0..L /\ i - 1 \in 0..L
        /\ join[i] \in Seq(S) /\ join[i - 1] \in Seq(S)
        /\ piece[i] = QuotePiece(text[i])
    <3>1. i \in 0..L /\ i - 1 \in 0..L
      BY <1>0
    <3>2. piece[i] = QuotePiece(text[i])
      OBVIOUS
    <3> HIDE DEF e, at, L, piece
    <3> QED BY <3>1, <3>2
  <2>2. /\ Len(join[i]) = Len(join[i - 1]) + n
        /\ Len(join[i]) <= Len(e)
        /\ \A m \in 1..n : e[Len(join[i - 1]) + m] = piece[i][m]
    <3> HIDE DEF L, piece, at
    <3>1. Placed(L, piece, join, i)
      BY <1>0, <1>1, <1>2, JoinPlaces
    <3> QED BY <3>1 DEF Placed
  <2>3. p = Len(join[i - 1]) + 1 /\ at[i] = Len(join[i - 1]) + n + 1 /\ p \in Nat
    BY <2>1, <2>2
  <2> HIDE DEF at, p, e, L
  <2>4. CASE text[i] = "'"
    <3>1. n = 2 /\ piece[i][1] = "'" /\ piece[i][2] = "'"
      BY <2>1, <2>4 DEF QuotePiece
    <3> HIDE DEF n, piece
    <3>2. p \in 1..Len(e) /\ p < Len(e) /\ p \in 1..(Len(e) + 2) /\ at[i] = p + 2
      BY <2>1, <2>2, <2>3, <3>1, <1>4
    <3>3. e[p] = "'" /\ e[p + 1] = "'"
      <4>1. Len(join[i - 1]) \in Nat /\ p + 1 = Len(join[i - 1]) + 2
        BY <2>1, <2>3
      <4> QED BY <2>2, <2>3, <3>1, <4>1
    <3>4. f[p] = <<"'">> \o f[p + 2]
      <4>1. f[p] = ReadThere(e, f, p)
        BY <1>5, <3>2, ReadAt
      <4> QED BY <4>1, <1>4, <3>2, <3>3 DEF ReadThere
    <3> QED BY <2>4, <3>2, <3>4 DEF p
  <2>5. CASE text[i] # "'"
    <3>1. n = 1 /\ piece[i][1] = text[i]
      BY <2>1, <2>5 DEF QuotePiece
    <3> HIDE DEF n, piece
    <3>2. p \in 1..Len(e) /\ p \in 1..(Len(e) + 2) /\ at[i] = p + 1
      BY <2>1, <2>2, <2>3, <3>1, <1>4
    <3>3. e[p] = text[i]
      BY <2>2, <2>3, <3>1
    <3>4. f[p] = <<text[i]>> \o f[p + 1]
      <4>1. f[p] = ReadThere(e, f, p)
        BY <1>5, <3>2, ReadAt
      <4> QED BY <4>1, <1>4, <3>2, <3>3, <2>5 DEF ReadThere
    <3> QED BY <3>2, <3>4 DEF p
  <2> QED BY <2>4, <2>5
<1>8. f[1] = text
  <2>1. join[0] = <<>> /\ 0 \in 0..L
    BY <1>0, <1>2 DEF JoinedTo
  <2>2. at[0] = 1
    BY <2>1
  <2> HIDE DEF at, e, piece
  <2>3. f[at[0]] = text
    BY <1>6, <1>7, ScanReads
  <2> QED BY <2>2, <2>3
<1>9. NoRow[1] \notin ToSet(text)
  BY <1>0 DEF ToSet
<1> HIDE DEF e
<1> QED BY <1>3, <1>4, <1>5, <1>8, <1>9

LEMMA HexDigits ==
  /\ \A c \in Reserved : Hex[c] \notin Reserved
  /\ \A c, d \in Reserved : Hex[c] = Hex[d] => c = d
  /\ "%" \in Reserved /\ "/" \in Reserved /\ "'" \in Reserved
BY DEF Reserved, Hex

(* The escaped text decodes to the text it was made of, and holds no       *)
(* reserved character but the percent sign.                                *)
LEMMA EscapesReadBack ==
  ASSUME NEW S, NEW text \in Seq(S)
  PROVE  /\ PercentDecode(PercentEncode(text)) = text
         /\ PercentEncode(text) \in Seq((S \ Reserved) \cup {"%"} \cup {Hex[c] : c \in Reserved})
<1> DEFINE L == Len(text)
           piece == [i \in 1..L |-> EscapePiece(text[i])]
           V == (S \ Reserved) \cup {"%"} \cup {Hex[c] : c \in Reserved}
<1>0. L \in Nat /\ \A i \in 1..L : text[i] \in S
  OBVIOUS
<1>1. piece \in [1..L -> Seq(V)]
  <2>1. ASSUME NEW i \in 1..L PROVE EscapePiece(text[i]) \in Seq(V)
    <3>1. CASE text[i] \in Reserved
      <4>1. Hex[text[i]] \in V /\ "%" \in V
        BY <3>1
      <4> HIDE DEF V
      <4> QED BY <3>1, <4>1 DEF EscapePiece
    <3>2. CASE text[i] \notin Reserved
      <4>1. text[i] \in V
        BY <3>2, <1>0
      <4> HIDE DEF V
      <4> QED BY <3>2, <4>1 DEF EscapePiece
    <3> QED BY <3>1, <3>2
  <2> HIDE DEF V
  <2> QED BY <2>1
<1> HIDE DEF V
<1>2. PICK join \in [0..L -> Seq(V)] : JoinedTo(L, piece, join)
  <2> HIDE DEF L, piece
  <2> QED BY <1>0, <1>1, JoinExists
<1> DEFINE e == join[L]
           at == [i \in 0..L |-> Len(join[i]) + 1]
<1>3. PercentEncode(text) = e
  <2>1. PercentEncode(text) = FlattenSeq(piece)
    BY EscapesJoin
  <2> HIDE DEF L, piece
  <2> QED BY <2>1, <1>0, <1>1, <1>2, FlattenIsJoin
<1>4. e \in Seq(V) /\ Len(e) \in Nat
  <2> HIDE DEF L, piece
  <2> QED BY <1>0
<1>5. PICK f : f = DecodeStep(e, f) /\ PercentDecode(e) = f[1]
  <2> HIDE DEF e
  <2>1. \E f : f = DecodeStep(e, f)
    BY <1>4, DecodeExists
  <2> QED BY <2>1, DecodeIsFixpoint
<1>6. f[at[L]] = <<>>
  <2>1. at[L] = Len(e) + 1 /\ at[L] \in 1..(Len(e) + 2)
    BY <1>0, <1>4
  <2> HIDE DEF e, at
  <2>2. f[at[L]] = DecodeThere(e, f, at[L])
    BY <1>5, <2>1, DecodeAt
  <2> QED BY <2>1, <2>2, <1>4 DEF DecodeThere
<1>7. ASSUME NEW i \in 1..L
      PROVE  f[at[i - 1]] = <<text[i]>> \o f[at[i]]
  <2> DEFINE p == at[i - 1]
             n == Len(piece[i])
  <2>1. /\ i \in 0..L /\ i - 1 \in 0..L
        /\ join[i] \in Seq(V) /\ join[i - 1] \in Seq(V)
        /\ piece[i] = EscapePiece(text[i])
    <3>1. i \in 0..L /\ i - 1 \in 0..L
      BY <1>0
    <3>2. piece[i] = EscapePiece(text[i])
      OBVIOUS
    <3> HIDE DEF e, at, L, piece
    <3> QED BY <3>1, <3>2
  <2>2. /\ Len(join[i]) = Len(join[i - 1]) + n
        /\ Len(join[i]) <= Len(e)
        /\ \A m \in 1..n : e[Len(join[i - 1]) + m] = piece[i][m]
    <3> HIDE DEF L, piece, at
    <3>1. Placed(L, piece, join, i)
      BY <1>0, <1>1, <1>2, JoinPlaces
    <3> QED BY <3>1 DEF Placed
  <2>3. p = Len(join[i - 1]) + 1 /\ at[i] = Len(join[i - 1]) + n + 1 /\ p \in Nat
    BY <2>1, <2>2
  <2> HIDE DEF at, p, e, L
  <2>4. CASE text[i] \in Reserved
    <3>1. n = 2 /\ piece[i][1] = "%" /\ piece[i][2] = Hex[text[i]]
      BY <2>1, <2>4 DEF EscapePiece
    <3> HIDE DEF n, piece
    <3>2. p \in 1..Len(e) /\ p < Len(e) /\ p \in 1..(Len(e) + 2) /\ at[i] = p + 2
      BY <2>1, <2>2, <2>3, <3>1, <1>4
    <3>3. e[p] = "%" /\ e[p + 1] = Hex[text[i]]
      <4>1. Len(join[i - 1]) \in Nat /\ p + 1 = Len(join[i - 1]) + 2
        BY <2>1, <2>3
      <4> QED BY <2>2, <2>3, <3>1, <4>1
    <3>4. HasDigits(e, p)
      BY <3>2, <3>3, <2>4 DEF HasDigits
    <3>5. (CHOOSE c \in Reserved : Hex[c] = e[p + 1]) = text[i]
      BY <3>3, <2>4, HexDigits
    <3>6. f[p] = <<text[i]>> \o f[p + 2]
      <4>1. f[p] = DecodeThere(e, f, p)
        BY <1>5, <3>2, DecodeAt
      <4>2. f[p] = <<CHOOSE c \in Reserved : Hex[c] = e[p + 1]>> \o f[p + 2]
        BY <4>1, <1>4, <3>2, <3>4 DEF DecodeThere
      <4> QED BY <4>2, <3>5
    <3> QED BY <3>2, <3>6 DEF p
  <2>5. CASE text[i] \notin Reserved
    <3>1. n = 1 /\ piece[i][1] = text[i]
      BY <2>1, <2>5 DEF EscapePiece
    <3> HIDE DEF n, piece
    <3>2. p \in 1..Len(e) /\ p \in 1..(Len(e) + 2) /\ at[i] = p + 1
      BY <2>1, <2>2, <2>3, <3>1, <1>4
    <3>3. e[p] = text[i]
      BY <2>2, <2>3, <3>1
    <3>4. ~HasDigits(e, p)
      BY <3>3, <2>5, HexDigits DEF HasDigits
    <3>5. f[p] = <<text[i]>> \o f[p + 1]
      <4>1. f[p] = DecodeThere(e, f, p)
        BY <1>5, <3>2, DecodeAt
      <4> QED BY <4>1, <1>4, <3>2, <3>3, <3>4 DEF DecodeThere
    <3> QED BY <3>2, <3>5 DEF p
  <2> QED BY <2>4, <2>5
<1>8. f[1] = text
  <2>1. join[0] = <<>> /\ 0 \in 0..L
    BY <1>0, <1>2 DEF JoinedTo
  <2>2. at[0] = 1
    BY <2>1
  <2> HIDE DEF at, e, piece
  <2>3. f[at[0]] = text
    BY <1>6, <1>7, ScanReads
  <2> QED BY <2>2, <2>3
<1> HIDE DEF e
<1> QED BY <1>3, <1>4, <1>5, <1>8 DEF V

(* _encode_odata_string_value and _build_entity_url, with quotes doubled    *)
(* before the escapes are made: whatever characters a business key is made *)
(* of and however long it is, the URL it becomes part of names the row of  *)
(* that key, and so no row of another.                                     *)
THEOREM EveryKeyNamesItsRow ==
  ASSUME NEW Characters, NoRow[1] \notin Characters,
         NEW key \in Seq(Characters)
  PROVE  RowNamed(EntityUrl(key)) = key
<1> DEFINE quoted == DoubleQuotes(key)
           e == PercentEncode(quoted)
           url == EntityUrl(key)
           literal == SubSeq(url, 2, Len(url) - 1)
           V == (Characters \ Reserved) \cup {"%"} \cup {Hex[c] : c \in Reserved}
<1>1. quoted \in Seq(Characters) /\ ReadLiteral(quoted) = key
  BY QuotesReadBack
<1>2. PercentDecode(e) = quoted /\ e \in Seq(V)
  <2> HIDE DEF quoted
  <2> QED BY <1>1, EscapesReadBack
<1>3. "/" \notin V
  BY HexDigits
<1> HIDE DEF V
<1>4. "/" \notin ToSet(e)
  BY <1>2, <1>3 DEF ToSet
<1>5. url = <<"set(key='">> \o e \o <<"')">>
  BY DEF EntityUrl, Encoded
<1> HIDE DEF quoted, e, url
<1>6. literal = e
  BY <1>2, <1>5
<1> HIDE DEF literal
<1>7. RowNamed(url) = ReadLiteral(PercentDecode(literal))
  BY <1>4, <1>6 DEF RowNamed, literal
<1> QED BY <1>1, <1>2, <1>6, <1>7 DEF url

LEMMA KeysNameTheirRows == \A k \in Keys : RowOf[k] = k
<1>1. NoRow[1] \notin Symbols
  BY DEF NoRow, Symbols, Reserved, Unescaped
<1>2. ASSUME NEW k \in Keys PROVE RowNamed(EntityUrl(k)) = k
  <2>1. k \in Seq(Symbols)
    BY RunAssumption
  <2> QED BY <1>1, <2>1, EveryKeyNamesItsRow
<1> QED BY <1>2 DEF RowOf

-----------------------------------------------------------------------------
Early == {"settings", "client", "token", "load"}
EarlyErrors == {"Configuration error", "Source error", "Data validation error"}

(* The strengthening.                                                      *)
PhaseInv ==
    /\ phase # "sync" => rows = {}
    /\ phase = "sync" => rows = Keys /\ records \in [Keys -> Versions]
    /\ phase # "idle" => exit = "none" /\ message = "none"

NothingWritten ==
    /\ \A q \in net : q.late
    /\ \A t \in DOMAIN dest : dest[t].by # "this run"

WireInv ==
    /\ \A q \in net : q.late \/ (q.of \in DOMAIN records /\ q.version = records[q.of])
    /\ phase \in Early \/ message \in EarlyErrors => NothingWritten

CallInv ==
    /\ With("skipped") # {} => With("failed") # {}
    /\ report.kind = "returned" =>
          /\ \A k \in rows : outcome[k] \in Counted
          /\ report.tally["failed"] = Cardinality(With("failed"))

Stored(k) ==
    /\ k \in DOMAIN dest
    /\ \/ dest[k].by = "this run" /\ dest[k].version = records[k]
       \/ dest[k].by = "a late PATCH"

StoredInv ==
    /\ \A k \in rows : outcome[k] \in {"created", "updated"} => Stored(k)
    /\ \A k \in DOMAIN calls : calls[k] = "applied" => Stored(k)
    /\ exit = "0" => \A k \in DOMAIN records : Stored(k)

-----------------------------------------------------------------------------
(* The steps, by what they do to a run.                                    *)
Clauses == {"Configuration error", "Authentication error", "Source error",
            "Data validation error", "Unexpected error"}

LEMMA ClauseIs ==
  /\ \A error : Clause(error) \in Clauses
  /\ Clause("AuthenticationError") \notin EarlyErrors
  /\ Clause("RetryError") \notin EarlyErrors
BY Zenon DEF Clause, Clauses, EarlyErrors

Ahead ==
    /\ phase \in Early /\ phase' \in Early
    /\ UNCHANGED <<syncVars, world, records, exit, message, wire>>

Loaded ==
    /\ phase = "load" /\ feed.status = "good"
    /\ phase' = "sync" /\ records' = feed.rows
    /\ BeginAnew(Keys)
    /\ UNCHANGED <<world, exit, message, wire>>

Leave(texts) == \E text \in texts : Exit("1", text)

LEMMA PhaseSteps ==
  ASSUME LoadSettings \/ BuildClient \/ AcquireToken \/ LoadRecords \/ SyncRaised
  PROVE  \/ Ahead \/ Loaded
         \/ phase \in Early /\ Leave(Clauses)
         \/ phase = "sync" /\ Leave(Clauses \ EarlyErrors)
<1>1. ASSUME NEW error, Raise(error)
      PROVE  Leave(Clauses)
  BY <1>1, ClauseIs DEF Raise, Leave
<1>2. ASSUME NEW from \in Early, NEW to \in Early, NEW errors, Advance(from, to, errors)
      PROVE  Ahead \/ (phase \in Early /\ Leave(Clauses))
  BY <1>1, <1>2 DEF Advance, Ahead
<1>3. CASE LoadSettings \/ BuildClient \/ AcquireToken
  BY <1>2, <1>3 DEF LoadSettings, BuildClient, AcquireToken, Early
<1>4. CASE LoadRecords
  BY <1>1, <1>4 DEF LoadRecords, Loaded, Early
<1>5. CASE SyncRaised
  BY <1>5, ClauseIs DEF SyncRaised, Raise, Leave
<1> QED
  BY <1>3, <1>4, <1>5
-----------------------------------------------------------------------------
(* Types and phases.                                                       *)
LEMMA CountIsTyped ==
  ASSUME NEW o, rows = {} \/ rows = Keys
  PROVE  /\ IsFiniteSet(With(o))
         /\ Cardinality(With(o)) \in 0..Cardinality(Keys)
<1>1. IsFiniteSet(Keys) /\ With(o) \subseteq Keys
  BY RunAssumption DEF With
<1> QED
  BY <1>1, FS_Subset, FS_CardinalityType

LEMMA NoTallyTyped == NoTally \in [Counted -> 0..Cardinality(Keys)]
<1>1. Cardinality(Keys) \in Nat
  BY RunAssumption, FS_CardinalityType
<1> QED
  BY <1>1 DEF NoTally

LEMMA PatchMadeLate ==
  ASSUME NEW q \in Requests
  PROVE  /\ [q EXCEPT !.late = TRUE] \in Requests
         /\ [q EXCEPT !.late = TRUE].late
         /\ [q EXCEPT !.late = TRUE].of = q.of
         /\ [q EXCEPT !.late = TRUE].version = q.version
BY DEF Requests

LEMMA NewRunGives ==
  ASSUME TypeOK, NewRun
  PROVE  /\ calls' = [k \in {} |-> "open"]
         /\ net' \subseteq Requests /\ \A q \in net' : q.late
         /\ DOMAIN dest' = DOMAIN dest
         /\ \A t \in DOMAIN dest' : /\ dest'[t] \in [of : Keys, version : Versions, by : Writers]
                                   /\ dest'[t].by = "a run before" /\ dest'[t].of = dest[t].of
                                   /\ dest'[t].version = dest[t].version
         /\ \A q \in net' : \E r \in net : q.of = r.of /\ q.version = r.version
<1>1. net' = {[q EXCEPT !.late = TRUE] : q \in net} /\ net \subseteq Requests
  BY DEF NewRun, TypeOK
<1>2. net' \subseteq Requests /\ \A q \in net' : q.late
  BY <1>1, PatchMadeLate
<1>3. ASSUME NEW q \in net'
      PROVE  \E r \in net : q.of = r.of /\ q.version = r.version
  <2>1. PICK r \in net : q = [r EXCEPT !.late = TRUE]
    BY <1>1
  <2> QED
    BY <1>1, <2>1, PatchMadeLate
<1>4. DOMAIN dest' = DOMAIN dest
      /\ \A t \in DOMAIN dest : dest'[t] = [dest[t] EXCEPT !.by = "a run before"]
  BY DEF NewRun
<1>5. ASSUME NEW t \in DOMAIN dest
      PROVE  /\ dest'[t] \in [of : Keys, version : Versions, by : Writers]
             /\ dest'[t].by = "a run before" /\ dest'[t].of = dest[t].of
             /\ dest'[t].version = dest[t].version
  BY <1>4, <1>5 DEF TypeOK, Writers
<1> QED
  BY <1>2, <1>3, <1>4, <1>5 DEF NewRun, NoCalls

LEMMA MayDropShrinks ==
  ASSUME NEW ks, MayDrop(ks)
  PROVE  net' \subseteq net
BY DEF MayDrop

LEMMA DeliverGives ==
  ASSUME TypeOK, NEW q \in net, NEW t, Deliver(q, t)
  PROVE  /\ net' \subseteq net
         /\ DOMAIN dest' = DOMAIN dest \cup {t}
         /\ \A u \in DOMAIN dest' : u # t => dest'[u] = dest[u]
         /\ dest'[t].of = q.of /\ dest'[t].version = q.version
         /\ dest'[t].by = IF q.late THEN "a late PATCH" ELSE "this run"
         /\ DOMAIN calls' = DOMAIN calls
         /\ \A k \in DOMAIN calls :
            calls'[k] = calls[k] \/ (k = q.of /\ ~q.late /\ calls'[k] = "applied")
<1> DEFINE row == [of |-> q.of, version |-> q.version,
                   by |-> IF q.late THEN "a late PATCH" ELSE "this run"]
<1>1. dest' = [u \in DOMAIN dest \cup {t} |-> IF u = t THEN row ELSE dest[u]]
  BY DEF Deliver
<1>2. /\ row.of = q.of /\ row.version = q.version
      /\ row.by = IF q.late THEN "a late PATCH" ELSE "this run"
  OBVIOUS
<1> HIDE DEF row
<1>3. DOMAIN dest' = DOMAIN dest \cup {t} /\ dest'[t] = row
      /\ \A u \in DOMAIN dest' : u # t => dest'[u] = dest[u]
  BY <1>1
<1>4. /\ net' \subseteq net /\ DOMAIN calls' = DOMAIN calls
      /\ \A k \in DOMAIN calls :
            calls'[k] = calls[k] \/ (k = q.of /\ ~q.late /\ calls'[k] = "applied")
  BY DEF Deliver
<1> QED
  BY <1>2, <1>3, <1>4

LEMMA BecomeKeepsWith ==
  ASSUME TypeOK, NEW k \in rows, NEW o, Become(k, o)
  PROVE  /\ report'.kind # "returned" /\ rows' = rows
         /\ outcome'[k] = o /\ \A j \in rows : j # k => outcome'[j] = outcome[j]
BY DEF Become, TypeOK

LEMMA TypeInit == Init => TypeOK /\ PhaseInv
<1> SUFFICES ASSUME Init PROVE TypeOK /\ PhaseInv
  OBVIOUS
<1>1. rows = {} /\ outcome = [r \in {} |-> "none"] /\ report = [kind |-> "none", tally |-> NoTally]
  BY DEF Init, Begin, Unreported
<1>2. DOMAIN <<>> = {}
  OBVIOUS
<1>3. edits \in 0..MaxEdits
  BY RunAssumption DEF Init
<1>4. calls = [k \in {} |-> "open"] /\ net = {} /\ DOMAIN dest = {}
  BY DEF Init, DeliveryInit, NoCalls, NoRows
<1> QED
  BY <1>1, <1>2, <1>3, <1>4, NoTallyTyped DEF Init, TypeOK, PhaseInv

LEMMA TypeStep ==
  ASSUME TypeOK, PhaseInv, [Next]_vars
  PROVE  TypeOK' /\ PhaseInv'
<1> DEFINE Type == TypeOK /\ PhaseInv
<1> SUFFICES Type'
  OBVIOUS
<1>0. ASSUME NEW code \in {"0", "1", "killed"}, NEW text, Exit(code, text)
      PROVE  Type'
  <2>1. /\ rows' = {} /\ outcome' = [r \in {} |-> "none"]
        /\ report' = [kind |-> "none", tally |-> NoTally]
        /\ phase' = "idle" /\ exit' = code /\ calls' = [k \in {} |-> "open"]
        /\ UNCHANGED <<feed, edits, records, dest>> /\ net' \subseteq net
    BY <1>0, MayDropShrinks DEF Exit, BeginAnew, Unreported, world, EndCalls, NoCalls
  <2> QED
    BY <2>1, NoTallyTyped DEF TypeOK, PhaseInv
<1>1. CASE EditFeed
  <2>1. edits \in 0..MaxEdits /\ MaxEdits \in Nat
    BY RunAssumption DEF TypeOK
  <2>2. edits < MaxEdits /\ edits' = edits + 1
    BY <1>1 DEF EditFeed
  <2>3. edits' \in 0..MaxEdits
    BY <2>1, <2>2
  <2> QED
    BY <1>1, <2>3 DEF EditFeed, TypeOK, PhaseInv, syncVars, run, wire
<1>2. CASE Start
  <2>1. /\ rows = {} /\ phase' = "settings" /\ exit' = "none" /\ message' = "none"
        /\ records' = <<>>
        /\ UNCHANGED <<rows, outcome, report, feed, edits>>
    BY <1>2 DEF Start, PhaseInv, syncVars, world
  <2>2. /\ calls' = [k \in {} |-> "open"] /\ net' \subseteq Requests
        /\ \A t \in DOMAIN dest' : dest'[t] \in [of : Keys, version : Versions, by : Writers]
    BY <1>2, NewRunGives DEF Start
  <2> QED
    BY <2>1, <2>2 DEF TypeOK, PhaseInv
<1>3. CASE Ahead
  BY <1>3 DEF Ahead, Early, TypeOK, PhaseInv, syncVars, world, wire
<1>4. CASE Loaded
  <2>1. /\ records' \in [Keys -> Versions] /\ rows' = Keys /\ outcome' = [k \in Keys |-> "none"]
        /\ report' = [kind |-> "none", tally |-> NoTally] /\ rows = {}
        /\ phase' = "sync" /\ exit' = "none" /\ message' = "none"
        /\ UNCHANGED <<feed, edits, wire>>
    BY <1>4 DEF Loaded, BeginAnew, Unreported, TypeOK, PhaseInv, Feeds, world
  <2>2. DOMAIN records' = Keys
    BY <2>1
  <2> QED
    BY <2>1, <2>2, NoTallyTyped DEF TypeOK, PhaseInv, wire
<1>5. CASE \E texts : Leave(texts)
  BY <1>0, <1>5 DEF Leave
<1>6. ASSUME NEW k \in rows, NEW o \in Counted \cup {"sent", "raised"}, Become(k, o),
             UNCHANGED <<world, run, dest>>,
             net' \subseteq Requests,
             calls' \in [{j \in rows : outcome'[j] \notin {"none", "skipped"}} -> Standings]
      PROVE  Type'
  BY <1>6 DEF Become, TypeOK, PhaseInv, world, run
<1>7. ASSUME NEW k \in rows, SendRecord(k)
      PROVE  Type'
  <2>1. Patch(k, records[k]) \in Requests
    BY <1>7 DEF SendRecord, PhaseInv, Patch, Requests
  <2>2. net' \subseteq Requests /\ UNCHANGED <<world, run, dest>> /\ Become(k, "sent")
    BY <1>7, <2>1 DEF SendRecord, Send, OpenCall, TypeOK
  <2>3. calls' \in [{j \in rows : outcome'[j] \notin {"none", "skipped"}} -> Standings]
    <3>1. /\ DOMAIN calls = {j \in rows : outcome[j] \notin {"none", "skipped"}}
          /\ \A j \in DOMAIN calls : calls[j] \in Standings
      BY DEF TypeOK
    <3>2. {j \in rows : outcome'[j] \notin {"none", "skipped"}} = DOMAIN calls \cup {k}
      BY <2>2, <3>1, BecomeKeepsWith
    <3> QED
      BY <1>7, <3>1, <3>2 DEF SendRecord, OpenCall, Standings
  <2> QED
    BY <1>6, <2>2, <2>3
<1>8. ASSUME NEW k \in rows, SkipRecord(k)
      PROVE  Type'
  <2>1. Become(k, "skipped") /\ outcome[k] = "none" /\ UNCHANGED <<world, run, wire>>
    BY <1>8 DEF SkipRecord, Skip
  <2>2. {j \in rows : outcome'[j] \notin {"none", "skipped"}}
            = {j \in rows : outcome[j] \notin {"none", "skipped"}}
    BY <2>1, BecomeKeepsWith
  <2>3. calls' \in [{j \in rows : outcome'[j] \notin {"none", "skipped"}} -> Standings]
    BY <2>1, <2>2 DEF TypeOK, wire
  <2> QED
    BY <1>6, <2>1, <2>3 DEF TypeOK, Counted, wire
<1>9. ASSUME NEW k \in rows, NEW o \in Answers, SettleRecord(k, o)
      PROVE  Type'
  <2>1. /\ Become(k, o) /\ outcome[k] = "sent" /\ UNCHANGED <<world, run, dest>>
        /\ calls' = [calls EXCEPT ![k] = Standing(o)] /\ net' \subseteq net
    BY <1>9, MayDropShrinks DEF SettleRecord, Settle, EndCall
  <2>2. {j \in rows : outcome'[j] \notin {"none", "skipped"}}
            = {j \in rows : outcome[j] \notin {"none", "skipped"}}
    BY <2>1, BecomeKeepsWith DEF Answers
  <2>3. calls' \in [{j \in rows : outcome'[j] \notin {"none", "skipped"}} -> Standings]
    BY <2>1, <2>2 DEF TypeOK, Standing, Standings
  <2> QED
    BY <1>6, <2>1, <2>3 DEF TypeOK, Answers, Counted
<1>10. CASE EndSync
  <2>1. rows = {} \/ rows = Keys
    BY DEF PhaseInv
  <2>2. [k \in Counted |-> Cardinality(With(k))] \in [Counted -> 0..Cardinality(Keys)]
    BY <2>1, CountIsTyped
  <2>3. PICK kind \in {"returned", "raised"}, tally \in [Counted -> 0..Cardinality(Keys)] :
          report' = [kind |-> kind, tally |-> tally]
    BY <1>10, <2>2, NoTallyTyped DEF EndSync, Return, Abort, Report
  <2>4. UNCHANGED <<rows, outcome, feed, edits, phase, records, exit, message, wire>>
    BY <1>10 DEF EndSync, Return, Abort, Report, world, run
  <2> QED
    BY <2>3, <2>4 DEF TypeOK, PhaseInv, wire
<1>11. CASE Finish
  BY <1>0, <1>11 DEF Finish, ExitCode
<1>12. CASE Kill
  BY <1>0, <1>12 DEF Kill
<1>13. ASSUME NEW q \in net, Apply(q)
      PROVE  Type'
  <2>1. /\ UNCHANGED <<rows, outcome, report, feed, edits, phase, records, exit, message>>
        /\ Deliver(q, RowOf[q.of]) /\ q \in Requests
    BY <1>13 DEF Apply, syncVars, world, run, TypeOK
  <2>2. calls' \in [{k \in rows : outcome[k] \notin {"none", "skipped"}} -> Standings]
    BY <2>1 DEF Deliver, TypeOK, Standings
  <2>3. /\ net' \subseteq net
        /\ \A t \in DOMAIN dest' : dest'[t] \in [of : Keys, version : Versions, by : Writers]
    BY <2>1 DEF Deliver, TypeOK, Requests, Writers
  <2> QED
    BY <2>1, <2>2, <2>3 DEF TypeOK, PhaseInv
<1>14. ASSUME NEW q \in net, Lose(q)
      PROVE  Type'
  BY <1>14 DEF Lose, Vanish, TypeOK, PhaseInv, syncVars, world, run
<1>15. CASE UNCHANGED vars
  BY <1>15 DEF vars, TypeOK, PhaseInv, syncVars, world, run, wire
<1> HIDE DEF Type
<1>16. CASE LoadSettings \/ BuildClient \/ AcquireToken \/ LoadRecords \/ SyncRaised
  BY PhaseSteps, <1>3, <1>4, <1>5, <1>16
<1> QED
  BY <1>1, <1>2, <1>7, <1>8, <1>9, <1>10, <1>11, <1>12, <1>13, <1>14, <1>15, <1>16 DEF Next

LEMMA TypeInvariant == Spec => [](TypeOK /\ PhaseInv)
BY TypeInit, TypeStep, PTL DEF Spec

-----------------------------------------------------------------------------
(* Requests under way carry the records of this run or are marked late,    *)
(* and nothing is written before the records are loaded.                   *)
LEMMA WireStep ==
  ASSUME TypeOK, PhaseInv, WireInv, [Next]_vars
  PROVE  WireInv'
<1> SUFFICES WireInv'
  OBVIOUS
<1>0. ASSUME NEW code, NEW text, Exit(code, text), phase \in Early \/ text \notin EarlyErrors
      PROVE  WireInv'
  <2>1. net' \subseteq net /\ UNCHANGED <<records, dest>> /\ phase' = "idle" /\ message' = text
    BY <1>0, MayDropShrinks DEF Exit, EndCalls
  <2> QED
    BY <1>0, <2>1 DEF WireInv, NothingWritten, Early
<1>1. ASSUME net' \subseteq net, UNCHANGED <<records, dest>>,
             (phase' \in Early \/ message' \in EarlyErrors) => (phase \in Early \/ message \in EarlyErrors)
      PROVE  WireInv'
  BY <1>1 DEF WireInv, NothingWritten
<1>2. CASE EditFeed
  BY <1>1, <1>2 DEF EditFeed, run, wire
<1>3. CASE Start
  <2>1. (\A q \in net' : q.late) /\ \A t \in DOMAIN dest' : dest'[t].by = "a run before"
    BY <1>3, NewRunGives DEF Start
  <2> QED
    BY <2>1 DEF WireInv, NothingWritten
<1>4. CASE Ahead
  BY <1>1, <1>4 DEF Ahead, wire
<1>5. CASE Loaded
  BY <1>5 DEF Loaded, WireInv, NothingWritten, PhaseInv, Early, EarlyErrors, wire
<1>6. CASE phase \in Early /\ Leave(Clauses)
  BY <1>0, <1>6 DEF Leave
<1>7. CASE phase = "sync" /\ Leave(Clauses \ EarlyErrors)
  BY <1>0, <1>7 DEF Leave
<1>8. CASE Finish \/ Kill
  BY <1>0, <1>8 DEF Finish, Kill, EarlyErrors
<1>9. ASSUME NEW k \in rows, SendRecord(k)
      PROVE  WireInv'
  <2>1. /\ phase = "sync" /\ phase' = "sync" /\ message' = message /\ message = "none"
        /\ records' = records /\ net' = net \cup {Patch(k, records[k])} /\ k \in DOMAIN records
    BY <1>9 DEF SendRecord, OpenCall, run, PhaseInv
  <2> QED
    BY <2>1 DEF WireInv, Patch, Early, EarlyErrors
<1>10. ASSUME NEW k \in rows, SkipRecord(k) \/ \E o \in Answers : SettleRecord(k, o)
       PROVE  WireInv'
  BY <1>1, <1>10, MayDropShrinks DEF SkipRecord, SettleRecord, EndCall, run, wire
<1>11. CASE EndSync
  BY <1>1, <1>11 DEF EndSync, run, wire
<1>12. ASSUME NEW q \in net, Apply(q)
       PROVE  WireInv'
  <2>1. /\ UNCHANGED <<phase, records, message>> /\ net' \subseteq net
        /\ \A t \in DOMAIN dest' : (t \in DOMAIN dest /\ dest'[t] = dest[t])
                                     \/ dest'[t].by = (IF q.late THEN "a late PATCH" ELSE "this run")
    <3>1. Deliver(q, RowOf[q.of])
      BY <1>12 DEF Apply
    <3> HIDE DEF RowOf
    <3>2. UNCHANGED <<phase, records, message>>
      BY <1>12 DEF Apply, run
    <3>3. /\ net' \subseteq net /\ DOMAIN dest' = DOMAIN dest \cup {RowOf[q.of]}
          /\ \A u \in DOMAIN dest' : u # RowOf[q.of] => dest'[u] = dest[u]
          /\ dest'[RowOf[q.of]].by = IF q.late THEN "a late PATCH" ELSE "this run"
      BY <3>1, DeliverGives
    <3> QED
      BY <3>2, <3>3
  <2> QED
    BY <2>1 DEF WireInv, NothingWritten
<1>13. ASSUME NEW q \in net, Lose(q)
       PROVE  WireInv'
  BY <1>13 DEF Lose, Vanish, run, WireInv, NothingWritten
<1>14. CASE UNCHANGED vars
  BY <1>1, <1>14 DEF vars, run, wire
<1>15. CASE LoadSettings \/ BuildClient \/ AcquireToken \/ LoadRecords \/ SyncRaised
  BY PhaseSteps, <1>4, <1>5, <1>6, <1>7, <1>15
<1> QED
  BY <1>2, <1>3, <1>8, <1>9, <1>10, <1>11, <1>12, <1>13, <1>14, <1>15 DEF Next

(* A run that reports a configuration, source or data error has written    *)
(* nothing and leaves nothing under way.                                   *)
THEOREM EarlyErrorsAreHarmless == Spec => []EarlyErrorsWriteNothing
<1>1. Init => WireInv
  BY DEF Init, DeliveryInit, NoRows, WireInv, NothingWritten, Early, EarlyErrors
<1>2. TypeOK /\ PhaseInv /\ WireInv /\ [Next]_vars => WireInv'
  BY WireStep
<1>3. WireInv => EarlyErrorsWriteNothing
  BY DEF WireInv, NothingWritten, EarlyErrorsWriteNothing, EarlyErrors
<1> QED
  BY <1>1, <1>2, <1>3, TypeInvariant, PTL DEF Spec

-----------------------------------------------------------------------------
(* What the tally of a returned call says of its rows.                     *)
LEMMA CallStep ==
  ASSUME TypeOK, CallInv, [Next]_vars
  PROVE  CallInv'
<1> SUFFICES CallInv'
  OBVIOUS
<1>0. ASSUME NEW R, BeginAnew(R)
      PROVE  CallInv'
  <2>1. /\ report'.kind # "returned" /\ \A r \in rows' : outcome'[r] = "none"
    BY <1>0 DEF BeginAnew, Unreported
  <2> QED
    BY <2>1 DEF CallInv, With
<1>1. CASE UNCHANGED syncVars
  BY <1>1 DEF syncVars, CallInv, With
<1>2. ASSUME NEW k \in rows, NEW o, Become(k, o), outcome[k] # "failed",
             o = "skipped" => With("failed") # {}
      PROVE  CallInv'
  BY <1>2, BecomeKeepsWith DEF CallInv, With
<1>3. ASSUME NEW k \in rows, Send(k)
      PROVE  CallInv'
  BY <1>2, <1>3 DEF Send
<1>4. ASSUME NEW k \in rows, Skip(k)
      PROVE  CallInv'
  <2>1. With("failed") # {}
    <3>1. Cardinality(With("failed")) >= Limit /\ Limit \in Nat \ {0}
      BY <1>4, LimitAssumption DEF Skip
    <3> QED
      BY <3>1, FS_EmptySet
  <2> QED
    BY <1>2, <1>4, <2>1 DEF Skip
<1>5. ASSUME NEW k \in rows, NEW o \in Answers, Settle(k, o)
      PROVE  CallInv'
  BY <1>2, <1>5 DEF Settle, Answers
<1>6. CASE Return
  <2>1. /\ \A r \in rows : outcome[r] \in Counted
        /\ report'.tally = [c \in Counted |-> Cardinality(With(c))]
        /\ rows' = rows /\ outcome' = outcome
    BY <1>6 DEF Return, Report
  <2>2. report'.tally["failed"] = Cardinality(With("failed"))
    BY <2>1 DEF Counted
  <2> QED
    BY <2>1, <2>2 DEF CallInv, With
<1>7. CASE Abort
  BY <1>7 DEF Abort, Report, CallInv, With
<1>8. ASSUME NEW code, NEW text, Exit(code, text)
      PROVE  CallInv'
  BY <1>0, <1>8 DEF Exit
<1>9. CASE LoadSettings \/ BuildClient \/ AcquireToken \/ LoadRecords \/ SyncRaised
  <2>1. CASE Ahead
    BY <1>1, <2>1 DEF Ahead
  <2>2. CASE Loaded
    BY <1>0, <2>2 DEF Loaded
  <2>3. CASE \E texts : Leave(texts)
    BY <1>8, <2>3 DEF Leave
  <2> QED
    BY PhaseSteps, <1>9, <2>1, <2>2, <2>3
<1>10. CASE EditFeed \/ Start \/ UNCHANGED vars
  BY <1>1, <1>10 DEF EditFeed, Start, vars
<1>11. ASSUME NEW k \in rows,
              SendRecord(k) \/ SkipRecord(k) \/ \E o \in Answers : SettleRecord(k, o)
       PROVE  CallInv'
  BY <1>3, <1>4, <1>5, <1>11 DEF SendRecord, SkipRecord, SettleRecord
<1>12. CASE EndSync
  BY <1>6, <1>7, <1>12 DEF EndSync
<1>13. CASE Finish \/ Kill
  BY <1>8, <1>13 DEF Finish, Kill
<1>14. ASSUME NEW q \in net, Apply(q) \/ Lose(q)
       PROVE  CallInv'
  BY <1>1, <1>14 DEF Apply, Lose
<1> QED
  BY <1>9, <1>10, <1>11, <1>12, <1>13, <1>14 DEF Next

-----------------------------------------------------------------------------
(* An accepted record stays stored for the rest of its run.                *)
LEMMA ApplyStores ==
  ASSUME TypeOK, WireInv, NEW q \in net, Apply(q), NEW k \in DOMAIN records,
         Stored(k) \/ q.of = k
  PROVE  Stored(k)'
<1>1. /\ q.of \in Keys /\ RowOf[q.of] = q.of
  BY KeysNameTheirRows DEF TypeOK, Requests
<1>2. /\ records' = records /\ DOMAIN dest' = DOMAIN dest \cup {q.of}
      /\ \A u \in DOMAIN dest' : u # q.of => dest'[u] = dest[u]
      /\ dest'[q.of].version = q.version
      /\ dest'[q.of].by = IF q.late THEN "a late PATCH" ELSE "this run"
  BY <1>1, DeliverGives DEF Apply, run
<1>3. CASE q.of = k
  BY <1>2, <1>3 DEF WireInv, Stored
<1>4. CASE q.of # k
  <2>1. k \in DOMAIN dest' /\ dest'[k] = dest[k]
    BY <1>2, <1>4 DEF Stored
  <2> QED
    BY <1>2, <1>4, <2>1 DEF Stored
<1> QED
  BY <1>3, <1>4

LEMMA StoredStep ==
  ASSUME TypeOK, PhaseInv, WireInv, CallInv, StoredInv, [Next]_vars
  PROVE  StoredInv'
<1> SUFFICES StoredInv'
  OBVIOUS
<1>0. ASSUME NEW code, NEW text, Exit(code, text),
             code = "0" => \A k \in DOMAIN records : Stored(k)
      PROVE  StoredInv'
  <2>1. /\ rows' = {} /\ exit' = code /\ calls' = [k \in {} |-> "open"]
        /\ UNCHANGED <<records, dest>>
    BY <1>0 DEF Exit, BeginAnew, EndCalls, NoCalls
  <2> QED
    BY <1>0, <2>1 DEF StoredInv, Stored
<1>1. ASSUME UNCHANGED <<rows, outcome, calls, exit, records, dest>>
      PROVE  StoredInv'
  BY <1>1 DEF StoredInv, Stored
<1>2. CASE EditFeed \/ EndSync \/ UNCHANGED vars
  BY <1>1, <1>2
  DEF EditFeed, EndSync, Return, Abort, Report, vars, syncVars, world, run, wire
<1>3. CASE Start
  <2>1. rows' = {} /\ exit' = "none" /\ calls' = [k \in {} |-> "open"]
    BY <1>3, NewRunGives DEF Start, PhaseInv, syncVars
  <2> QED
    BY <2>1 DEF StoredInv
<1>4. CASE LoadSettings \/ BuildClient \/ AcquireToken \/ LoadRecords \/ SyncRaised
  <2>1. CASE Ahead
    BY <1>1, <2>1 DEF Ahead, syncVars, wire
  <2>2. CASE Loaded
    <3>1. /\ rows' = Keys /\ outcome' = [k \in Keys |-> "none"]
          /\ DOMAIN calls' = {} /\ exit' = "none"
      BY <2>2 DEF Loaded, BeginAnew, PhaseInv, TypeOK, wire
    <3> QED
      BY <3>1 DEF StoredInv
  <2>3. CASE \E texts : Leave(texts)
    BY <1>0, <2>3 DEF Leave
  <2> QED
    BY PhaseSteps, <1>4, <2>1, <2>2, <2>3
<1>5. ASSUME NEW k \in rows, NEW o, phase = "sync", Become(k, o), UNCHANGED <<run, dest>>,
             o \in {"created", "updated"} => Stored(k),
             \A j \in DOMAIN calls' : calls'[j] = "applied" => j \in DOMAIN calls /\ calls[j] = "applied"
      PROVE  StoredInv'
  <2>1. exit' = "none" /\ \A j : Stored(j)' <=> Stored(j)
    BY <1>5 DEF PhaseInv, run, Stored
  <2> QED
    BY <1>5, <2>1, BecomeKeepsWith DEF StoredInv
<1>6. ASSUME NEW k \in rows, SendRecord(k)
      PROVE  StoredInv'
  <2>1. \A j \in DOMAIN calls' : calls'[j] = "applied" => j \in DOMAIN calls /\ calls[j] = "applied"
    BY <1>6 DEF SendRecord, OpenCall
  <2> QED
    BY <1>5, <1>6, <2>1 DEF SendRecord, OpenCall, Send
<1>7. ASSUME NEW k \in rows, SkipRecord(k) \/ \E o \in Answers : SettleRecord(k, o)
      PROVE  StoredInv'
  <2>1. CASE SkipRecord(k)
    BY <1>5, <2>1 DEF SkipRecord, Skip, wire
  <2>2. ASSUME NEW o \in Answers, SettleRecord(k, o)
        PROVE  StoredInv'
    <3>1. /\ k \in DOMAIN calls /\ (Standing(o) = "accepted" => calls[k] = "applied")
          /\ calls' = [calls EXCEPT ![k] = Standing(o)] /\ UNCHANGED dest
      BY <2>2 DEF SettleRecord, EndCall, Open
    <3>2. o \in {"created", "updated"} => Stored(k)
      BY <3>1 DEF Standing, StoredInv
    <3>3. \A j \in DOMAIN calls' : calls'[j] = "applied" => j \in DOMAIN calls /\ calls[j] = "applied"
      BY <3>1 DEF Standing
    <3> QED
      BY <1>5, <2>2, <3>1, <3>2, <3>3 DEF SettleRecord, Settle
  <2> QED
    BY <1>7, <2>1, <2>2
<1>8. CASE Finish
  <2>1. /\ phase = "sync" /\ report.kind = "returned"
        /\ Exit(ExitCode(report.tally), "Sync complete")
    BY <1>8 DEF Finish
  <2>2. ASSUME ExitCode(report.tally) = "0", NEW k \in DOMAIN records
        PROVE  Stored(k)
    <3>1. /\ report.tally["failed"] = Cardinality(With("failed"))
          /\ \A j \in rows : outcome[j] \in Counted
      BY <2>1 DEF CallInv
    <3>2. With("failed") = {}
      <4>1. IsFiniteSet(With("failed")) /\ Cardinality(With("failed")) \in Nat
        BY <2>1, CountIsTyped, FS_CardinalityType DEF PhaseInv
      <4>2. ~(report.tally["failed"] > 0)
        BY <2>2 DEF ExitCode
      <4> QED
        BY <3>1, <4>1, <4>2, FS_EmptySet
    <3>3. k \in rows
      BY <2>1, <2>2 DEF PhaseInv
    <3>4. outcome[k] \in {"created", "updated"}
      BY <3>1, <3>2, <3>3 DEF CallInv, With, Counted
    <3> QED
      BY <3>3, <3>4 DEF StoredInv
  <2> QED
    BY <1>0, <2>1, <2>2
<1>9. CASE Kill
  BY <1>0, <1>9 DEF Kill
<1>10. ASSUME NEW q \in net, Apply(q)
       PROVE  StoredInv'
  <2>1. /\ UNCHANGED <<rows, outcome, exit, records>> /\ rows \subseteq DOMAIN records
        /\ DOMAIN calls \subseteq rows
    BY <1>10 DEF Apply, syncVars, run, PhaseInv, TypeOK
  <2>2. /\ DOMAIN calls' = DOMAIN calls
        /\ \A k \in DOMAIN calls : calls'[k] = calls[k] \/ k = q.of
    BY <1>10, DeliverGives DEF Apply
  <2>3. \A k \in DOMAIN records : Stored(k) \/ k = q.of => Stored(k)'
    BY <1>10, ApplyStores
  <2> QED
    BY <2>1, <2>2, <2>3 DEF StoredInv
<1>11. ASSUME NEW q \in net, Lose(q)
       PROVE  StoredInv'
  BY <1>1, <1>11 DEF Lose, Vanish, syncVars, run
<1> QED
  BY <1>2, <1>3, <1>4, <1>6, <1>7, <1>8, <1>9, <1>10, <1>11 DEF Next

RunInv == TypeOK /\ PhaseInv /\ WireInv /\ CallInv /\ StoredInv

LEMMA RunInvariant == Spec => []RunInv
<1>1. Init => WireInv /\ CallInv /\ StoredInv
  BY DEF Init, Begin, Unreported, DeliveryInit, NoCalls, NoRows, WireInv, NothingWritten, CallInv, StoredInv, With, Early, EarlyErrors
<1>2. TypeOK /\ PhaseInv /\ WireInv /\ CallInv /\ StoredInv /\ [Next]_vars
        => WireInv' /\ CallInv' /\ StoredInv'
  BY WireStep, CallStep, StoredStep
<1> QED
  BY <1>1, <1>2, TypeInvariant, PTL DEF Spec, RunInv

(* Exit code 0 says that every record the run loaded is stored as loaded,  *)
(* or overwritten since by a PATCH an earlier run had left under way.      *)
THEOREM ExitZeroIsStored == Spec => []ExitZeroMeansStored
<1>1. RunInv => ExitZeroMeansStored
  BY DEF RunInv, StoredInv, Stored, ExitZeroMeansStored
<1> QED
  BY <1>1, RunInvariant, PTL

(* Type correctness of the whole run.                                      *)
THEOREM RunTypeOK == Spec => []TypeOK
BY TypeInvariant, PTL

-----------------------------------------------------------------------------
(* A row is only ever written by requests that were sent for its own key,  *)
(* whatever characters the keys are made of.                               *)
LEMMA OwnerStep ==
  ASSUME TypeOK, RowsHoldTheirOwnRecord, [Next]_vars
  PROVE  RowsHoldTheirOwnRecord'
<1>1. ASSUME UNCHANGED dest PROVE RowsHoldTheirOwnRecord'
  BY <1>1 DEF RowsHoldTheirOwnRecord
<1>2. CASE Start
  BY <1>2, NewRunGives DEF Start, RowsHoldTheirOwnRecord
<1>3. ASSUME NEW q \in net, Apply(q) PROVE RowsHoldTheirOwnRecord'
  <2>1. q.of \in Keys /\ RowOf[q.of] = q.of
    BY KeysNameTheirRows DEF TypeOK, Requests
  <2>2. /\ DOMAIN dest' = DOMAIN dest \cup {q.of} /\ dest'[q.of].of = q.of
        /\ \A u \in DOMAIN dest' : u # q.of => dest'[u] = dest[u]
    BY <1>3, <2>1, DeliverGives DEF Apply
  <2> QED BY <2>2 DEF RowsHoldTheirOwnRecord
<1>4. CASE UNCHANGED vars \/ EditFeed \/ EndSync
  BY <1>1, <1>4 DEF vars, wire, EditFeed, EndSync
<1>5. CASE LoadSettings \/ BuildClient \/ AcquireToken \/ LoadRecords \/ SyncRaised
  <2>1. Ahead \/ Loaded \/ \E texts : Leave(texts)
    BY <1>5, PhaseSteps
  <2> QED BY <1>1, <2>1 DEF Ahead, Loaded, Leave, Exit, EndCalls, wire
<1>6. CASE Finish \/ Kill
  BY <1>1, <1>6 DEF Finish, Kill, Exit, EndCalls
<1>7. ASSUME NEW k \in rows, SendRecord(k) \/ SkipRecord(k) \/ \E o \in Answers : SettleRecord(k, o)
      PROVE  RowsHoldTheirOwnRecord'
  BY <1>1, <1>7 DEF SendRecord, OpenCall, SkipRecord, SettleRecord, EndCall, wire
<1>8. ASSUME NEW q \in net, Lose(q) PROVE RowsHoldTheirOwnRecord'
  BY <1>1, <1>8 DEF Lose, Vanish
<1> QED
  BY <1>2, <1>3, <1>4, <1>5, <1>6, <1>7, <1>8 DEF Next

(* "Which record the resulting PATCH actually targets" (odata.py): a row   *)
(* never holds another key's values, across any runs, crashes, lost and    *)
(* late requests.                                                          *)
THEOREM NoRowIsAnothersRecord == Spec => []RowsHoldTheirOwnRecord
<1>1. Init => RowsHoldTheirOwnRecord
  BY DEF Init, DeliveryInit, NoRows, RowsHoldTheirOwnRecord
<1>2. TypeOK /\ RowsHoldTheirOwnRecord /\ [Next]_vars => RowsHoldTheirOwnRecord'
  BY OwnerStep
<1> QED
  BY <1>1, <1>2, RunTypeOK, PTL DEF Spec

-----------------------------------------------------------------------------
(* The destination holds the feed, and nothing is under way, or will be    *)
(* sent by the run that is syncing, that says otherwise.                   *)
SaysTheFeed(q) == q.of \in DOMAIN feed.rows /\ q.version = feed.rows[q.of]

Settled ==
    /\ Converged
    /\ \A q \in net : SaysTheFeed(q)
    /\ phase = "sync" => records = feed.rows

LEMMA SettledApply ==
  ASSUME RunInv, Settled, UNCHANGED feed, NEW q \in net, Apply(q)
  PROVE  Settled'
<1>1. q.of \in Keys /\ RowOf[q.of] = q.of
  BY KeysNameTheirRows DEF RunInv, TypeOK, Requests
<1>2. /\ UNCHANGED <<phase, records>> /\ net' \subseteq net
      /\ DOMAIN dest' = DOMAIN dest \cup {q.of}
      /\ \A u \in DOMAIN dest' : u # q.of => dest'[u] = dest[u]
      /\ dest'[q.of].version = q.version
  <2>1. TypeOK
    BY DEF RunInv
  <2> QED
    BY <1>1, <2>1, DeliverGives DEF Apply, run
<1>3. q.of \in DOMAIN feed.rows /\ q.version = feed.rows[q.of]
  BY DEF Settled, SaysTheFeed
<1>4. ASSUME NEW k \in DOMAIN feed.rows
      PROVE  k \in DOMAIN dest' /\ dest'[k].version = feed.rows[k]
  <2>1. CASE k = q.of
    BY <1>2, <1>3, <2>1
  <2>2. CASE k # q.of
    BY <1>2, <2>2 DEF Settled, Converged
  <2> QED
    BY <2>1, <2>2
<1> QED
  BY <1>2, <1>4 DEF Settled, Converged, SaysTheFeed

LEMMA SettledStep ==
  ASSUME RunInv, Settled, [Next]_vars, UNCHANGED feed
  PROVE  Settled'
<1>1. ASSUME UNCHANGED dest, \A q \in net' : q \in net \/ SaysTheFeed(q),
             phase' = "sync" => records' = feed.rows
      PROVE  Settled'
  BY <1>1 DEF Settled, Converged, SaysTheFeed
<1>2. CASE UNCHANGED vars \/ EditFeed \/ EndSync
  BY <1>1, <1>2 DEF vars, wire, run, EditFeed, EndSync, Settled
<1>3. CASE Start
  <2>1. /\ phase' = "settings" /\ DOMAIN dest' = DOMAIN dest
        /\ \A u \in DOMAIN dest : dest'[u].version = dest[u].version
        /\ \A q \in net' : \E r \in net : q.of = r.of /\ q.version = r.version
    <3>1. TypeOK /\ NewRun /\ phase' = "settings"
      BY <1>3 DEF Start, RunInv
    <3> QED
      BY <3>1, NewRunGives
  <2> QED
    BY <2>1 DEF Settled, Converged, SaysTheFeed
<1>4. ASSUME NEW code, NEW text, Exit(code, text)
      PROVE  Settled'
  <2>1. net' \subseteq net /\ UNCHANGED dest /\ phase' = "idle"
    BY <1>4, MayDropShrinks DEF Exit, EndCalls
  <2> QED
    BY <1>1, <2>1
<1>5. CASE LoadSettings \/ BuildClient \/ AcquireToken \/ LoadRecords \/ SyncRaised
  <2>1. CASE Ahead
    BY <1>1, <2>1 DEF Ahead, Early, wire, Settled
  <2>2. CASE Loaded
    BY <1>1, <2>2 DEF Loaded, wire
  <2>3. CASE \E texts : Leave(texts)
    BY <1>4, <2>3 DEF Leave
  <2> QED
    BY PhaseSteps, <1>5, <2>1, <2>2, <2>3
<1>6. CASE Finish \/ Kill
  BY <1>4, <1>6 DEF Finish, Kill
<1>7. ASSUME NEW k \in rows, SendRecord(k)
      PROVE  Settled'
  <2>1. /\ phase = "sync" /\ UNCHANGED <<dest, phase, records>>
        /\ net' = net \cup {Patch(k, records[k])}
    BY <1>7 DEF SendRecord, OpenCall, run
  <2>2. k \in DOMAIN records /\ records = feed.rows
    BY <2>1 DEF RunInv, PhaseInv, Settled
  <2>3. SaysTheFeed(Patch(k, records[k]))
    BY <2>2 DEF SaysTheFeed, Patch
  <2> QED
    BY <1>1, <2>1, <2>2, <2>3
<1>8. ASSUME NEW k \in rows, SkipRecord(k) \/ \E o \in Answers : SettleRecord(k, o)
      PROVE  Settled'
  <2>1. net' \subseteq net /\ UNCHANGED <<dest, phase, records>>
    BY <1>8, MayDropShrinks DEF SkipRecord, SettleRecord, EndCall, wire, run
  <2> QED
    BY <1>1, <2>1 DEF Settled
<1>9. ASSUME NEW q \in net, Lose(q)
      PROVE  Settled'
  BY <1>1, <1>9 DEF Lose, Vanish, run, Settled
<1> QED
  BY <1>2, <1>3, <1>5, <1>6, <1>7, <1>8, <1>9, SettledApply DEF Next

(* "Re-running the whole batch ... reproduces the correct end state", the  *)
(* safety half: once the destination holds the feed and nothing under way  *)
(* says otherwise, no further run, complete, failed or killed, and no      *)
(* request applied late or twice, takes it away from the feed again; only  *)
(* an edit of the feed does.                                               *)
THEOREM RerunsKeepTheFeed == Spec => [][Settled /\ UNCHANGED feed => Settled']_vars
<1>1. RunInv /\ [Next]_vars => [Settled /\ UNCHANGED feed => Settled']_vars
  BY SettledStep
<1> QED
  BY <1>1, RunInvariant, PTL DEF Spec

(* What an earlier run left, under way or applied late, says the same.     *)
NoOldNews ==
    /\ \A q \in net : q.late => SaysTheFeed(q)
    /\ \A k \in DOMAIN dest \cap DOMAIN feed.rows :
           dest[k].by = "a late PATCH" => dest[k].version = feed.rows[k]

(* One run that ends with 0 is enough to get there, unless the feed was    *)
(* edited while it ran or an earlier run's late PATCH of another version   *)
(* interferes.                                                             *)
THEOREM OneGoodRunSettles ==
  Spec => [][Finish /\ exit' = "0" /\ records = feed.rows /\ NoOldNews => Settled']_vars
<1>1. ASSUME RunInv, RunInv', Finish, exit' = "0", records = feed.rows, NoOldNews
      PROVE  Settled'
  <2>1. /\ net' \subseteq net /\ UNCHANGED <<dest, feed, records>> /\ phase' = "idle"
    BY <1>1, MayDropShrinks DEF Finish, Exit, EndCalls, world
  <2>2. \A q \in net' : SaysTheFeed(q)
    BY <1>1, <2>1 DEF RunInv, WireInv, NoOldNews, SaysTheFeed
  <2>3. \A k \in DOMAIN records : Stored(k)'
    BY <1>1, <2>1 DEF RunInv, StoredInv
  <2>4. \A k \in DOMAIN feed.rows : k \in DOMAIN dest /\ dest[k].version = feed.rows[k]
    BY <1>1, <2>1, <2>3 DEF Stored, NoOldNews
  <2> QED
    BY <2>1, <2>2, <2>4 DEF Settled, Converged, SaysTheFeed
<1> QED
  BY <1>1, RunInvariant, PTL DEF Spec
=============================================================================

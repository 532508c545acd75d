-------------------------- MODULE SequenceLemmas --------------------------
(***************************************************************************)
(* What the proofs about texts and feeds need of sequences: induction over *)
(* an interval, how a flattened sequence lies in its parts, a scan of a    *)
(* sequence from right to left, and the listing of a set of numbers in     *)
(* ascending order.  Induction is over a SET of numbers (the indices a     *)
(* claim holds for), by the least index outside it: no operator is needed. *)
(***************************************************************************)
EXTENDS Integers, SequencesExt, WellFoundedInduction, FiniteSetTheorems, TLAPS

(* Induction.                                                              *)
Below == OpToRel(<, Nat)

LEMMA LessIs == Below = {p \in Nat \X Nat : p[1] < p[2]}
BY DEF Below, OpToRel

LEMMA BelowWF == IsWellFoundedOn(Below, Nat)
BY NatLessThanWellFounded DEF Below

(* A nonempty set of natural numbers has a least member.                   *)
LEMMA Least ==
  ASSUME NEW T \in SUBSET Nat, T # {}
  PROVE  \E m \in T : \A n \in T : m <= n
<1>1. \E m \in T : \A n \in T : ~(<<n, m>> \in Below)
  <2> HIDE DEF Below
  <2> QED BY BelowWF, WFMin
<1>2. PICK m \in T : \A n \in T : ~(<<n, m>> \in Below)
  BY <1>1
<1>3. ASSUME NEW n \in T, n < m PROVE FALSE
  <2>1. n \in Nat /\ m \in Nat
    OBVIOUS
  <2>2. <<n, m>> \in Nat \X Nat /\ <<n, m>>[1] = n /\ <<n, m>>[2] = m
    BY <2>1
  <2>3. <<n, m>> \in Below
    BY <2>2, <1>3, LessIs
  <2> QED BY <2>3, <1>2
<1>4. \A n \in T : m <= n
  BY <1>3
<1> QED BY <1>4

(* A set that has 0, and with a number below L also the next, has all up   *)
(* to L.                                                                   *)
LEMMA UpTo ==
  ASSUME NEW L \in Nat, NEW T \in SUBSET (0..L), 0 \in T,
         \A n \in T : n < L => n + 1 \in T
  PROVE  T = 0..L
<1> SUFFICES ASSUME T # 0..L PROVE FALSE
  OBVIOUS
<1>1. (0..L) \ T \in SUBSET Nat /\ (0..L) \ T # {}
  <2>1. 0..L \subseteq Nat
    OBVIOUS
  <2>2. (0..L) \ T # {}
    BY Zenon
  <2> QED BY <2>1, <2>2
<1>2. PICK m \in (0..L) \ T : \A n \in (0..L) \ T : m <= n
  BY <1>1, Least
<1>3. m - 1 \in 0..L /\ m - 1 \in T
  BY <1>2
<1> QED BY <1>2, <1>3

-----------------------------------------------------------------------------
(* Flattening.  join[i] is what the first i pieces make together.          *)
JoinedTo(n, piece, join) ==
    /\ join[0] = <<>>
    /\ \A i \in 1..n : join[i] = join[i - 1] \o piece[i]

LEMMA JoinExtends ==
  ASSUME NEW S, NEW L \in Nat, NEW piece \in [1..L -> Seq(S)], NEW n \in 0..L, n < L,
         NEW g \in [0..L -> Seq(S)], JoinedTo(n, piece, g)
  PROVE  \E h \in [0..L -> Seq(S)] : JoinedTo(n + 1, piece, h)
<1> DEFINE h == [i \in 0..L |-> IF i = n + 1 THEN g[n] \o piece[n + 1] ELSE g[i]]
<1>1. n + 1 \in 1..L /\ n \in Nat
  OBVIOUS
<1>2. g[n] \in Seq(S) /\ piece[n + 1] \in Seq(S)
  BY <1>1
<1>3. h \in [0..L -> Seq(S)]
  <2>1. g[n] \o piece[n + 1] \in Seq(S)
    BY <1>2
  <2> QED BY <2>1
<1>4. h[0] = <<>>
  BY <1>1 DEF JoinedTo
<1>5. ASSUME NEW i \in 1..(n + 1) PROVE h[i] = h[i - 1] \o piece[i]
  <2>1. i \in 1..L /\ i \in 0..L /\ i - 1 \in 0..L /\ i - 1 # n + 1
    BY <1>1
  <2>2. h[i - 1] = g[i - 1]
    BY <2>1
  <2>3. CASE i = n + 1
    <3>1. i - 1 = n
      BY <2>3, <1>1
    <3>2. h[i] = g[n] \o piece[n + 1]
      BY <2>1, <2>3
    <3> QED BY <3>1, <3>2, <2>2, <2>3
  <2>4. CASE i # n + 1
    <3>1. i \in 1..n
      BY <2>4, <1>1
    <3>2. h[i] = g[i]
      BY <2>1, <2>4
    <3> QED BY <3>1, <3>2, <2>2 DEF JoinedTo
  <2> QED BY <2>3, <2>4
<1> HIDE DEF h
<1> QED BY <1>3, <1>4, <1>5 DEF JoinedTo

(* Any pieces can be joined.                                               *)
LEMMA JoinExists ==
  ASSUME NEW S, NEW L \in Nat, NEW piece \in [1..L -> Seq(S)]
  PROVE  \E join \in [0..L -> Seq(S)] : JoinedTo(L, piece, join)
<1> DEFINE T == {n \in 0..L : \E g \in [0..L -> Seq(S)] : JoinedTo(n, piece, g)}
<1>1. 0 \in T
  <2> DEFINE g == [i \in 0..L |-> <<>>]
  <2>1. g \in [0..L -> Seq(S)]
    OBVIOUS
  <2>2. g[0] = <<>> /\ 0 \in 0..L /\ 1..0 = {}
    OBVIOUS
  <2> HIDE DEF g
  <2>3. JoinedTo(0, piece, g)
    BY <2>2 DEF JoinedTo
  <2> QED BY <2>1, <2>2, <2>3
<1>2. ASSUME NEW n \in T, n < L PROVE n + 1 \in T
  <2>1. n \in 0..L /\ \E g \in [0..L -> Seq(S)] : JoinedTo(n, piece, g)
    OBVIOUS
  <2>2. \E h \in [0..L -> Seq(S)] : JoinedTo(n + 1, piece, h)
    BY <2>1, <1>2, JoinExtends
  <2>3. n + 1 \in 0..L
    BY <2>1, <1>2
  <2> QED BY <2>2, <2>3
<1>3. T \in SUBSET (0..L)
  OBVIOUS
<1>4. T = 0..L
  <2> HIDE DEF T
  <2> QED BY <1>1, <1>2, <1>3, UpTo
<1>5. L \in T
  <2> HIDE DEF T
  <2> QED BY <1>4
<1> QED BY <1>5

(* FlattenSeq chooses a function that satisfies its recursion; there is    *)
(* one, as a join is one.                                                  *)
FlattenStep(seqs, f) ==
    [i \in 1..Len(seqs) |-> IF i = 1 THEN seqs[i] ELSE f[i - 1] \o seqs[i]]

LEMMA FlattenIsFixpoint ==
  ASSUME NEW seqs, Len(seqs) # 0, NEW h, h = FlattenStep(seqs, h)
  PROVE  \E f : f = FlattenStep(seqs, f) /\ FlattenSeq(seqs) = f[Len(seqs)]
<1> DEFINE f == CHOOSE f : f = FlattenStep(seqs, f)
<1>1. f = FlattenStep(seqs, f)
  OBVIOUS
<1>2. FlattenSeq(seqs) = f[Len(seqs)]
  BY DEF FlattenSeq, FlattenStep
<1> QED BY <1>1, <1>2

IsFlatten(L, piece, f) ==
    \A i \in 1..L : f[i] = IF i = 1 THEN piece[i] ELSE f[i - 1] \o piece[i]

LEMMA FixpointIsJoin ==
  ASSUME NEW S, NEW L \in Nat, NEW piece \in [1..L -> Seq(S)],
         NEW join \in [0..L -> Seq(S)], NEW f,
         JoinedTo(L, piece, join), IsFlatten(L, piece, f)
  PROVE  L = 0 \/ f[L] = join[L]
<1> DEFINE T == {n \in 0..L : n = 0 \/ f[n] = join[n]}
<1>1. T \in SUBSET (0..L) /\ 0 \in T
  OBVIOUS
<1>2. ASSUME NEW n \in T, n < L PROVE n + 1 \in T
  <2>1. n \in 0..L /\ n + 1 \in 1..L /\ n + 1 \in 0..L /\ n + 1 - 1 = n
    BY <1>2
  <2>2. f[n + 1] = IF n + 1 = 1 THEN piece[n + 1] ELSE f[n] \o piece[n + 1]
    BY <2>1 DEF IsFlatten
  <2>3. join[n + 1] = join[n] \o piece[n + 1]
    <3> HIDE DEF T
    <3>1. \A i \in 1..L : join[i] = join[i - 1] \o piece[i]
      BY DEF JoinedTo
    <3> DEFINE i == n + 1
    <3>2. i \in 1..L /\ i - 1 = n
      BY <2>1
    <3> HIDE DEF i
    <3>3. join[i] = join[i - 1] \o piece[i]
      BY <3>1, <3>2
    <3> QED BY <3>2, <3>3 DEF i
  <2>4. CASE n = 0
    <3>1. join[0] = <<>> /\ piece[n + 1] \in Seq(S)
      BY <2>1 DEF JoinedTo
    <3>2. <<>> \o piece[n + 1] = piece[n + 1]
      BY <3>1
    <3>3. f[n + 1] = join[n + 1]
      BY <2>2, <2>3, <2>4, <3>1, <3>2
    <3> QED BY <3>3, <2>1
  <2>5. CASE n # 0
    <3>1. f[n] = join[n]
      BY <2>5
    <3>2. n + 1 # 1
      BY <2>5, <2>1
    <3>3. f[n + 1] = join[n + 1]
      BY <2>2, <2>3, <3>1, <3>2
    <3> QED BY <3>3, <2>1
  <2> QED BY <2>4, <2>5
<1>3. T = 0..L
  <2> HIDE DEF T
  <2> QED BY <1>1, <1>2, UpTo
<1>4. L \in T
  <2> HIDE DEF T
  <2> QED BY <1>3
<1> QED BY <1>4

(* FlattenSeq is the join of all pieces.                                   *)
LEMMA FlattenIsJoin ==
  ASSUME NEW S, NEW L \in Nat, NEW piece \in [1..L -> Seq(S)],
         NEW join \in [0..L -> Seq(S)], JoinedTo(L, piece, join)
  PROVE  FlattenSeq(piece) = join[L]
<1>1. piece \in Seq(Seq(S)) /\ Len(piece) = L
  OBVIOUS
<1>2. CASE L = 0
  <2>1. FlattenSeq(piece) = piece
    BY <1>1, <1>2 DEF FlattenSeq
  <2>2. piece = <<>>
    BY <1>1, <1>2
  <2> QED BY <2>1, <2>2, <1>2 DEF JoinedTo
<1>3. CASE L # 0
  <2> DEFINE h == [i \in 1..L |-> join[i]]
  <2>1. ASSUME NEW i \in 1..L
        PROVE  h[i] = IF i = 1 THEN piece[i] ELSE h[i - 1] \o piece[i]
    <3>1. h[i] = join[i - 1] \o piece[i]
      BY DEF JoinedTo
    <3>2. CASE i = 1
      <4>1. join[0] = <<>> /\ piece[i] \in Seq(S) /\ i - 1 = 0
        BY <3>2 DEF JoinedTo
      <4>2. <<>> \o piece[i] = piece[i]
        BY <4>1
      <4> QED BY <3>1, <3>2, <4>1, <4>2
    <3>3. CASE i # 1
      <4>1. i - 1 \in 1..L
        BY <3>3
      <4>2. h[i - 1] = join[i - 1]
        BY <4>1
      <4> QED BY <3>1, <3>3, <4>2
    <3> QED BY <3>2, <3>3
  <2>2. h = FlattenStep(piece, h)
    <3>1. h = [i \in 1..L |-> h[i]]
      OBVIOUS
    <3> HIDE DEF h
    <3> QED BY <3>1, <2>1, <1>1 DEF FlattenStep
  <2>3. PICK f : f = FlattenStep(piece, f) /\ FlattenSeq(piece) = f[L]
    <3> HIDE DEF h
    <3> QED BY <1>1, <1>3, <2>2, FlattenIsFixpoint
  <2>4. IsFlatten(L, piece, f)
    BY <2>3, <1>1 DEF FlattenStep, IsFlatten
  <2>5. f[L] = join[L]
    <3> HIDE DEF h
    <3> QED BY <1>3, <2>4, FixpointIsJoin
  <2> QED BY <2>3, <2>5
<1> QED BY <1>2, <1>3

(* What has been joined stays where it is.                                 *)
LEMMA JoinKeepsPrefix ==
  ASSUME NEW S, NEW L \in Nat, NEW piece \in [1..L -> Seq(S)],
         NEW join \in [0..L -> Seq(S)], JoinedTo(L, piece, join), NEW i \in 0..L
  PROVE  /\ Len(join[i]) <= Len(join[L])
         /\ \A k \in 1..Len(join[i]) : join[L][k] = join[i][k]
<1> DEFINE Kept(n) == /\ Len(join[i]) <= Len(join[n])
                      /\ \A k \in 1..Len(join[i]) : join[n][k] = join[i][k]
           T == {n \in 0..L : n < i \/ Kept(n)}
<1>1. T \in SUBSET (0..L) /\ 0 \in T
  <2>1. join[0] \in Seq(S) /\ 0 \in 0..L
    OBVIOUS
  <2>2. 0 < i \/ i = 0
    OBVIOUS
  <2>3. i = 0 => Kept(0)
    BY <2>1
  <2> QED BY <2>1, <2>2, <2>3
<1>2. ASSUME NEW n \in T, n < L PROVE n + 1 \in T
  <2>1. n \in 0..L /\ n + 1 \in 1..L /\ n + 1 \in 0..L /\ n + 1 - 1 = n /\ n \in Nat
    BY <1>2
  <2>2. CASE n + 1 < i
    BY <2>1, <2>2
  <2>3. CASE n + 1 = i
    <3>1. join[i] \in Seq(S)
      OBVIOUS
    <3>2. Kept(n + 1)
      BY <2>3, <3>1
    <3> QED BY <2>1, <3>2
  <2>4. CASE i < n + 1
    <3>1. Kept(n)
      BY <2>1, <2>4
    <3>2. join[n + 1] = join[n] \o piece[n + 1]
      <4>1. \A m \in 1..L : join[m] = join[m - 1] \o piece[m]
        BY DEF JoinedTo
      <4> DEFINE m == n + 1
      <4>2. m \in 1..L /\ m - 1 = n
        BY <2>1
      <4> HIDE DEF m
      <4>3. join[m] = join[m - 1] \o piece[m]
        BY <4>1, <4>2
      <4> QED BY <4>2, <4>3 DEF m
    <3>3. join[n] \in Seq(S) /\ piece[n + 1] \in Seq(S) /\ join[i] \in Seq(S)
      BY <2>1
    <3>4. Kept(n + 1)
      BY <3>1, <3>2, <3>3
    <3> QED BY <2>1, <3>4
  <2>5. n + 1 < i \/ n + 1 = i \/ i < n + 1
    BY <2>1
  <2> QED BY <2>2, <2>3, <2>4, <2>5
<1>3. T = 0..L
  <2> HIDE DEF T
  <2> QED BY <1>1, <1>2, UpTo
<1>4. L \in T
  <2> HIDE DEF T
  <2> QED BY <1>3
<1>5. ~(L < i)
  OBVIOUS
<1> QED BY <1>4, <1>5

(* Piece i stands right after the pieces before it.                        *)
Placed(L, piece, join, i) ==
    /\ Len(join[i]) = Len(join[i - 1]) + Len(piece[i])
    /\ Len(join[i]) <= Len(join[L])
    /\ \A m \in 1..Len(piece[i]) : join[L][Len(join[i - 1]) + m] = piece[i][m]

LEMMA JoinPlaces ==
  ASSUME NEW S, NEW L \in Nat, NEW piece \in [1..L -> Seq(S)],
         NEW join \in [0..L -> Seq(S)], JoinedTo(L, piece, join), NEW i \in 1..L
  PROVE  Placed(L, piece, join, i)
<1>1. i \in 0..L /\ i - 1 \in 0..L
  OBVIOUS
<1>2. join[i] = join[i - 1] \o piece[i]
  BY DEF JoinedTo
<1>3. join[i] \in Seq(S) /\ join[i - 1] \in Seq(S) /\ piece[i] \in Seq(S)
  BY <1>1
<1>4. Len(join[i]) = Len(join[i - 1]) + Len(piece[i])
  BY <1>2, <1>3
<1>5. /\ Len(join[i]) <= Len(join[L])
      /\ \A k \in 1..Len(join[i]) : join[L][k] = join[i][k]
  BY <1>1, JoinKeepsPrefix
<1>6. ASSUME NEW m \in 1..Len(piece[i])
      PROVE  join[L][Len(join[i - 1]) + m] = piece[i][m]
  <2>1. Len(join[i - 1]) + m \in 1..Len(join[i])
    BY <1>3, <1>4
  <2>2. join[i][Len(join[i - 1]) + m] = piece[i][m]
    BY <1>2, <1>3
  <2> QED BY <1>5, <2>1, <2>2
<1> QED BY <1>4, <1>5, <1>6 DEF Placed

-----------------------------------------------------------------------------
(* Scanning from right to left: at position i the scan reads head[i] and   *)
(* goes on at jump[i].                                                     *)
LEMMA Single ==
  ASSUME NEW S, NEW c \in S
  PROVE  <<c>> \in Seq(S) /\ <<c>> \o <<>> = <<c>>
OBVIOUS

LEMMA SuffixSplits ==
  ASSUME NEW S, NEW text \in Seq(S), NEW i \in 1..Len(text)
  PROVE  SubSeq(text, i, Len(text)) = <<text[i]>> \o SubSeq(text, i + 1, Len(text))
<1> DEFINE whole == SubSeq(text, i, Len(text))
           rest == SubSeq(text, i + 1, Len(text))
           joined == <<text[i]>> \o rest
<1>1. whole \in Seq(S) /\ rest \in Seq(S) /\ <<text[i]>> \in Seq(S)
  OBVIOUS
<1>2. Len(whole) = Len(text) - i + 1 /\ Len(rest) = Len(text) - i
  OBVIOUS
<1>3. joined \in Seq(S) /\ Len(joined) = Len(text) - i + 1
  <2> HIDE DEF rest
  <2> QED BY <1>1, <1>2
<1>4. ASSUME NEW m \in 1..(Len(text) - i + 1) PROVE whole[m] = joined[m]
  <2>1. whole[m] = text[i + m - 1]
    OBVIOUS
  <2>2. CASE m = 1
    <3>1. joined[1] = text[i]
      <4> HIDE DEF rest
      <4> QED BY <1>1
    <3> QED BY <2>1, <2>2, <3>1
  <2>3. CASE m # 1
    <3>1. m - 1 \in 1..(Len(text) - i)
      BY <2>3
    <3>2. rest[m - 1] = text[i + m - 1]
      BY <3>1
    <3>3. joined[m] = rest[m - 1]
      <4> HIDE DEF rest
      <4> QED BY <1>1, <1>2, <3>1
    <3> QED BY <2>1, <3>2, <3>3
  <2> QED BY <2>2, <2>3
<1> HIDE DEF whole, joined
<1>5. whole = joined
  BY <1>1, <1>2, <1>3, <1>4
<1> QED BY <1>5 DEF whole, joined

Scanned(L, first, head, jump, f) ==
    /\ f[L + 1] = <<>> /\ f[L + 2] = <<>>
    /\ \A i \in first..L : f[i] = head[i] \o f[jump[i]]

LEMMA ScanExtends ==
  ASSUME NEW S, NEW L \in Nat, NEW head \in [1..L -> Seq(S)], NEW jump \in [1..L -> Nat],
         \A i \in 1..L : i < jump[i] /\ jump[i] <= L + 2,
         NEW p \in 1..L, NEW g \in [1..(L + 2) -> Seq(S)], Scanned(L, p + 1, head, jump, g)
  PROVE  \E f \in [1..(L + 2) -> Seq(S)] : Scanned(L, p, head, jump, f)
<1> DEFINE f == [i \in 1..(L + 2) |-> IF i = p THEN head[p] \o g[jump[p]] ELSE g[i]]
<1>1. p \in 1..(L + 2) /\ jump[p] \in 1..(L + 2)
  OBVIOUS
<1>2. f \in [1..(L + 2) -> Seq(S)]
  <2>1. head[p] \in Seq(S) /\ g[jump[p]] \in Seq(S)
    BY <1>1
  <2>2. head[p] \o g[jump[p]] \in Seq(S)
    BY <2>1
  <2> QED BY <2>2
<1>3. f[L + 1] = <<>> /\ f[L + 2] = <<>>
  BY DEF Scanned
<1>4. ASSUME NEW i \in p..L PROVE f[i] = head[i] \o f[jump[i]]
  <2>1. i \in 1..L /\ i \in 1..(L + 2)
    OBVIOUS
  <2>2. jump[i] \in 1..(L + 2) /\ jump[i] # p
    BY <2>1
  <2>3. f[jump[i]] = g[jump[i]]
    BY <2>2
  <2>4. CASE i = p
    BY <2>1, <2>3, <2>4
  <2>5. CASE i # p
    <3>1. i \in (p + 1)..L
      BY <2>5
    <3>2. g[i] = head[i] \o g[jump[i]]
      BY <3>1 DEF Scanned
    <3>3. f[i] = g[i]
      BY <2>1, <2>5
    <3> HIDE DEF f
    <3> QED BY <2>3, <3>2, <3>3
  <2> QED BY <2>4, <2>5
<1> HIDE DEF f
<1> QED BY <1>2, <1>3, <1>4 DEF Scanned

(* A scan that moves forward has a result at every position.               *)
LEMMA ScanExists ==
  ASSUME NEW S, NEW L \in Nat, NEW head \in [1..L -> Seq(S)], NEW jump \in [1..L -> Nat],
         \A i \in 1..L : i < jump[i] /\ jump[i] <= L + 2
  PROVE  \E f \in [1..(L + 2) -> Seq(S)] : Scanned(L, 1, head, jump, f)
<1> DEFINE Some(p) == \E f \in [1..(L + 2) -> Seq(S)] : Scanned(L, p, head, jump, f)
           T == {d \in 0..L : Some(L + 1 - d)}
<1>1. T \in SUBSET (0..L) /\ 0 \in T
  <2> DEFINE g == [i \in 1..(L + 2) |-> <<>>]
  <2>1. g \in [1..(L + 2) -> Seq(S)]
    OBVIOUS
  <2>2. g[L + 1] = <<>> /\ g[L + 2] = <<>> /\ (L + 1)..L = {}
    OBVIOUS
  <2> HIDE DEF g
  <2>3. Scanned(L, L + 1, head, jump, g)
    BY <2>2 DEF Scanned
  <2>4. L + 1 - 0 = L + 1 /\ 0 \in 0..L
    OBVIOUS
  <2> QED BY <2>1, <2>3, <2>4
<1>2. ASSUME NEW d \in T, d < L PROVE d + 1 \in T
  <2> DEFINE p == L - d
  <2>1. d \in 0..L /\ Some(L + 1 - d)
    OBVIOUS
  <2>2. p \in 1..L /\ L + 1 - d = p + 1 /\ L + 1 - (d + 1) = p /\ d + 1 \in 0..L
    BY <2>1, <1>2
  <2>3. PICK g \in [1..(L + 2) -> Seq(S)] : Scanned(L, p + 1, head, jump, g)
    BY <2>1, <2>2
  <2>4. Some(p)
    <3> HIDE DEF p, T
    <3> QED BY <2>2, <2>3, ScanExtends
  <2> HIDE DEF p, Some
  <2> QED BY <2>2, <2>4
<1>3. T = 0..L
  <2> HIDE DEF T
  <2> QED BY <1>1, <1>2, UpTo
<1>4. L \in T
  <2> HIDE DEF T
  <2> QED BY <1>3
<1>5. L + 1 - L = 1
  OBVIOUS
<1> QED BY <1>4, <1>5

(* A scan that reads one symbol of a text from one mark to the next reads  *)
(* the text.                                                               *)
LEMMA ScanReads ==
  ASSUME NEW S, NEW text \in Seq(S), NEW at, NEW f, 
         f[at[Len(text)]] = <<>>,
         \A i \in 1..Len(text) : f[at[i - 1]] = <<text[i]>> \o f[at[i]]
  PROVE  f[at[0]] = text
<1> DEFINE L == Len(text)
           T == {d \in 0..L : f[at[L - d]] = SubSeq(text, L - d + 1, L)}
<1>0. L \in Nat
  OBVIOUS
<1>1. T \in SUBSET (0..L) /\ 0 \in T
  <2>1. SubSeq(text, L + 1, L) = <<>> /\ L - 0 = L /\ 0 \in 0..L
    OBVIOUS
  <2> QED BY <2>1
<1>2. ASSUME NEW d \in T, d < L PROVE d + 1 \in T
  <2> DEFINE i == L - d
  <2>1. d \in 0..L /\ f[at[i]] = SubSeq(text, i + 1, L)
    OBVIOUS
  <2>2. i \in 1..L /\ L - (d + 1) = i - 1 /\ d + 1 \in 0..L /\ i - 1 + 1 = i
    BY <1>0, <2>1, <1>2
  <2> HIDE DEF i
  <2>3. f[at[i - 1]] = <<text[i]>> \o SubSeq(text, i + 1, L)
    BY <2>1, <2>2
  <2>4. <<text[i]>> \o SubSeq(text, i + 1, L) = SubSeq(text, i, L)
    BY <2>2, SuffixSplits
  <2>5. f[at[L - (d + 1)]] = SubSeq(text, L - (d + 1) + 1, L)
    BY <2>2, <2>3, <2>4
  <2> QED BY <2>2, <2>5
<1>3. T = 0..L
  <2> HIDE DEF T, L
  <2> QED BY <1>0, <1>1, <1>2, UpTo
<1>4. L \in T
  <2> HIDE DEF T, L
  <2> QED BY <1>0, <1>3
<1>5. L - L = 0 /\ L - L + 1 = 1 /\ SubSeq(text, 1, L) = text
  OBVIOUS
<1> QED BY <1>4, <1>5

-----------------------------------------------------------------------------
(* Listing a set of numbers in ascending order.                            *)
Enumerates(s, A) ==
    /\ \A a \in A : \E i \in DOMAIN s : s[i] = a
    /\ \A i, j \in DOMAIN s : i < j => s[i] < s[j]

LEMMA EnumerationExtends ==
  ASSUME NEW m \in Nat, NEW B \in SUBSET (1..m), NEW s \in [1..Cardinality(B) -> B],
         Enumerates(s, B)
  PROVE  LET C == B \cup {m + 1}
         IN  \E t \in [1..Cardinality(C) -> C] : Enumerates(t, C)
<1> DEFINE C == B \cup {m + 1}
           c == Cardinality(B)
           t == [i \in 1..(c + 1) |-> IF i = c + 1 THEN m + 1 ELSE s[i]]
<1>1. IsFiniteSet(B) /\ c \in Nat /\ m + 1 \notin B
  <2>1. IsFiniteSet(1..m)
    BY FS_Interval
  <2>2. IsFiniteSet(B)
    BY <2>1, FS_Subset
  <2>3. m + 1 \notin B
    OBVIOUS
  <2> QED BY <2>2, <2>3, FS_CardinalityType
<1>2. Cardinality(C) = c + 1
  BY <1>1, FS_AddElement
<1> HIDE DEF c
<1>3. t \in [1..(c + 1) -> C]
  BY <1>1 DEF c
<1>4. ASSUME NEW a \in C PROVE \E i \in 1..(c + 1) : t[i] = a
  <2>1. CASE a = m + 1
    <3>1. c + 1 \in 1..(c + 1) /\ t[c + 1] = a
      BY <1>1, <2>1
    <3> QED BY <3>1
  <2>2. CASE a \in B
    <3>1. PICK i \in 1..c : s[i] = a
      BY <2>2 DEF Enumerates, c
    <3>2. i \in 1..(c + 1) /\ t[i] = a
      BY <1>1, <3>1
    <3> QED BY <3>2
  <2> QED BY <2>1, <2>2
<1>5. ASSUME NEW i \in 1..(c + 1), NEW j \in 1..(c + 1), i < j PROVE t[i] < t[j]
  <2>1. i \in 1..c /\ t[i] = s[i] /\ s[i] \in B
    BY <1>1, <1>5 DEF c
  <2>2. CASE j = c + 1
    <3>1. t[j] = m + 1
      BY <2>2
    <3>2. s[i] \in 1..m
      BY <2>1
    <3> HIDE DEF t
    <3> QED BY <2>1, <3>1, <3>2
  <2>3. CASE j # c + 1
    <3>1. j \in 1..c /\ t[j] = s[j]
      BY <1>1, <2>3
    <3> QED BY <1>5, <2>1, <3>1 DEF Enumerates, c
  <2> QED BY <2>2, <2>3
<1> HIDE DEF t, C
<1>6. DOMAIN t = 1..(c + 1)
  BY <1>3
<1>7. Enumerates(t, C)
  BY <1>4, <1>5, <1>6 DEF Enumerates
<1> QED BY <1>2, <1>3, <1>7 DEF C

LEMMA EnumerationExists ==
  ASSUME NEW n \in Nat, NEW A \in SUBSET (1..n)
  PROVE  \E s \in [1..Cardinality(A) -> A] : Enumerates(s, A)
<1> DEFINE Part(m) == A \cap (1..m)
           Done(B) == \E s \in [1..Cardinality(B) -> B] : Enumerates(s, B)
           T == {m \in 0..n : Done(Part(m))}
<1>1. T \in SUBSET (0..n) /\ 0 \in T
  <2>1. Part(0) = {} /\ Cardinality({}) = 0 /\ 1..0 = {}
    BY FS_EmptySet
  <2>2. <<>> \in [1..0 -> {}] /\ Enumerates(<<>>, {})
    BY DEF Enumerates
  <2>3. Done(Part(0))
    BY <2>1, <2>2
  <2> HIDE DEF Done
  <2> QED BY <2>3
<1>2. ASSUME NEW m \in T, m < n PROVE m + 1 \in T
  <2>1. m \in 0..n /\ Done(Part(m))
    OBVIOUS
  <2>2. m \in Nat /\ m + 1 \in 0..n /\ Part(m) \in SUBSET (1..m)
    BY <2>1, <1>2
  <2>3. CASE m + 1 \in A
    <3>1. Part(m + 1) = Part(m) \cup {m + 1}
      BY <2>2, <2>3
    <3> HIDE DEF Part
    <3>2. Done(Part(m) \cup {m + 1})
      BY <2>1, <2>2, EnumerationExtends
    <3> HIDE DEF Done
    <3> QED BY <2>2, <3>1, <3>2, <3>2
  <2>4. CASE m + 1 \notin A
    <3>1. Part(m + 1) = Part(m)
      BY <2>2, <2>4
    <3> HIDE DEF Part, Done
    <3> QED BY <2>1, <2>2, <3>1
  <2> QED BY <2>3, <2>4
<1>3. T = 0..n
  <2> HIDE DEF T
  <2> QED BY <1>1, <1>2, UpTo
<1>4. n \in T
  <2> HIDE DEF T
  <2> QED BY <1>3
<1>5. Part(n) = A
  OBVIOUS
<1> HIDE DEF Part
<1> QED BY <1>4, <1>5
=============================================================================

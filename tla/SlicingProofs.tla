--------------------------- MODULE SlicingProofs ----------------------------
(***************************************************************************)
(* Lemmas about the pieces of a package, about the headers senders make    *)
(* for its slices and about the rounds of mp_tx_stream_feed: what the      *)
(* proofs about the sending direction share.                               *)
(***************************************************************************)
EXTENDS StreamTx, MPRxProofs, SequenceTheorems

\* What is left of a byte position when whole slices are taken off.
LEMMA RemainderOfPosition ==
    ASSUME NEW q \in Nat, NEW r \in Nat, NEW m \in Nat \ {0}, r < m
    PROVE  (q * m + r) % m = r
  <1> DEFINE x == q * m + r
             d == x \div m
             e == x % m
  <1>1. x \in Nat
    <2>1. q * m \in Nat  OBVIOUS
    <2> QED BY <2>1
  <1>2. d = q
    BY SliceOfPosition
  <1>3. x = q * m + r
    OBVIOUS
  <1> HIDE DEF x
  <1>4. x = m * d + e /\ e \in Int
    BY <1>1
  <1> HIDE DEF d, e
  <1>5. q * m + r = q * m + e /\ q * m \in Int
    BY <1>2, <1>3, <1>4
  <1>6. e = r
    BY <1>4, <1>5
  <1> QED BY <1>6 DEF e, x

\* Whole slices and a remainder, for every number of bytes.
LEMMA Division ==
    ASSUME NEW x \in Nat, NEW m \in Nat \ {0}
    PROVE  \E q \in Nat, r \in 0..(m - 1) : x = q * m + r
  <1>1. x = m * (x \div m) + (x % m) /\ x \div m \in Nat /\ x % m \in 0..(m - 1)
    BY SMT
  <1>2. m * (x \div m) = (x \div m) * m
    BY <1>1
  <1> QED BY <1>1, <1>2

\* Truncating before an addition changes nothing.
LEMMA TruncatedSum ==
    ASSUME NEW x \in Nat, NEW y \in Nat, NEW m \in Nat \ {0}
    PROVE  ((x % m) + y) % m = (x + y) % m
  <1>1. PICK q \in Nat, r \in 0..(m - 1) : x = q * m + r
    BY Division
  <1>2. PICK p \in Nat, t \in 0..(m - 1) : r + y = p * m + t
    <2>1. r + y \in Nat
      OBVIOUS
    <2> QED BY <2>1, Division
  <1>3. r \in Nat /\ r < m /\ t \in Nat /\ t < m /\ q + p \in Nat
    OBVIOUS
  <1>4. x % m = r
    <2>1. (q * m + r) % m = r
      BY <1>3, RemainderOfPosition
    <2> QED BY <1>1, <2>1
  <1>5. (r + y) % m = t
    <2>1. (p * m + t) % m = t
      BY <1>3, RemainderOfPosition
    <2> QED BY <1>2, <2>1
  <1>6. x + y = (q + p) * m + t
    <2>1. (q + p) * m = q * m + p * m /\ q * m \in Nat /\ p * m \in Nat
      OBVIOUS
    <2> QED BY <1>1, <1>2, <1>3, <2>1
  <1>7. (x + y) % m = t
    <2>1. ((q + p) * m + t) % m = t
      BY <1>3, RemainderOfPosition
    <2> QED BY <1>6, <2>1
  <1> QED BY <1>4, <1>5, <1>7

-----------------------------------------------------------------------------
(* Pieces of a package as sequences *)

\* A piece is a sequence of its length.
LEMMA PieceIsSeq ==
    ASSUME NEW from \in Nat, NEW n \in Nat
    PROVE  /\ Piece(from, n) \in Seq(Int) /\ Len(Piece(from, n)) = n
           /\ \A k \in 1..n : Piece(from, n)[k] = from + k - 1
  BY DEF Piece

\* The empty piece is the empty sequence.
LEMMA NoPiece ==
    ASSUME NEW from \in Nat
    PROVE  Piece(from, 0) = <<>>
  <1>1. Piece(from, 0) \in Seq(Int) /\ Len(Piece(from, 0)) = 0
    BY PieceIsSeq
  <1> QED BY <1>1, EmptySeq

\* Two pieces that follow each other are one.
LEMMA PiecesJoin ==
    ASSUME NEW from \in Nat, NEW m \in Nat, NEW n \in Nat
    PROVE  Piece(from, m) \o Piece(from + m, n) = Piece(from, m + n)
  <1> DEFINE a == Piece(from, m)
             b == Piece(from + m, n)
             c == Piece(from, m + n)
  <1> from + m \in Nat /\ m + n \in Nat
    OBVIOUS
  <1>1. /\ a \in Seq(Int) /\ Len(a) = m /\ \A k \in 1..m : a[k] = from + k - 1
        /\ b \in Seq(Int) /\ Len(b) = n /\ \A k \in 1..n : b[k] = from + m + k - 1
        /\ c \in Seq(Int) /\ Len(c) = m + n /\ \A k \in 1..(m + n) : c[k] = from + k - 1
    BY PieceIsSeq
  <1> HIDE DEF a, b, c
  <1>2. /\ a \o b \in Seq(Int) /\ Len(a \o b) = m + n
        /\ \A k \in 1..(m + n) : (a \o b)[k] = IF k <= m THEN a[k] ELSE b[k - m]
    <2>1. a \in Seq(Int) /\ b \in Seq(Int) /\ Len(a) = m /\ Len(b) = n
      BY <1>1
    <2>2. /\ a \o b \in Seq(Int) /\ Len(a \o b) = Len(a) + Len(b)
          /\ \A k \in 1..(Len(a) + Len(b)) :
                 (a \o b)[k] = IF k <= Len(a) THEN a[k] ELSE b[k - Len(a)]
      BY ONLY <2>1, ConcatProperties
    <2> QED BY <2>1, <2>2
  <1>3. \A k \in 1..(m + n) : (a \o b)[k] = c[k]
    <2> TAKE k \in 1..(m + n)
    <2>1. CASE k <= m
      BY <1>1, <1>2, <2>1
    <2>2. CASE ~ (k <= m)
      <3>1. k - m \in 1..n /\ k > m
        BY <2>2
      <3> DEFINE i == k - m
      <3>2. (a \o b)[k] = b[i] /\ c[k] = from + k - 1
        BY <1>1, <1>2, <2>2
      <3>3. i \in 1..n /\ from + m + i - 1 = from + k - 1
        BY <3>1
      <3> HIDE DEF i
      <3>4. b[i] = from + m + i - 1
        BY <1>1, <3>3
      <3> QED BY <3>2, <3>3, <3>4
    <2> QED BY <2>1, <2>2
  <1>4. a \o b = c
    BY <1>1, <1>2, <1>3, SeqEqual
  <1> QED BY <1>4 DEF a, b, c

\* A part of a piece is a piece.
LEMMA PartOfPiece ==
    ASSUME NEW from \in Nat, NEW n \in Nat, NEW i \in 0..n, NEW j \in 0..n, i <= j
    PROVE  SubSeq(Piece(from, n), i + 1, j) = Piece(from + i, j - i)
  <1> DEFINE a == Piece(from, n)
             b == Piece(from + i, j - i)
             c == SubSeq(a, i + 1, j)
  <1> from + i \in Nat /\ j - i \in Nat
    OBVIOUS
  <1>1. /\ a \in Seq(Int) /\ Len(a) = n /\ \A k \in 1..n : a[k] = from + k - 1
        /\ b \in Seq(Int) /\ Len(b) = j - i
        /\ \A k \in 1..(j - i) : b[k] = from + i + k - 1
    BY PieceIsSeq
  <1>2. \A k \in (i + 1)..j : a[k] \in Int
    BY <1>1
  <1> HIDE DEF a, b
  <1>3. /\ c \in Seq(Int) /\ Len(c) = j - i
        /\ \A k \in 1..(j - i) : c[k] = a[i + k]
    BY <1>2, SubSeqProperties
  <1> HIDE DEF c
  <1>4. \A k \in 1..(j - i) : c[k] = b[k]
    BY <1>1, <1>3
  <1>5. c = b
    BY <1>1, <1>3, <1>4, SeqEqual
  <1> QED BY <1>5 DEF a, b, c

-----------------------------------------------------------------------------
(* The rounds of one call of mp_tx_stream_feed *)

\* fill and size together are whole slices and a remainder: every whole slice
\* takes one round and the remainder, unless the chunk is empty, another.
LEMMA RoundsOfFeed ==
    ASSUME NEW fill \in 0..(MaxP - 1), NEW size \in Nat, NEW q \in Nat,
           NEW r \in 0..(MaxP - 1), fill + size = q * MaxP + r
    PROVE  /\ (fill + size) \div MaxP = q /\ (fill + size) % MaxP = r
           /\ size = 0 => q = 0 /\ r = fill
           /\ Rounds(fill, size) = IF size = 0 \/ r = 0 THEN q ELSE q + 1
           /\ size > 0 /\ r = 0 => q > 0
  <1> DEFINE M == MaxP
  <1> M \in Nat \ {0}
    BY MaxPFacts
  <1>0. fill \in 0..(M - 1) /\ r \in 0..(M - 1) /\ fill + size = q * M + r
    OBVIOUS
  <1> HIDE DEF M
  <1>a. q * M \in Nat
    OBVIOUS
  <1>b. r \in Nat /\ r < M
    BY <1>0
  <1>1. (fill + size) \div M = q /\ (fill + size) % M = r
    <2>1. (q * M + r) \div M = q
      BY <1>b, SliceOfPosition
    <2>2. (q * M + r) % M = r
      BY <1>b, RemainderOfPosition
    <2> QED BY <1>0, <2>1, <2>2
  <1>2. CASE size = 0
    <2>1. q = 0
      <3>1. ASSUME q # 0 PROVE FALSE
        <4>1. M <= q * M  BY <3>1
        <4> QED BY <4>1, <1>2, <1>0, <1>a
      <3> QED BY <3>1
    <2> QED BY <1>0, <1>1, <1>2, <2>1 DEF Rounds, M
  <1>3. CASE size > 0 /\ r = 0
    <2>1. q # 0
      BY <1>0, <1>3
    <2>2. (q - 1) * M = q * M - M
      OBVIOUS
    <2>3. fill + size - 1 = (q - 1) * M + (M - 1)
      BY <1>0, <1>3, <2>2
    <2>4. ((q - 1) * M + (M - 1)) \div M = q - 1
      <3>1. q - 1 \in Nat /\ M - 1 \in Nat /\ M - 1 < M
        BY <2>1
      <3> QED BY <3>1, SliceOfPosition
    <2>5. (fill + size - 1) \div M = q - 1
      BY <2>3, <2>4
    <2>6. Rounds(fill, size) = q
      BY <2>5, <1>3 DEF Rounds, M
    <2> QED BY <1>1, <1>3, <2>1, <2>6 DEF M
  <1>4. CASE size > 0 /\ r > 0
    <2>1. fill + size - 1 = q * M + (r - 1)
      BY <1>0, <1>a
    <2>2. (q * M + (r - 1)) \div M = q
      <3>1. r - 1 \in Nat /\ r - 1 < M
        BY <1>b, <1>4
      <3> QED BY <3>1, SliceOfPosition
    <2>3. (fill + size - 1) \div M = q
      BY <2>1, <2>2
    <2>4. Rounds(fill, size) = q + 1
      BY <2>3, <1>4 DEF Rounds, M
    <2> QED BY <1>1, <1>4, <2>4 DEF M
  <1> QED BY <1>0, <1>2, <1>3, <1>4

\* What the rounds take from the chunk: up to the end of a slice each, the
\* rest of the chunk in the last.
LEMMA TakenByRounds ==
    ASSUME NEW fill \in 0..(MaxP - 1), NEW size \in Nat, NEW q \in Nat,
           NEW r \in 0..(MaxP - 1), fill + size = q * MaxP + r
    PROVE  /\ Taken(fill, size, 0) = 0
           /\ \A k \in 1..q : /\ Taken(fill, size, k) = k * MaxP - fill
                              /\ Taken(fill, size, k) \in 0..size
           /\ Taken(fill, size, q + 1) = size
  <1> DEFINE M == MaxP
  <1> M \in Nat \ {0}
    BY MaxPFacts
  <1>0. fill \in 0..(M - 1) /\ r \in 0..(M - 1) /\ fill + size = q * M + r
    OBVIOUS
  <1> HIDE DEF M
  <1>a. q * M \in Nat /\ (q + 1) * M = q * M + M
    OBVIOUS
  <1>1. ASSUME NEW k \in 1..q
        PROVE  Taken(fill, size, k) = k * M - fill /\ Taken(fill, size, k) \in 0..size
    <2>1. k * M \in Nat /\ M <= k * M
      BY SMT
    <2>2. k * M <= q * M
      <3>1. CASE k = q  BY <3>1, <2>1
      <3>2. CASE k < q
        <4>1. k * M + M <= q * M  BY <3>2, MultiplesGrow
        <4> QED BY <4>1, <2>1, <1>a
      <3> QED BY <3>1, <3>2
    <2>3. k * M - fill <= size /\ k * M - fill >= 0
      BY <2>1, <2>2, <1>0, <1>a
    <2> QED BY <2>1, <2>3, <1>0 DEF Taken, M
  <1>2. Taken(fill, size, q + 1) = size
    BY <1>0, <1>a DEF Taken, M
  <1> QED BY <1>1, <1>2 DEF Taken, M

\* A header is not NULL.
LEMMA HeaderIsThere ==
    ASSUME NEW cursor, NEW size, NEW end
    PROVE  mp_tx_prepare(TU, cursor, size, end).header # NoHeader
  BY DEF mp_tx_prepare, mp_tx_make_header, NoHeader
=============================================================================

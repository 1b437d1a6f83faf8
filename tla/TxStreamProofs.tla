--------------------------- MODULE TxStreamProofs ---------------------------
(***************************************************************************)
(* What TxStream guarantees, for packages of every size and every chunk    *)
(* that pb_ostream_pipeline passes on whole.  In the middle is IInv:       *)
(* between the calls the emitted frames are the slices before the byte     *)
(* where the stream stands, and the bytes behind them are held.            *)
(***************************************************************************)
EXTENDS TxStream, SlicingProofs

\* A uint16_t counts every chunk.  pb_ostream_pipeline does not check it, and drops
\* bytes of a longer chunk.
ChunksFit == MaxChunk < U16

-----------------------------------------------------------------------------
(* The pushes of one call *)

\* The part of a chunk that round k takes.
PartTaken(from, fill, size, k) ==
    SubSeq(Piece(from, size), Taken(fill, size, k - 1) + 1, Taken(fill, size, k))

\* The chunk is cut where the slices end.
LEMMA PartsTaken ==
    ASSUME NEW from \in Nat, NEW fill \in 0..(MaxP - 1), NEW size \in Nat, NEW q \in Nat,
           NEW r \in 0..(MaxP - 1), fill + size = q * MaxP + r
    PROVE  /\ \A k \in 1..q :
                  PartTaken(from, fill, size, k) =
                      IF k = 1 THEN Piece(from, MaxP - fill)
                      ELSE Piece(from + ((k - 1) * MaxP - fill), MaxP)
           /\ PartTaken(from, fill, size, q + 1) =
                  IF q = 0 THEN Piece(from, size)
                  ELSE Piece(from + (q * MaxP - fill), r)
  <1>0. MaxP \in Nat \ {0} /\ fill \in Nat /\ fill < MaxP /\ r \in Nat /\ r < MaxP
    BY MaxPFacts
  <1>1. /\ Taken(fill, size, 0) = 0
        /\ \A k \in 1..q : /\ Taken(fill, size, k) = k * MaxP - fill
                           /\ Taken(fill, size, k) \in 0..size
        /\ Taken(fill, size, q + 1) = size
    BY TakenByRounds
  <1>2. ASSUME NEW k \in 1..q
        PROVE  PartTaken(from, fill, size, k) =
                   IF k = 1 THEN Piece(from, MaxP - fill)
                   ELSE Piece(from + ((k - 1) * MaxP - fill), MaxP)
    <2>1. CASE k = 1
      <3>1. Taken(fill, size, k - 1) = 0
        BY <1>1, <2>1
      <3>2. Taken(fill, size, k) = MaxP - fill /\ MaxP - fill \in 0..size
        BY <1>0, <1>1, <2>1
      <3>3. 0 \in 0..size /\ 0 <= MaxP - fill
        BY <1>0
      <3>4. SubSeq(Piece(from, size), 0 + 1, MaxP - fill) = Piece(from + 0, (MaxP - fill) - 0)
        BY <3>2, <3>3, PartOfPiece
      <3>5. from + 0 = from /\ (MaxP - fill) - 0 = MaxP - fill
        BY <1>0
      <3> QED BY <2>1, <3>1, <3>2, <3>4, <3>5 DEF PartTaken
    <2>2. CASE k # 1
      <3> DEFINE a == (k - 1) * MaxP - fill
                 b == k * MaxP - fill
      <3>1. k - 1 \in 1..q
        BY <2>2
      <3>2. Taken(fill, size, k - 1) = a /\ Taken(fill, size, k) = b
            /\ a \in 0..size /\ b \in 0..size
        BY <1>1, <3>1
      <3>3. b - a = MaxP
        <4>1. k * MaxP = (k - 1) * MaxP + MaxP /\ (k - 1) * MaxP \in Int
          BY <1>0
        <4> QED BY <1>0, <4>1
      <3> HIDE DEF a, b
      <3>4. a <= b
        BY <1>0, <3>2, <3>3
      <3>5. SubSeq(Piece(from, size), a + 1, b) = Piece(from + a, b - a)
        BY <3>2, <3>4, PartOfPiece
      <3>6. PartTaken(from, fill, size, k) = Piece(from + a, MaxP)
        BY <3>2, <3>3, <3>5 DEF PartTaken
      <3> QED BY <2>2, <3>6 DEF a
    <2> QED BY <2>1, <2>2
  <1>3. PartTaken(from, fill, size, q + 1) =
            IF q = 0 THEN Piece(from, size) ELSE Piece(from + (q * MaxP - fill), r)
    <2>0. (q + 1) - 1 = q
      OBVIOUS
    <2>1. CASE q = 0
      <3>1. 0 \in 0..size /\ size \in 0..size /\ 0 <= size /\ from + 0 = from /\ size - 0 = size
        OBVIOUS
      <3>2. SubSeq(Piece(from, size), 0 + 1, size) = Piece(from + 0, size - 0)
        BY <3>1, PartOfPiece
      <3> QED BY <1>1, <2>0, <2>1, <3>1, <3>2 DEF PartTaken
    <2>2. CASE q # 0
      <3> DEFINE a == q * MaxP - fill
      <3>1. Taken(fill, size, q) = a /\ a \in 0..size
        BY <1>1, <2>2
      <3>2. size - a = r
        <4>1. q * MaxP \in Int
          BY <1>0
        <4> QED BY <1>0, <4>1
      <3> HIDE DEF a
      <3>3. size \in 0..size /\ a <= size
        BY <3>1
      <3>4. SubSeq(Piece(from, size), a + 1, size) = Piece(from + a, size - a)
        BY <3>1, <3>3, PartOfPiece
      <3>5. PartTaken(from, fill, size, q + 1) = Piece(from + a, r)
        BY <1>1, <2>0, <3>1, <3>2, <3>4 DEF PartTaken
      <3> QED BY <2>2, <3>5 DEF a
    <2> QED BY <2>1, <2>2
  <1> QED BY <1>2, <1>3

\* Round k of a call of mp_tx_stream_feed in which q slices are filled.
PushOfRound(s, from, size, q, k) ==
    [header |-> IF k <= q
                THEN mp_tx_prepare(TU, CursorAfter(s.cursor, k - 1), MaxP, FALSE).header
                ELSE NoHeader,
     data   |-> PartTaken(from, s.fill, size, k)]

\* The call leaves the stream with this cursor and fill and makes the pushes ps.
Gives(call, cursor, fill, ps) ==
    call = [stream |-> [cursor |-> cursor, fill |-> fill], pushes |-> ps]

\* A call of mp_tx_stream_feed with a piece of the package.
LEMMA PushesOfFeed ==
    ASSUME NEW s, s.fill \in 0..(MaxP - 1), NEW from \in Nat, NEW size \in Nat,
           NEW q \in Nat, NEW r \in 0..(MaxP - 1), s.fill + size = q * MaxP + r,
           NEW n, n = IF size = 0 \/ r = 0 THEN q ELSE q + 1,
           NEW ps, ps = [k \in 1..n |-> PushOfRound(s, from, size, q, k)]
    PROVE  Gives(mp_tx_stream_feed(s, Piece(from, size)), CursorAfter(s.cursor, q), r, ps)
  <1>1. Len(Piece(from, size)) = size
    BY PieceIsSeq
  <1>2. (s.fill + size) \div MaxP = q /\ (s.fill + size) % MaxP = r /\ Rounds(s.fill, size) = n
    BY RoundsOfFeed
  <1> QED BY <1>1, <1>2 DEF mp_tx_stream_feed, PushOfRound, PartTaken, Gives

-----------------------------------------------------------------------------
(* The inductive invariant *)

\* The frame that the stream of package id makes of slice i.
FrameOf(id, i, size, end) ==
    [header |-> mp_header_pack(mp_tx_make_header(TU,
                    [sender_id |-> 3, package_id |-> id, offset |-> (i * MaxP) % U16],
                    size, end)),
     data   |-> Piece(i * MaxP, size)]

AllFrames == [header : Int \X Int \X Int \X Int, data : Seq(Int)]

LEMMA FrameIsOne ==
    ASSUME NEW id \in PackageIds, NEW i \in Nat, NEW size \in 0..MaxP, NEW end \in BOOLEAN
    PROVE  FrameOf(id, i, size, end) \in AllFrames
  <1> DEFINE at == [sender_id |-> 3, package_id |-> id, offset |-> (i * MaxP) % U16]
             h  == mp_tx_make_header(TU, at, size, end)
  <1>0. /\ MaxP \in Nat \ {0} /\ U16 \in Nat \ {0} /\ U8 \in Nat \ {0} /\ i * MaxP \in Nat
        /\ size \in Nat
    BY MaxPFacts, Widths
  <1>1. mp_offset_to_slice_idx((i * MaxP) % U16, mp_max_payload(TU)) \in Int
    <2>1. (i * MaxP) % U16 \in Nat
      BY <1>0
    <2> QED BY <1>0, <2>1 DEF mp_offset_to_slice_idx, MaxP
  <1>2. h = [package_serial     |-> id,
             slice_serial       |-> mp_offset_to_slice_idx((i * MaxP) % U16, mp_max_payload(TU)),
             sender_id          |-> 3,
             eop                |-> IF end THEN 1 ELSE 0,
             slice_payload_size |-> size]
    BY DEF mp_tx_make_header
  <1>3. id \in Int /\ h.eop \in Int
    BY <1>0, <1>2 DEF PackageIds
  <1> HIDE DEF h
  <1>4. h.package_serial \in Int /\ h.slice_serial \in Int /\ h.sender_id = 3
        /\ h.slice_payload_size \in Nat
    BY <1>0, <1>1, <1>2, <1>3
  <1>5. (h.sender_id % 8) + 8 * h.eop + 16 * (h.slice_payload_size % 16) \in Int
        /\ (h.slice_payload_size \div 16) % 256 \in Int
    BY <1>3, <1>4
  <1>6. mp_header_pack(h) \in Int \X Int \X Int \X Int
    BY <1>4, <1>5 DEF mp_header_pack
  <1>7. Piece(i * MaxP, size) \in Seq(Int)
    BY <1>0, PieceIsSeq
  <1> QED BY <1>6, <1>7 DEF FrameOf, AllFrames, h

\* The cursor stands behind the emitted frames.
StreamAt(s, id, n, fill) ==
    s = [cursor |-> [sender_id |-> 3, package_id |-> id, offset |-> (n * MaxP) % U16],
         fill   |-> fill]

\* n full frames have been emitted and n * MaxP + fill bytes fed.
Sending(id, n, fill) ==
    /\ StreamAt(stream, id, n, fill)
    /\ Len(frames) = n
    /\ held = Piece(n * MaxP, fill)
    /\ fed = n * MaxP + fill
    /\ \A k \in 1..n : frames[k] = FrameOf(id, k - 1, MaxP, FALSE)

\* n full frames and the last one, of size bytes, have been emitted.
Finished(id, n, size) ==
    /\ StreamAt(stream, id, n + 1, 0)
    /\ Len(frames) = n + 1
    /\ held = <<>>
    /\ fed = n * MaxP + size
    /\ \A k \in 1..n : frames[k] = FrameOf(id, k - 1, MaxP, FALSE)
    /\ frames[n + 1] = FrameOf(id, n, size, TRUE)

IInv ==
    /\ fed \in 0..MaxBytes /\ final \in BOOLEAN /\ frames \in Seq(AllFrames)
    /\ \E id \in PackageIds, n \in Nat, size \in 0..(MaxP - 1) :
           IF final THEN Finished(id, n, size) ELSE Sending(id, n, size)

\* The first package starts at its first byte.
LEMMA InitIInv == Init => IInv
  <1> SUFFICES ASSUME Init PROVE IInv
    OBVIOUS
  <1>0. MaxP \in Nat \ {0} /\ U16 \in Nat \ {0} /\ U8 \in Nat \ {0} /\ MaxBytes \in Nat
    BY MaxPFacts, Widths, BoundAssumption
  <1>1. 0 * MaxP = 0 /\ 0 % U16 = 0 /\ 0 + 0 = 0
    BY <1>0
  <1>2. Sending(0, 0, 0)
    <2>1. Piece(0, 0) = <<>>
      BY NoPiece
    <2>2. StreamAt(stream, 0, 0, 0)
      BY <1>1 DEF Init, Start, StreamAt
    <2> QED BY <1>1, <2>1, <2>2 DEF Init, Sending
  <1>3. 0 \in PackageIds /\ 0 \in 0..(MaxP - 1) /\ 0 \in Nat
    BY <1>0 DEF PackageIds
  <1>4. fed \in 0..MaxBytes /\ final = FALSE /\ frames \in Seq(AllFrames)
    BY <1>0 DEF Init
  <1> QED BY <1>2, <1>3, <1>4 DEF IInv

\* The cursor of a stream that has gone n slices, after k more.
LEMMA CursorMoves ==
    ASSUME NEW s, NEW id, NEW n \in Nat, NEW fill, StreamAt(s, id, n, fill), NEW k \in Nat
    PROVE  CursorAfter(s.cursor, k) =
               [sender_id |-> 3, package_id |-> id, offset |-> ((n + k) * MaxP) % U16]
  <1>1. (((n * MaxP) % U16) + k * MaxP) % U16 = ((n + k) * MaxP) % U16
    <2>0. MaxP \in Nat \ {0} /\ U16 \in Nat \ {0}
      BY MaxPFacts, Widths
    <2>1. n * MaxP \in Nat /\ k * MaxP \in Nat /\ n * MaxP + k * MaxP = (n + k) * MaxP
      BY <2>0
    <2>2. (((n * MaxP) % U16) + k * MaxP) % U16 = (n * MaxP + k * MaxP) % U16
      BY <2>0, <2>1, TruncatedSum
    <2> QED BY <2>1, <2>2
  <1>2. s.cursor = [sender_id |-> 3, package_id |-> id, offset |-> (n * MaxP) % U16]
    BY DEF StreamAt
  <1> QED BY <1>1, <1>2 DEF CursorAfter

\* hs is fs with gs behind it.
Follows(hs, fs, gs, n, m) ==
    /\ hs \in Seq(AllFrames) /\ Len(hs) = n + m
    /\ \A k \in 1..n : hs[k] = fs[k]
    /\ \A k \in 1..m : hs[n + k] = gs[k]

\* More frames behind those emitted.
LEMMA MoreFrames ==
    ASSUME NEW fs \in Seq(AllFrames), NEW gs \in Seq(AllFrames), NEW n \in Nat, NEW m \in Nat,
           Len(fs) = n, Len(gs) = m
    PROVE  Follows(fs \o gs, fs, gs, n, m)
  <1>1. /\ fs \o gs \in Seq(AllFrames) /\ Len(fs \o gs) = n + m
        /\ \A k \in 1..(n + m) : (fs \o gs)[k] = IF k <= n THEN fs[k] ELSE gs[k - n]
    BY ConcatProperties
  <1>2. ASSUME NEW k \in 1..n PROVE (fs \o gs)[k] = fs[k]
    <2>1. k \in 1..(n + m) /\ k <= n
      OBVIOUS
    <2> QED BY <1>1, <2>1
  <1>3. ASSUME NEW k \in 1..m PROVE (fs \o gs)[n + k] = gs[k]
    <2>1. n + k \in 1..(n + m) /\ ~ (n + k <= n) /\ (n + k) - n = k
      OBVIOUS
    <2> QED BY <1>1, <2>1
  <1> QED BY <1>1, <1>2, <1>3 DEF Follows

\* Push k has a header and completes a frame.
Completes(ps, k, frame) ==
    /\ ps[k].header # NoHeader
    /\ [header |-> mp_header_pack(ps[k].header), data |-> Collected(ps, k)] = frame

\* Round k of a call completes frame n + k.
LEMMA RoundEndsFrame ==
    ASSUME NEW id \in PackageIds, NEW n \in Nat, NEW fill \in 0..(MaxP - 1),
           Sending(id, n, fill), NEW size \in Nat,
           NEW q \in Nat, NEW r \in 0..(MaxP - 1), fill + size = q * MaxP + r,
           NEW ps, NEW k \in 1..q, ps[k] = PushOfRound(stream, fed, size, q, k)
    PROVE  Completes(ps, k, FrameOf(id, n + k - 1, MaxP, FALSE))
  <1> DEFINE at == [sender_id |-> 3, package_id |-> id, offset |-> ((n + k - 1) * MaxP) % U16]
  <1>0. /\ MaxP \in Nat \ {0} /\ fill \in Nat /\ fill < MaxP
        /\ n * MaxP \in Nat /\ k - 1 \in Nat /\ n + k - 1 = n + (k - 1) /\ k <= q
    BY MaxPFacts
  <1>1. /\ stream.fill = fill /\ StreamAt(stream, id, n, fill)
        /\ held = Piece(n * MaxP, fill) /\ fed = n * MaxP + fill /\ fed \in Nat
    BY <1>0 DEF Sending, StreamAt
  <1>2. ps[k].header = mp_tx_prepare(TU, CursorAfter(stream.cursor, k - 1), MaxP, FALSE).header
    BY <1>0 DEF PushOfRound
  <1>3. CursorAfter(stream.cursor, k - 1) = at
    <2>1. CursorAfter(stream.cursor, k - 1) =
              [sender_id |-> 3, package_id |-> id, offset |-> ((n + (k - 1)) * MaxP) % U16]
      <3> DEFINE j == k - 1
      <3>1. j \in Nat /\ StreamAt(stream, id, n, fill)
        BY <1>0, <1>1
      <3> HIDE DEF j
      <3>2. CursorAfter(stream.cursor, j) =
                [sender_id |-> 3, package_id |-> id, offset |-> ((n + j) * MaxP) % U16]
        BY <3>1, CursorMoves
      <3> QED BY <3>2 DEF j
    <2> QED BY <1>0, <2>1
  <1>4. ps[k].header = mp_tx_make_header(TU, at, MaxP, FALSE)
    BY <1>2, <1>3 DEF mp_tx_prepare
  <1>5. ps[k].data = IF k = 1 THEN Piece(fed, MaxP - fill)
                     ELSE Piece(fed + ((k - 1) * MaxP - fill), MaxP)
    <2>1. ps[k].data = PartTaken(fed, fill, size, k)
      BY <1>1 DEF PushOfRound
    <2> QED BY <1>1, <2>1, PartsTaken
  <1>6. Collected(ps, k) = Piece((n + k - 1) * MaxP, MaxP)
    <2>1. CASE k = 1
      <3>1. ps[1].data = Piece(n * MaxP + fill, MaxP - fill)
        BY <1>1, <1>5, <2>1
      <3>2. Collected(ps, k) = Piece(n * MaxP, fill) \o Piece(n * MaxP + fill, MaxP - fill)
        BY <1>1, <2>1, <3>1 DEF Collected
      <3>3. MaxP - fill \in Nat /\ fill + (MaxP - fill) = MaxP /\ n + k - 1 = n
        BY <1>0, <2>1
      <3>4. Piece(n * MaxP, fill) \o Piece(n * MaxP + fill, MaxP - fill)
                = Piece(n * MaxP, fill + (MaxP - fill))
        <4> DEFINE from == n * MaxP
                   room == MaxP - fill
        <4>1. from \in Nat /\ room \in Nat /\ fill \in Nat
          BY <1>0, <3>3
        <4> HIDE DEF from, room
        <4>2. Piece(from, fill) \o Piece(from + fill, room) = Piece(from, fill + room)
          BY ONLY <4>1, PiecesJoin
        <4> QED BY <4>2 DEF from, room
      <3> QED BY <3>2, <3>3, <3>4
    <2>2. CASE k # 1
      <3>1. Collected(ps, k) = Piece(fed + ((k - 1) * MaxP - fill), MaxP)
        BY <1>5, <2>2 DEF Collected
      <3>2. fed + ((k - 1) * MaxP - fill) = (n + k - 1) * MaxP
        <4>1. (k - 1) * MaxP \in Nat /\ (n + (k - 1)) * MaxP = n * MaxP + (k - 1) * MaxP
          BY <1>0
        <4> QED BY <1>0, <1>1, <4>1
      <3> QED BY <3>1, <3>2
    <2> QED BY <2>1, <2>2
  <1>7. ps[k].header # NoHeader
    BY <1>2, HeaderIsThere
  <1> QED BY <1>4, <1>6, <1>7 DEF FrameOf, Completes

\* A last round that fills no slice leaves its bytes held.
LEMMA RoundIsHeld ==
    ASSUME NEW id \in PackageIds, NEW n \in Nat, NEW fill \in 0..(MaxP - 1),
           Sending(id, n, fill), NEW size \in Nat,
           NEW q \in Nat, NEW r \in 0..(MaxP - 1), fill + size = q * MaxP + r,
           NEW ps, ps[q + 1] = PushOfRound(stream, fed, size, q, q + 1)
    PROVE  ps[q + 1].header = NoHeader /\ Collected(ps, q + 1) = Piece((n + q) * MaxP, r)
  <1>0. /\ MaxP \in Nat \ {0} /\ fill \in Nat /\ fill < MaxP /\ r \in Nat
        /\ n * MaxP \in Nat /\ q * MaxP \in Nat /\ (n + q) * MaxP = n * MaxP + q * MaxP
        /\ ~ (q + 1 <= q)
    BY MaxPFacts
  <1>1. /\ stream.fill = fill /\ held = Piece(n * MaxP, fill)
        /\ fed = n * MaxP + fill /\ fed \in Nat
    BY <1>0 DEF Sending, StreamAt
  <1>2. ps[q + 1].header = NoHeader
    BY <1>0 DEF PushOfRound
  <1>3. ps[q + 1].data = IF q = 0 THEN Piece(fed, size)
                         ELSE Piece(fed + (q * MaxP - fill), r)
    <2>1. ps[q + 1].data = PartTaken(fed, fill, size, q + 1)
      BY <1>1 DEF PushOfRound
    <2> QED BY <1>1, <2>1, PartsTaken
  <1>4. CASE q = 0
    <2>1. q + 1 = 1 /\ ps[1].data = Piece(n * MaxP + fill, size)
      BY <1>1, <1>3, <1>4
    <2>2. Collected(ps, q + 1) = Piece(n * MaxP, fill) \o Piece(n * MaxP + fill, size)
      BY <1>1, <2>1 DEF Collected
    <2>3. Piece(n * MaxP, fill) \o Piece(n * MaxP + fill, size) = Piece(n * MaxP, fill + size)
      <3> DEFINE from == n * MaxP
      <3>1. from \in Nat /\ fill \in Nat /\ size \in Nat
        BY <1>0
      <3> HIDE DEF from
      <3>2. Piece(from, fill) \o Piece(from + fill, size) = Piece(from, fill + size)
        BY <3>1, PiecesJoin, Zenon
      <3> QED BY <3>2 DEF from
    <2>4. fill + size = r /\ n + q = n
      BY <1>0, <1>4
    <2> QED BY <1>2, <2>2, <2>3, <2>4
  <1>5. CASE q # 0
    <2>1. q + 1 # 1
      BY <1>5
    <2>2. Collected(ps, q + 1) = Piece(fed + (q * MaxP - fill), r)
      BY <1>3, <1>5, <2>1 DEF Collected
    <2>3. fed + (q * MaxP - fill) = (n + q) * MaxP
      BY <1>0, <1>1
    <2> QED BY <1>2, <2>2, <2>3
  <1> QED BY <1>4, <1>5

\* The pushes leave h with the downstream and add the frames gs.
Leaves(ps, h, gs) == AfterPushes(ps) = [held |-> h, frames |-> frames \o gs]

\* What the downstream makes of a call that fills q slices and leaves r bytes.
LEMMA FeedEmits ==
    ASSUME NEW id \in PackageIds, NEW n \in Nat, NEW fill \in 0..(MaxP - 1),
           Sending(id, n, fill), NEW size \in Nat,
           NEW q \in Nat, NEW r \in 0..(MaxP - 1), fill + size = q * MaxP + r,
           NEW m, m = IF size = 0 \/ r = 0 THEN q ELSE q + 1,
           NEW ps, ps = [k \in 1..m |-> PushOfRound(stream, fed, size, q, k)],
           NEW gs, gs = [k \in 1..q |-> FrameOf(id, n + k - 1, MaxP, FALSE)]
    PROVE  Leaves(ps, Piece((n + q) * MaxP, r), gs)
  <1>0. /\ MaxP \in Nat \ {0} /\ fill \in Nat /\ r \in Nat
        /\ (n + q) * MaxP \in Nat
    BY MaxPFacts
  <1>1. held = Piece(n * MaxP, fill)
    BY DEF Sending
  <1>2. m \in Nat /\ q <= m /\ (m = 0 => q = 0)
    OBVIOUS
  <1>3. Len(ps) = m /\ \A k \in 1..m : ps[k] = PushOfRound(stream, fed, size, q, k)
    BY <1>2
  <1>4. \A k \in 1..q : Completes(ps, k, FrameOf(id, n + k - 1, MaxP, FALSE))
    <2> TAKE k \in 1..q
    <2>1. ps[k] = PushOfRound(stream, fed, size, q, k)
      BY <1>2, <1>3
    <2> QED BY <2>1, RoundEndsFrame
  <1>5. Ending(ps) = q
    <2>1. CASE m = 0
      BY <1>2, <1>3, <2>1 DEF Ending
    <2>2. CASE m = q /\ m # 0
      <3>1. ps[m].header # NoHeader
        <4>1. m \in 1..q
          BY <1>2, <2>2
        <4> QED BY <1>4, <4>1 DEF Completes
      <3> QED BY <1>3, <2>2, <3>1 DEF Ending
    <2>3. CASE m = q + 1
      <3>1. ps[m].header = NoHeader
        <4>1. ps[q + 1] = PushOfRound(stream, fed, size, q, q + 1)
          BY <1>3, <2>3
        <4> QED BY <2>3, <4>1, RoundIsHeld
      <3> QED BY <1>3, <2>3, <3>1 DEF Ending
    <2> QED BY <2>1, <2>2, <2>3
  <1>6. (IF ps = <<>> THEN held
         ELSE IF Ending(ps) = Len(ps) THEN <<>> ELSE Collected(ps, Len(ps)))
            = Piece((n + q) * MaxP, r)
    <2>1. CASE size = 0
      <3>1. q = 0 /\ r = fill
        BY <2>1, RoundsOfFeed
      <3>2. m = 0 /\ n + q = n
        BY <2>1, <3>1
      <3>3. ps = <<>>
        BY <3>2
      <3> QED BY <1>1, <3>1, <3>2, <3>3
    <2>2. CASE size # 0 /\ r = 0
      <3>1. q > 0 /\ m = q
        BY <2>2, RoundsOfFeed
      <3>2. ps # <<>>
        BY <1>3, <3>1
      <3> QED BY <1>0, <1>3, <1>5, <2>2, <3>1, <3>2, NoPiece
    <2>3. CASE size # 0 /\ r # 0
      <3>1. m = q + 1 /\ q # m /\ m # 0
        BY <2>3
      <3>2. ps # <<>>
        BY <1>3, <3>1
      <3>3. Collected(ps, q + 1) = Piece((n + q) * MaxP, r)
        <4>1. ps[q + 1] = PushOfRound(stream, fed, size, q, q + 1)
          BY <1>3, <3>1
        <4> QED BY <4>1, RoundIsHeld
      <3> QED BY <1>3, <1>5, <3>1, <3>2, <3>3
    <2> QED BY <2>1, <2>2, <2>3
  <1>7. [k \in 1..Ending(ps) |->
            [header |-> mp_header_pack(ps[k].header), data |-> Collected(ps, k)]]
            = gs
    BY <1>4, <1>5 DEF Completes
  <1> QED BY <1>6, <1>7 DEF AfterPushes, Leaves

LEMMA FeedStep ==
    ASSUME ChunksFit, IInv, NEW size \in 0..MaxChunk, Feed(size)
    PROVE  IInv'
  <1>0. MaxP \in Nat \ {0} /\ size \in Nat /\ MaxBytes \in Nat
    BY MaxPFacts, BoundAssumption
  <1>b. size % U16 = size
    BY <1>0, BoundAssumption, Widths, NoTruncation DEF ChunksFit
  <1>1. final = FALSE /\ final' = FALSE /\ fed' = fed + size /\ fed + size <= MaxBytes
        /\ fed \in Nat /\ frames \in Seq(AllFrames)
    BY <1>0 DEF Feed, IInv
  <1>2. PICK id \in PackageIds, n \in Nat, fill \in 0..(MaxP - 1) : Sending(id, n, fill)
    BY <1>1 DEF IInv
  <1>3. PICK q \in Nat, r \in 0..(MaxP - 1) : fill + size = q * MaxP + r
    <2>1. fill + size \in Nat
      BY <1>0
    <2> QED BY <1>0, <2>1, Division
  <1>4. PICK m : m = IF size = 0 \/ r = 0 THEN q ELSE q + 1
    OBVIOUS
  <1>5. PICK ps : ps = [k \in 1..m |-> PushOfRound(stream, fed, size, q, k)]
    OBVIOUS
  <1>6. stream.fill = fill /\ StreamAt(stream, id, n, fill)
    BY <1>2 DEF Sending, StreamAt
  <1>7. mp_tx_stream_feed(stream, Piece(fed, size))
            = [stream |-> [cursor |-> CursorAfter(stream.cursor, q), fill |-> r], pushes |-> ps]
    <2>1. stream.fill \in 0..(MaxP - 1) /\ stream.fill + size = q * MaxP + r
      BY <1>3, <1>6
    <2>2. size \in Nat /\ fed \in Nat
      BY <1>0, <1>1
    <2>3. Gives(mp_tx_stream_feed(stream, Piece(fed, size)), CursorAfter(stream.cursor, q), r, ps)
      BY <1>4, <1>5, <2>1, <2>2, PushesOfFeed
    <2> QED BY <2>3 DEF Gives
  <1>a. PICK gs : gs = [k \in 1..q |-> FrameOf(id, n + k - 1, MaxP, FALSE)]
    OBVIOUS
  <1>8. Leaves(ps, Piece((n + q) * MaxP, r), gs)
    BY <1>0, <1>2, <1>3, <1>4, <1>5, <1>a, FeedEmits
  <1>9. /\ stream' = [cursor |-> CursorAfter(stream.cursor, q), fill |-> r]
        /\ held' = Piece((n + q) * MaxP, r) /\ frames' = frames \o gs
    BY <1>7, <1>8, <1>b DEF Feed, Take, Leaves
  <1>10. StreamAt(stream', id, n + q, r)
    <2>1. CursorAfter(stream.cursor, q) =
              [sender_id |-> 3, package_id |-> id, offset |-> ((n + q) * MaxP) % U16]
      BY <1>6, CursorMoves
    <2> QED BY <1>9, <2>1 DEF StreamAt
  <1>11. gs \in Seq(AllFrames) /\ Len(gs) = q
         /\ \A k \in 1..q : gs[k] = FrameOf(id, n + k - 1, MaxP, FALSE)
    <2>1. \A k \in 1..q : FrameOf(id, n + k - 1, MaxP, FALSE) \in AllFrames
      <3> TAKE k \in 1..q
      <3>1. n + k - 1 \in Nat /\ MaxP \in 0..MaxP /\ FALSE \in BOOLEAN
        BY <1>0
      <3> QED BY <3>1, FrameIsOne
    <2>2. gs \in [1..q -> AllFrames]
      BY <1>a, <2>1
    <2>3. gs \in Seq(AllFrames) /\ Len(gs) = q
      BY <2>2
    <2> QED BY <1>a, <2>3
  <1>12. Len(frames) = n /\ fed = n * MaxP + fill
         /\ \A k \in 1..n : frames[k] = FrameOf(id, k - 1, MaxP, FALSE)
    BY <1>2 DEF Sending
  <1>13. /\ frames' \in Seq(AllFrames) /\ Len(frames') = n + q
         /\ \A k \in 1..n : frames'[k] = frames[k]
         /\ \A k \in 1..q : frames'[n + k] = gs[k]
    <2>2. Follows(frames \o gs, frames, gs, n, q)
      <3>1. frames \in Seq(AllFrames) /\ gs \in Seq(AllFrames) /\ Len(frames) = n /\ Len(gs) = q
        BY <1>1, <1>11, <1>12
      <3> QED BY <3>1, MoreFrames
    <2> QED BY <1>9, <2>2 DEF Follows
  <1>14. ASSUME NEW k \in 1..(n + q)
         PROVE  frames'[k] = FrameOf(id, k - 1, MaxP, FALSE)
    <2>1. CASE k <= n
      <3>1. k \in 1..n
        BY <2>1
      <3> QED BY <1>12, <1>13, <3>1
    <2>2. CASE ~ (k <= n)
      <3>1. k - n \in 1..q /\ n + (k - n) = k /\ n + (k - n) - 1 = k - 1
        BY <2>2
      <3>2. frames'[n + (k - n)] = gs[k - n] /\ gs[k - n] = FrameOf(id, n + (k - n) - 1, MaxP, FALSE)
        BY <1>11, <1>13, <3>1
      <3> QED BY <3>1, <3>2
    <2> QED BY <2>1, <2>2
  <1>15. fed' = (n + q) * MaxP + r
    <2>1. (n + q) * MaxP = n * MaxP + q * MaxP /\ n * MaxP \in Nat /\ q * MaxP \in Nat
      BY <1>0
    <2> QED BY <1>0, <1>1, <1>3, <1>12, <2>1
  <1>16. Sending(id, n + q, r)'
    BY <1>9, <1>10, <1>13, <1>14, <1>15 DEF Sending, StreamAt
  <1>17. n + q \in Nat /\ fed' \in 0..MaxBytes /\ final' \in BOOLEAN
    <2>1. fed + size \in 0..MaxBytes
      BY <1>0, <1>1
    <2>2. final' \in BOOLEAN
      BY <1>1
    <2>3. n + q \in Nat
      OBVIOUS
    <2> QED BY <1>1, <2>1, <2>2, <2>3
  <1>18. \E i \in PackageIds, j \in Nat, z \in 0..(MaxP - 1) : Sending(i, j, z)'
    BY <1>16, <1>17
  <1> QED BY <1>1, <1>13, <1>17, <1>18 DEF IInv

LEMMA FinalizeStep ==
    ASSUME IInv, Finalize
    PROVE  IInv'
  <1>0. MaxP \in Nat \ {0}
    BY MaxPFacts
  <1>1. ~ final /\ final' = TRUE /\ fed' = fed /\ fed \in 0..MaxBytes /\ frames \in Seq(AllFrames)
    BY DEF Finalize, IInv
  <1>2. PICK id \in PackageIds, n \in Nat, fill \in 0..(MaxP - 1) : Sending(id, n, fill)
    BY <1>1 DEF IInv
  <1>3. /\ stream.fill = fill /\ StreamAt(stream, id, n, fill)
        /\ stream.cursor = [sender_id |-> 3, package_id |-> id, offset |-> (n * MaxP) % U16]
        /\ Len(frames) = n /\ held = Piece(n * MaxP, fill) /\ fed = n * MaxP + fill
        /\ \A k \in 1..n : frames[k] = FrameOf(id, k - 1, MaxP, FALSE)
    BY <1>2 DEF Sending, StreamAt
  <1> DEFINE hd == mp_tx_make_header(TU, stream.cursor, fill, TRUE)
             ps == << [header |-> hd, data |-> <<>>] >>
             f  == FrameOf(id, n, fill, TRUE)
  <1>4. mp_tx_stream_finalize(stream)
            = [stream |-> [cursor |-> mp_tx_advance(TU, stream.cursor), fill |-> 0], pushes |-> ps]
    BY <1>3 DEF mp_tx_stream_finalize, mp_tx_prepare
  <1>5. hd # NoHeader
    BY HeaderIsThere DEF mp_tx_prepare
  <1> HIDE DEF hd
  <1>6. Len(ps) = 1 /\ ps # <<>> /\ ps[1].header = hd /\ ps[1].data = <<>> /\ Ending(ps) = 1
    BY <1>5 DEF Ending
  <1>7. Collected(ps, 1) = Piece(n * MaxP, fill)
    <2>1. Piece(n * MaxP, fill) \in Seq(Int)
      <3>1. n * MaxP \in Nat /\ fill \in Nat
        BY <1>0
      <3> QED BY <3>1, PieceIsSeq
    <2>2. held \o <<>> = held
      BY <1>3, <2>1, ConcatEmptySeq
    <2> QED BY <1>3, <1>6, <2>2 DEF Collected
  <1> HIDE DEF ps
  <1>8. [header |-> mp_header_pack(ps[1].header), data |-> Collected(ps, 1)] = f
    BY <1>3, <1>6, <1>7 DEF FrameOf, hd
  <1> HIDE DEF f
  <1>9. AfterPushes(ps) = [held |-> <<>>, frames |-> frames \o [k \in 1..1 |-> f]]
    <2>1. [k \in 1..Ending(ps) |->
              [header |-> mp_header_pack(ps[k].header), data |-> Collected(ps, k)]]
              = [k \in 1..1 |-> f]
      <3>1. \A k \in 1..1 : k = 1
        OBVIOUS
      <3> QED BY <1>6, <1>8, <3>1
    <2> QED BY <1>6, <2>1 DEF AfterPushes
  <1>10. /\ stream' = [cursor |-> mp_tx_advance(TU, stream.cursor), fill |-> 0]
         /\ held' = <<>> /\ frames' = frames \o [k \in 1..1 |-> f]
    BY <1>4, <1>9 DEF Finalize, Take
  <1>11. StreamAt(stream', id, n + 1, 0)
    <2>1. CursorAfter(stream.cursor, 1) =
              [sender_id |-> 3, package_id |-> id, offset |-> ((n + 1) * MaxP) % U16]
      BY <1>3, CursorMoves
    <2>2. mp_tx_advance(TU, stream.cursor) = CursorAfter(stream.cursor, 1)
      <3>1. 1 * MaxP = MaxP
        BY <1>0
      <3> QED BY <3>1 DEF mp_tx_advance, CursorAfter, MaxP
    <2> QED BY <1>10, <2>1, <2>2 DEF StreamAt
  <1>12. [k \in 1..1 |-> f] \in Seq(AllFrames) /\ Len([k \in 1..1 |-> f]) = 1
         /\ [k \in 1..1 |-> f][1] = f
    <2>1. f \in AllFrames
      <3>1. fill \in 0..MaxP /\ TRUE \in BOOLEAN
        BY <1>0
      <3> QED BY <3>1, FrameIsOne DEF f
    <2> QED BY <2>1
  <1>13. /\ frames' \in Seq(AllFrames) /\ Len(frames') = n + 1
         /\ \A k \in 1..n : frames'[k] = frames[k]
         /\ \A k \in 1..1 : frames'[n + k] = [i \in 1..1 |-> f][k]
    BY <1>1, <1>3, <1>10, <1>12, MoreFrames DEF Follows
  <1>14. frames'[n + 1] = f
    BY <1>12, <1>13
  <1>15. Finished(id, n, fill)'
    BY <1>1, <1>3, <1>10, <1>11, <1>13, <1>14 DEF Finished, StreamAt, f
  <1>16. \E i \in PackageIds, j \in Nat, z \in 0..(MaxP - 1) : Finished(i, j, z)'
    BY <1>15
  <1> QED BY <1>1, <1>13, <1>16 DEF IInv

LEMMA NewPackageStep ==
    ASSUME IInv, NewPackage
    PROVE  IInv'
  <1>0. /\ MaxP \in Nat \ {0} /\ U16 \in Nat \ {0} /\ U8 \in Nat \ {0} /\ MaxBytes \in Nat
    BY MaxPFacts, Widths, BoundAssumption
  <1>1. /\ final /\ final' = FALSE /\ held' = held /\ frames' = <<>> /\ fed' = 0
        /\ stream' = [stream EXCEPT !.cursor.package_id = (@ + 1) % U8, !.cursor.offset = 0]
    BY DEF NewPackage
  <1>2. PICK id \in PackageIds, n \in Nat, size \in 0..(MaxP - 1) : Finished(id, n, size)
    BY <1>1 DEF IInv
  <1>3. (id + 1) % U8 \in PackageIds
    BY <1>0 DEF PackageIds
  <1>4. StreamAt(stream', (id + 1) % U8, 0, 0)
    <2>1. 0 * MaxP = 0 /\ 0 % U16 = 0
      BY <1>0
    <2> QED BY <1>1, <1>2, <2>1 DEF StreamAt, Finished
  <1>5. held' = Piece(0 * MaxP, 0)
    <2>1. 0 * MaxP = 0 /\ Piece(0, 0) = <<>>
      BY <1>0, NoPiece
    <2> QED BY <1>1, <1>2, <2>1 DEF Finished
  <1>6. Len(frames') = 0 /\ fed' = 0 * MaxP + 0 /\ frames' \in Seq(AllFrames)
    BY <1>0, <1>1
  <1>7. Sending((id + 1) % U8, 0, 0)'
    BY <1>4, <1>5, <1>6 DEF Sending, StreamAt
  <1>8. 0 \in Nat /\ 0 \in 0..(MaxP - 1) /\ fed' \in 0..MaxBytes
    BY <1>0, <1>1
  <1>9. \E i \in PackageIds, j \in Nat, z \in 0..(MaxP - 1) : Sending(i, j, z)'
    BY <1>3, <1>7, <1>8
  <1> QED BY <1>1, <1>6, <1>8, <1>9 DEF IInv

LEMMA NextIInv ==
    ASSUME ChunksFit, IInv, [Next]_vars
    PROVE  IInv'
  <1>1. CASE NewPackage
    BY <1>1, NewPackageStep
  <1>2. CASE Finalize
    BY <1>2, FinalizeStep
  <1>3. ASSUME NEW n \in 0..MaxChunk, Feed(n) PROVE IInv'
    BY <1>3, FeedStep
  <1>4. CASE UNCHANGED vars
    <2> USE <1>4 DEF vars
    <2>1. /\ stream' = stream /\ held' = held /\ frames' = frames
          /\ fed' = fed /\ final' = final
      OBVIOUS
    <2>2. \A id, n, z : (Sending(id, n, z)' <=> Sending(id, n, z))
                       /\ (Finished(id, n, z)' <=> Finished(id, n, z))
      BY <2>1 DEF Sending, Finished, StreamAt
    <2> QED BY <2>1, <2>2 DEF IInv
  <1> QED BY <1>1, <1>2, <1>3, <1>4 DEF Next

\* The inductive invariant holds throughout.
THEOREM InvariantHolds ==
    ASSUME ChunksFit
    PROVE  Spec => []IInv
  <1>1. Init => IInv
    BY InitIInv
  <1>2. IInv /\ [Next]_vars => IInv'
    BY NextIInv
  <1> QED BY <1>1, <1>2, PTL DEF Spec

-----------------------------------------------------------------------------
(* Types, whatever the chunks *)

\* The stream stands at the start of some slice, with part of it taken.
Typed ==
    /\ fed \in 0..MaxBytes /\ final \in BOOLEAN
    /\ \E id \in PackageIds, n \in Nat, fill \in 0..(MaxP - 1) : StreamAt(stream, id, n, fill)

\* The cursor after a call with size bytes.
LEMMA FeedMoves ==
    ASSUME NEW s, NEW id \in PackageIds, NEW n \in Nat, NEW fill \in 0..(MaxP - 1),
           StreamAt(s, id, n, fill), NEW from \in Nat, NEW size \in Nat
    PROVE  \E m \in Nat, z \in 0..(MaxP - 1) :
               StreamAt(mp_tx_stream_feed(s, Piece(from, size)).stream, id, m, z)
  <1>0. MaxP \in Nat \ {0}
    BY MaxPFacts
  <1>1. PICK q \in Nat, r \in 0..(MaxP - 1) : fill + size = q * MaxP + r
    <2>1. fill + size \in Nat
      BY <1>0
    <2> QED BY <1>0, <2>1, Division
  <1>2. PICK m : m = IF size = 0 \/ r = 0 THEN q ELSE q + 1
    OBVIOUS
  <1>3. PICK ps : ps = [k \in 1..m |-> PushOfRound(s, from, size, q, k)]
    OBVIOUS
  <1>4. s.fill \in 0..(MaxP - 1) /\ s.fill + size = q * MaxP + r
    BY <1>1 DEF StreamAt
  <1>5. Gives(mp_tx_stream_feed(s, Piece(from, size)), CursorAfter(s.cursor, q), r, ps)
    BY <1>2, <1>3, <1>4, PushesOfFeed
  <1>6. StreamAt(mp_tx_stream_feed(s, Piece(from, size)).stream, id, n + q, r)
    <2>1. CursorAfter(s.cursor, q) =
              [sender_id |-> 3, package_id |-> id, offset |-> ((n + q) * MaxP) % U16]
      BY CursorMoves
    <2> QED BY <1>5, <2>1 DEF Gives, StreamAt
  <1>7. n + q \in Nat
    OBVIOUS
  <1> QED BY <1>6, <1>7

LEMMA NextTyped ==
    ASSUME Typed, [Next]_vars
    PROVE  Typed'
  <1>0. /\ MaxP \in Nat \ {0} /\ U16 \in Nat \ {0} /\ U8 \in Nat \ {0}
        /\ MaxBytes \in Nat /\ MaxChunk \in Nat
    BY MaxPFacts, Widths, BoundAssumption
  <1>1. PICK id \in PackageIds, n \in Nat, fill \in 0..(MaxP - 1) : StreamAt(stream, id, n, fill)
    BY DEF Typed
  <1>2. fed \in 0..MaxBytes /\ final \in BOOLEAN
    BY DEF Typed
  <1>3. ASSUME NEW size \in 0..MaxChunk, Feed(size) PROVE Typed'
    <2>1. size % U16 \in Nat /\ fed \in Nat
      BY <1>0, <1>2
    <2>2. stream' = mp_tx_stream_feed(stream, Piece(fed, size % U16)).stream
      BY <1>3 DEF Feed, Take
    <2>3. \E m \in Nat, z \in 0..(MaxP - 1) : StreamAt(stream', id, m, z)
      BY <1>1, <2>1, <2>2, FeedMoves
    <2>4. fed' \in 0..MaxBytes /\ final' = final
      BY <1>0, <1>2, <1>3 DEF Feed
    <2> QED BY <1>2, <2>3, <2>4 DEF Typed, StreamAt
  <1>4. CASE Finalize
    <2>1. stream' = [cursor |-> mp_tx_advance(TU, stream.cursor), fill |-> 0]
      BY <1>4 DEF Finalize, Take, mp_tx_stream_finalize, mp_tx_prepare
    <2>2. mp_tx_advance(TU, stream.cursor) = CursorAfter(stream.cursor, 1)
      <3>1. 1 * MaxP = MaxP
        BY <1>0
      <3> QED BY <3>1 DEF mp_tx_advance, CursorAfter, MaxP
    <2>3. CursorAfter(stream.cursor, 1) =
              [sender_id |-> 3, package_id |-> id, offset |-> ((n + 1) * MaxP) % U16]
      BY <1>1, CursorMoves
    <2>4. StreamAt(stream', id, n + 1, 0) /\ n + 1 \in Nat /\ 0 \in 0..(MaxP - 1)
      BY <1>0, <2>1, <2>2, <2>3 DEF StreamAt
    <2>5. fed' = fed /\ final' \in BOOLEAN
      BY <1>4 DEF Finalize
    <2> QED BY <1>2, <2>4, <2>5 DEF Typed, StreamAt
  <1>5. CASE NewPackage
    <2>1. (id + 1) % U8 \in PackageIds
      BY <1>0 DEF PackageIds
    <2>2. 0 * MaxP = 0 /\ 0 % U16 = 0
      BY <1>0
    <2>3. StreamAt(stream', (id + 1) % U8, 0, fill) /\ 0 \in Nat
      BY <1>1, <1>5, <2>2 DEF NewPackage, StreamAt
    <2>4. fed' = 0 /\ final' = FALSE
      BY <1>5 DEF NewPackage
    <2>5. fed' \in 0..MaxBytes
      BY <1>0, <2>4
    <2>6. final' \in BOOLEAN
      BY <2>4
    <2> QED BY <2>1, <2>3, <2>5, <2>6 DEF Typed, StreamAt
  <1>6. CASE UNCHANGED vars
    BY <1>6 DEF vars, Typed, StreamAt
  <1> QED BY <1>3, <1>4, <1>5, <1>6 DEF Next

\* Cursor and fill keep their C types and a full slice is never held back,
\* whatever chunks the stream is fed, those that a uint16_t does not count too.
THEOREM TypeCorrect == Spec => []TypeOK
  <1>1. Init => Typed
    <2> SUFFICES ASSUME Init PROVE Typed
      OBVIOUS
    <2>0. MaxP \in Nat \ {0} /\ U16 \in Nat \ {0} /\ U8 \in Nat \ {0} /\ MaxBytes \in Nat
      BY MaxPFacts, Widths, BoundAssumption
    <2>1. 0 * MaxP = 0 /\ 0 % U16 = 0
      BY <2>0
    <2>2. StreamAt(stream, 0, 0, 0)
      BY <2>1 DEF Init, Start, StreamAt
    <2>3. 0 \in PackageIds /\ 0 \in Nat /\ 0 \in 0..(MaxP - 1)
      BY <2>0 DEF PackageIds
    <2>4. fed = 0 /\ final = FALSE
      BY DEF Init
    <2>5. fed \in 0..MaxBytes
      BY <2>0, <2>4
    <2>6. final \in BOOLEAN
      BY <2>4
    <2> QED BY <2>2, <2>3, <2>5, <2>6 DEF Typed
  <1>2. Typed /\ [Next]_vars => Typed'
    BY NextTyped
  <1>3. Typed => TypeOK
    <2> SUFFICES ASSUME Typed PROVE TypeOK
      OBVIOUS
    <2>0. MaxP \in Nat \ {0} /\ U16 \in Nat \ {0}
      BY MaxPFacts, Widths
    <2>1. PICK id \in PackageIds, m \in Nat, z \in 0..(MaxP - 1) : StreamAt(stream, id, m, z)
      BY DEF Typed
    <2>2. (m * MaxP) % U16 \in Offsets
      <3>1. m * MaxP \in Nat
        BY <2>0
      <3> QED BY <2>0, <3>1 DEF Offsets
    <2>3. 3 \in SenderIds
      BY DEF SenderIds
    <2> QED BY <2>1, <2>2, <2>3 DEF StreamAt, TypeOK, Coordinates, Typed
  <1> QED BY <1>1, <1>2, <1>3, PTL DEF Spec

-----------------------------------------------------------------------------
(* What follows from the invariant *)

\* The bytes of the emitted frames and the bytes held are the bytes fed, in
\* order and each once, however the package is cut into chunks that pb_ostream_pipeline
\* passes on whole, and also past the point where the offset wraps.
THEOREM EveryByteOnce ==
    ASSUME ChunksFit
    PROVE  Spec => []NothingLost
  <1>1. IInv => NothingLost
    <2> SUFFICES ASSUME IInv PROVE NothingLost
      OBVIOUS
    <2>0. MaxP \in Nat \ {0}
      BY MaxPFacts
    <2>1. PICK id \in PackageIds, n \in Nat, size \in 0..(MaxP - 1) :
              IF final THEN Finished(id, n, size) ELSE Sending(id, n, size)
      BY DEF IInv
    <2>2. /\ FullFrames = n /\ Rest = Piece(n * MaxP, size) /\ fed = n * MaxP + size
          /\ Len(held) = stream.fill
      <3>1. CASE final
        <4>1. Finished(id, n, size)
          BY <2>1, <3>1
        <4>2. FullFrames = n /\ Len(frames) = n + 1
          BY <3>1, <4>1 DEF Finished, FullFrames
        <4>3. Rest = Piece(n * MaxP, size)
          BY <3>1, <4>1, <4>2 DEF Finished, Rest, FrameOf
        <4> QED BY <4>1, <4>2, <4>3 DEF Finished, StreamAt
      <3>2. CASE ~ final
        <4>1. Sending(id, n, size)
          BY <2>1, <3>2
        <4>2. Len(Piece(n * MaxP, size)) = size
          <5>1. n * MaxP \in Nat /\ size \in Nat
            BY <2>0
          <5> QED BY <5>1, PieceIsSeq
        <4> QED BY <3>2, <4>1, <4>2 DEF Sending, StreamAt, FullFrames, Rest
      <3> QED BY <3>1, <3>2
    <2>3. \A k \in 1..n : frames[k].data = Piece((k - 1) * MaxP, MaxP)
      <3> TAKE k \in 1..n
      <3>1. frames[k] = FrameOf(id, k - 1, MaxP, FALSE)
        BY <2>1 DEF Finished, Sending
      <3> QED BY <3>1 DEF FrameOf
    <2>4. Len(Rest) = size /\ size < MaxP
      <3>1. n * MaxP \in Nat /\ size \in Nat /\ size < MaxP
        BY <2>0
      <3> QED BY <2>2, <3>1, PieceIsSeq
    <2> QED BY <2>2, <2>3, <2>4 DEF NothingLost
  <1> QED BY <1>1, InvariantHolds, PTL

\* The header the stream makes of slice i, as long as neither the offset nor the
\* slice id is truncated.
LEMMA HeaderOfFrame ==
    ASSUME NEW id \in PackageIds, NEW i \in Nat, i < U8, i * MaxP < U16, NEW size, NEW end
    PROVE  FrameOf(id, i, size, end).header =
               mp_header_pack([package_serial |-> id, slice_serial |-> i, sender_id |-> 3,
                               eop |-> IF end THEN 1 ELSE 0, slice_payload_size |-> size])
  <1>0. MaxP \in Nat \ {0} /\ U16 \in Nat \ {0} /\ i * MaxP \in Nat
    BY MaxPFacts, Widths
  <1>1. (i * MaxP) % U16 = i * MaxP
    BY <1>0, NoTruncation
  <1>2. mp_offset_to_slice_idx((i * MaxP) % U16, mp_max_payload(TU)) = i
    BY <1>0, <1>1, SliceAtMultiple DEF MaxP
  <1> QED BY <1>2 DEF FrameOf, mp_tx_make_header

\* A package within the limits of Slicing is on the wire as Slicing says: slices
\* numbered from 0, all full but the last, which alone is marked eop, for every
\* cut into chunks that pb_ostream_pipeline passes on whole.
THEOREM SlicesAsSlicing ==
    ASSUME ChunksFit
    PROVE  Spec => []FramesAreSlices
  <1>1. IInv => FramesAreSlices
    <2> SUFFICES ASSUME IInv, final, SafePackage(Sent)
                 PROVE  frames = [k \in 1..(LastSlice(Sent) + 1) |-> Frame(Sent, k - 1)]
      BY DEF FramesAreSlices
    <2>0. MaxP \in Nat \ {0} /\ U16 \in Nat /\ U8 \in Nat
      BY MaxPFacts, Widths
    <2>1. PICK id \in PackageIds, n \in Nat, size \in 0..(MaxP - 1) : Finished(id, n, size)
      BY DEF IInv
    <2>2. n * MaxP \in Nat /\ size \in Nat /\ size < MaxP
      BY <2>0
    <2>3. fed \div MaxP = n /\ fed % MaxP = size
      <3>1. (n * MaxP + size) \div MaxP = n
        BY <2>0, <2>2, SliceOfPosition
      <3>2. (n * MaxP + size) % MaxP = size
        BY <2>0, <2>2, RemainderOfPosition
      <3> QED BY <2>1, <3>1, <3>2 DEF Finished
    <2>4. Sent = [id |-> id, sender |-> 3, full |-> n, rest |-> size, style |-> "EmptyEop"]
      BY <2>1, <2>3 DEF Sent, Finished, StreamAt
    <2>5. LastSlice(Sent) = n
      BY <2>4 DEF LastSlice
    <2>6. n < U8 /\ n * MaxP < U16
      <3>1. DataCount(Sent) = n \/ DataCount(Sent) = n + 1
        BY <2>4 DEF DataCount
      <3>2. DataCount(Sent) * MaxP < U16
        BY DEF SafePackage
      <3>3. (n + 1) * MaxP = n * MaxP + MaxP
        BY <2>0
      <3>4. n * MaxP < U16
        BY <2>0, <2>2, <3>1, <3>2, <3>3
      <3> QED BY <2>5, <3>4 DEF SafePackage
    <2>7. ASSUME NEW i \in 0..n
          PROVE  i < U8 /\ i * MaxP < U16
      <3>1. i * MaxP <= n * MaxP /\ i * MaxP \in Nat
        <4>1. CASE i = n  BY <4>1, <2>2
        <4>2. CASE i < n
          <5>1. i * MaxP < n * MaxP /\ i * MaxP \in Nat
            BY <2>0, <4>2, OffsetsOrdered
          <5> QED BY <5>1, <2>2
        <4> QED BY <4>1, <4>2
      <3> QED BY <2>0, <2>2, <2>6, <3>1
    <2>8. ASSUME NEW i \in 0..n, NEW size_i, NEW end, frames[i + 1] = FrameOf(id, i, size_i, end),
                 PayloadSize(Sent, i) = size_i, (i = n) <=> end
          PROVE  frames[i + 1] = Frame(Sent, i)
      <3>1. i \in Nat /\ i < U8 /\ i * MaxP < U16
        BY <2>7
      <3>2. FrameOf(id, i, size_i, end).header =
                mp_header_pack([package_serial |-> id, slice_serial |-> i, sender_id |-> 3,
                                eop |-> IF end THEN 1 ELSE 0, slice_payload_size |-> size_i])
        BY <3>1, HeaderOfFrame
      <3>3. HeaderBytes(Sent, i) =
                mp_header_pack([package_serial |-> id, slice_serial |-> i, sender_id |-> 3,
                                eop |-> IF end THEN 1 ELSE 0, slice_payload_size |-> size_i])
        BY <2>4, <2>5, <2>8 DEF HeaderBytes
      <3>4. FrameOf(id, i, size_i, end).header = HeaderBytes(Sent, i)
        BY <3>2, <3>3
      <3>5. FrameOf(id, i, size_i, end)
                = [header |-> FrameOf(id, i, size_i, end).header, data |-> Piece(i * MaxP, size_i)]
        BY DEF FrameOf
      <3> QED BY <2>8, <3>4, <3>5 DEF Frame
    <2>9. ASSUME NEW k \in 1..(n + 1)
          PROVE  frames[k] = Frame(Sent, k - 1)
      <3>0. \A j \in 1..n : frames[j] = FrameOf(id, j - 1, MaxP, FALSE)
        BY <2>1 DEF Finished
      <3>1. k - 1 \in 0..n /\ (k - 1) + 1 = k
        OBVIOUS
      <3>3. CASE k <= n
        <4>1. k \in 1..n /\ k - 1 < n /\ k - 1 # n
          BY <3>3
        <4>2. frames[(k - 1) + 1] = FrameOf(id, k - 1, MaxP, FALSE)
          BY <3>0, <3>1, <4>1
        <4>3. PayloadSize(Sent, k - 1) = MaxP
          BY <2>4, <4>1 DEF PayloadSize
        <4>4. frames[(k - 1) + 1] = Frame(Sent, k - 1)
          BY <2>8, <3>1, <4>1, <4>2, <4>3
        <4> QED BY <3>1, <4>4
      <3>4. CASE ~ (k <= n)
        <4>1. k = n + 1 /\ k - 1 = n /\ ~ (n < n)
          BY <3>4
        <4>2. frames[(k - 1) + 1] = FrameOf(id, k - 1, size, TRUE)
          BY <2>1, <4>1 DEF Finished
        <4>3. PayloadSize(Sent, k - 1) = size
          BY <2>4, <4>1 DEF PayloadSize
        <4>4. frames[(k - 1) + 1] = Frame(Sent, k - 1)
          BY <2>8, <3>1, <4>1, <4>2, <4>3
        <4> QED BY <3>1, <4>4
      <3> QED BY <3>3, <3>4
    <2>10. frames = [k \in 1..(n + 1) |-> frames[k]]
      <3>1. frames \in Seq(AllFrames) /\ Len(frames) = n + 1
        BY <2>1 DEF IInv, Finished
      <3>2. DOMAIN frames = 1..(n + 1) /\ frames \in [1..(n + 1) -> AllFrames]
        BY <3>1, LenProperties
      <3> QED BY <3>2
    <2> QED BY <2>5, <2>9, <2>10
  <1> QED BY <1>1, InvariantHolds, PTL

\* A full frame is not marked and its size is the payload size.
LEMMA FullFrameHasNoSign ==
    ASSUME MaxP \in PayloadSizes, NEW id \in PackageIds, NEW i \in Nat
    PROVE  /\ mp_header_unpack(FrameOf(id, i, MaxP, FALSE).header).eop = 0
           /\ mp_header_unpack(FrameOf(id, i, MaxP, FALSE).header).slice_payload_size = MaxP
  <1> DEFINE serial == mp_offset_to_slice_idx((i * MaxP) % U16, MaxP)
             h == [package_serial |-> id, slice_serial |-> serial, sender_id |-> 3,
                   eop |-> 0, slice_payload_size |-> MaxP]
  <1>0. /\ MaxP \in Nat \ {0} /\ U16 \in Nat \ {0} /\ U8 \in Nat \ {0} /\ i * MaxP \in Nat
    BY MaxPFacts, Widths
  <1>1. FrameOf(id, i, MaxP, FALSE).header = mp_header_pack(h)
    <2>1. mp_max_payload(TU) = MaxP
      BY DEF MaxP
    <2> QED BY <2>1 DEF FrameOf, mp_tx_make_header
  <1>2. serial \in SliceIds
    <2>1. (i * MaxP) % U16 \in Nat
      BY <1>0
    <2>2. ((i * MaxP) % U16) \div MaxP \in Nat
      BY <1>0, <2>1
    <2> QED BY <1>0, <2>2 DEF mp_offset_to_slice_idx, SliceIds
  <1> HIDE DEF serial
  <1>3. h \in Headers
    BY <1>0, <1>2 DEF Headers, SenderIds
  <1>4. mp_header_unpack(mp_header_pack(h)) = h
    BY <1>3, HeaderRoundTrip
  <1>5. h.eop = 0 /\ h.slice_payload_size = MaxP
    OBVIOUS
  <1> HIDE DEF h
  <1> QED BY <1>1, <1>4, <1>5

\* Before finalize no frame has a sign by which mp_rx_calc_slice_step ends a
\* package, past the wrap of the offset too.  A payload of more than 4095 bytes
\* does not fit the 12 bits of slice_payload_size and would look short.
THEOREM NoEndBeforeFinalize ==
    ASSUME ChunksFit, MaxP \in PayloadSizes
    PROVE  Spec => []NoEarlyEnd
  <1>1. IInv => NoEarlyEnd
    <2> SUFFICES ASSUME IInv, ~ final PROVE NoEarlyEnd
      BY DEF NoEarlyEnd
    <2>1. PICK id \in PackageIds, n \in Nat, size \in 0..(MaxP - 1) : Sending(id, n, size)
      BY DEF IInv
    <2>2. DOMAIN frames = 1..n
      <3>1. frames \in Seq(AllFrames) /\ Len(frames) = n
        BY <2>1 DEF IInv, Sending
      <3> QED BY <3>1, LenProperties
    <2>3. \A k \in 1..n : frames[k] = FrameOf(id, k - 1, MaxP, FALSE)
      BY <2>1 DEF Sending
    <2>4. ASSUME NEW k \in 1..n
          PROVE  /\ mp_header_unpack(frames[k].header).eop = 0
                 /\ mp_header_unpack(frames[k].header).slice_payload_size = MaxP
      <3> DEFINE i == k - 1
      <3>1. i \in Nat
        OBVIOUS
      <3>2. frames[k] = FrameOf(id, i, MaxP, FALSE)
        BY <2>3
      <3> HIDE DEF i
      <3> QED BY <3>1, <3>2, FullFrameHasNoSign
    <2> QED BY <2>2, <2>4 DEF NoEarlyEnd
  <1> QED BY <1>1, InvariantHolds, PTL
=============================================================================

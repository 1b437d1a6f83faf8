--------------------------- MODULE EncodersProofs ---------------------------
(***************************************************************************)
(* What an encoder guarantees, for any number of threads, messages of all  *)
(* lengths and all widths.  In the middle is WritersOK: each message in    *)
(* the making has sent the full slices before the byte where its stream or *)
(* writer stands, and the buffer begins with the bytes behind them.        *)
(***************************************************************************)
EXTENDS Encoders, SlicingProofs, FiniteSetTheorems

\* Every buffer handed to Push is a transmission unit.
BuffersAreUnits == Buffers \subseteq {TU}

\* The serialiser never asks for a span larger than one byte: GetSpan then finds
\* room and emits nothing.  MCCsHint shows what larger hints do.
HintsAreSmall == Hints \subseteq {0, 1}

-----------------------------------------------------------------------------
(* The inductive invariant *)

\* A header of the package id, and what the observer or the callback is given
\* with it: a unit whose first bytes are those of the slice.
HeaderAt(id, i, size, end) ==
    mp_header_pack([package_serial |-> id, slice_serial |-> i, sender_id |-> Sender,
                    eop |-> IF end THEN 1 ELSE 0, slice_payload_size |-> size])

Buffered(buffer, i, size) ==
    /\ buffer \in Seq(Int) /\ Len(buffer) = MaxP
    /\ \A k \in 1..size : buffer[k] = i * MaxP + k - 1

FrameAt(f, id, i, size, end) ==
    f.header = HeaderAt(id, i, size, end) /\ Buffered(f.payload, i, size)

AllFrames == [header : Int \X Int \X Int \X Int, payload : Seq(Int)]

\* n full frames have been sent, and then a last one of size bytes.
FullFrames(fs, id, n) ==
    /\ fs \in Seq(AllFrames) /\ Len(fs) = n
    /\ \A k \in 1..n : FrameAt(fs[k], id, k - 1, MaxP, FALSE)

EndedFrames(fs, id, n, size) ==
    /\ fs \in Seq(AllFrames) /\ Len(fs) = n + 1
    /\ \A k \in 1..n : FrameAt(fs[k], id, k - 1, MaxP, FALSE)
    /\ FrameAt(fs[n + 1], id, n, size, TRUE)

\* The cursor behind n slices.
CursorAt(id, n) == [sender_id |-> Sender, package_id |-> id, offset |-> (n * MaxP) % U16]

\* A C++ stream and a C# writer that stand at slice n, and their frames.
Stream(id, n, buf, acc, written, called, fs) ==
    [cursor |-> CursorAt(id, n), payload_buf |-> buf, accumulated |-> acc,
     written |-> written, next_called |-> called, frames |-> fs]

Writer(id, n, fill, buf, fs) ==
    [cursor |-> CursorAt(id, n), fill |-> fill, payload |-> buf, frames |-> fs]

Given(id, i, size, end, buf) == [header |-> HeaderAt(id, i, size, end), payload |-> buf]

\* A Push in progress: no buffer was asked for yet, or the buffer of slice n
\* holds size bytes, and less than all it can hold only at the end.
CppOpen(r, n) ==
    /\ r.stream = Stream(r.id, n, r.stream.payload_buf, n * MaxP, 0,
                         r.stream.next_called, r.stream.frames)
    /\ FullFrames(r.stream.frames, r.id, n)
    /\ ~ r.failed
    /\ IF r.stream.next_called
       THEN \E size \in 1..MaxP :
                /\ r.produced = n * MaxP + size
                /\ Buffered(r.stream.payload_buf, n, size)
                /\ size < MaxP => r.produced = r.length
       ELSE n = 0 /\ r.produced = 0 /\ Buffered(r.stream.payload_buf, 0, 0)

\* A TxWriter in use: its array holds fill bytes of slice n, all it can hold
\* only when the callback threw.
CsOpen(r, n) ==
    \E fill \in 0..MaxP :
        /\ r.stream = Writer(r.id, n, fill, r.stream.payload, r.stream.frames)
        /\ FullFrames(r.stream.frames, r.id, n)
        /\ r.produced = n * MaxP + fill
        /\ Buffered(r.stream.payload, n, fill)
        /\ r.failed <=> fill = MaxP

\* A message that is over: nothing sent, or frames that end with slice n.
Over(r) ==
    /\ r.stream.cursor \in Coordinates
    /\ IF lang = "C++" THEN r.stream.written \in 0..Len(r.stream.payload_buf)
                       ELSE r.stream.fill = 0
    /\ ~ r.failed => r.produced = r.length
    /\ \/ r.stream.frames = <<>> /\ r.produced = 0
       \/ \E n \in Nat, size \in 0..MaxP :
              /\ EndedFrames(r.stream.frames, r.id, n, size)
              /\ r.produced = n * MaxP + size /\ (size > 0 \/ n > 0)
              /\ lang = "C++" => size > 0
              /\ lang = "C#" /\ ~ r.failed => size < MaxP

Message(phase, id, length, produced, failed, stream) ==
    [phase |-> phase, id |-> id, length |-> length, produced |-> produced,
     failed |-> failed, stream |-> stream]

Begins(r) ==
    /\ r = Message(r.phase, r.id, r.length, r.produced, r.failed, r.stream)
    /\ r.id \in PackageIds /\ r.length \in Messages /\ r.produced \in 0..r.length
    /\ r.failed \in BOOLEAN

WriterOK(r) ==
    \/ r = NotStarted
    \/ /\ Begins(r) /\ r.phase = "open"
       /\ \E n \in Nat : IF lang = "C++" THEN CppOpen(r, n) ELSE CsOpen(r, n)
    \/ /\ Begins(r) /\ r.phase = "done"
       /\ Over(r)

WritersOK ==
    /\ lang \in {"C++", "C#"} /\ counter \in PackageIds
    /\ writers = [w \in Writers |-> writers[w]]
    /\ \A w \in Writers : WriterOK(writers[w])

-----------------------------------------------------------------------------
(* Lengths, headers and buffers *)

\* The parts of a message, and a message of such parts.
LEMMA MessageParts ==
    ASSUME NEW r, Begins(r)
    PROVE  /\ r.id \in PackageIds /\ r.length \in Messages /\ r.length \in Nat
           /\ r.produced \in Nat /\ r.produced <= r.length /\ r.failed \in BOOLEAN
  <1>1. r.id \in PackageIds /\ r.length \in Messages /\ r.produced \in 0..r.length
        /\ r.failed \in BOOLEAN
    BY DEF Begins
  <1>2. r.length \in Nat
    BY <1>1, EncoderAssumption DEF Messages
  <1> QED BY <1>1, <1>2

Parts(r, phase, id, length, produced, failed, stream) ==
    /\ Begins(r)
    /\ r.phase = phase /\ r.id = id /\ r.length = length /\ r.produced = produced
    /\ r.failed = failed /\ r.stream = stream

LEMMA MessageMade ==
    ASSUME NEW phase, NEW id \in PackageIds, NEW length \in Messages,
           NEW produced \in 0..length, NEW failed \in BOOLEAN, NEW stream
    PROVE  Parts(Message(phase, id, length, produced, failed, stream),
                 phase, id, length, produced, failed, stream)
  <1> DEFINE r == Message(phase, id, length, produced, failed, stream)
  <1>1. /\ r.phase = phase /\ r.id = id /\ r.length = length /\ r.produced = produced
        /\ r.failed = failed /\ r.stream = stream
    BY DEF Message
  <1>2. r = Message(phase, id, length, produced, failed, stream)
    OBVIOUS
  <1> HIDE DEF r
  <1>3. Begins(r)
    BY <1>1, <1>2 DEF Begins
  <1>4. Parts(r, phase, id, length, produced, failed, stream)
    BY <1>1, <1>3 DEF Parts
  <1> QED BY <1>4 DEF r

\* A message of which a step changes the phase, the count, the outcome or the stream.
Changed(r, phase, produced, failed, stream) ==
    [r EXCEPT !.phase = phase, !.produced = produced, !.failed = failed, !.stream = stream]

LEMMA ChangedIs ==
    ASSUME NEW r, r = Message(r.phase, r.id, r.length, r.produced, r.failed, r.stream),
           NEW phase, NEW produced, NEW failed, NEW stream
    PROVE  Changed(r, phase, produced, failed, stream)
               = Message(phase, r.id, r.length, produced, failed, stream)
  <1> DEFINE ph == r.phase
             id == r.id
             l  == r.length
             p  == r.produced
             f  == r.failed
             s  == r.stream
  <1>1. r = Message(ph, id, l, p, f, s)
    OBVIOUS
  <1> HIDE DEF ph, id, l, p, f, s
  <1> DEFINE r1 == [r EXCEPT !.phase = phase]
             r2 == [r1 EXCEPT !.produced = produced]
             r3 == [r2 EXCEPT !.failed = failed]
             r4 == [r3 EXCEPT !.stream = stream]
  <1>2. r1 = Message(phase, id, l, p, f, s)
    BY <1>1 DEF Message
  <1>3. r2 = Message(phase, id, l, produced, f, s)
    <2> HIDE DEF r1
    <2> QED BY <1>2 DEF Message
  <1>4. r3 = Message(phase, id, l, produced, failed, s)
    <2> HIDE DEF r2
    <2> QED BY <1>3 DEF Message
  <1>5. r4 = Message(phase, id, l, produced, failed, stream)
    <2> HIDE DEF r3
    <2> QED BY <1>4 DEF Message
  <1>6. Changed(r, phase, produced, failed, stream) = r4
    BY Zenon DEF Changed
  <1> QED BY <1>5, <1>6 DEF id, l

LEMMA MessageChanged ==
    ASSUME NEW r, Begins(r), NEW phase, NEW produced \in 0..r.length,
           NEW failed \in BOOLEAN, NEW stream
    PROVE  Parts(Changed(r, phase, produced, failed, stream),
                 phase, r.id, r.length, produced, failed, stream)
  <1> DEFINE id == r.id
             l  == r.length
  <1>1. Changed(r, phase, produced, failed, stream)
            = Message(phase, id, l, produced, failed, stream)
    BY ChangedIs DEF Begins
  <1>2. id \in PackageIds /\ l \in Messages /\ produced \in 0..l
    BY MessageParts
  <1> HIDE DEF id, l
  <1>3. Parts(Message(phase, id, l, produced, failed, stream),
              phase, id, l, produced, failed, stream)
    BY <1>2, MessageMade
  <1>4. Parts(Changed(r, phase, produced, failed, stream),
              phase, id, l, produced, failed, stream)
    BY <1>1, <1>3
  <1> QED BY <1>4 DEF id, l

\* What has been produced of a message lies in slices whose ids and offsets are
\* not truncated.
LEMMA InsideMessage ==
    ASSUME NEW length \in Messages, NEW n \in Nat, NEW size \in 0..MaxP,
           n * MaxP + size <= length, size > 0 \/ n > 0
    PROVE  n < U8 /\ n * MaxP < U16 /\ MaxP \in PayloadSizes /\ length > 0
  <1>0. MaxP \in Nat \ {0} /\ n * MaxP \in Nat /\ size \in Nat /\ length \in Nat
    BY MaxPFacts, EncoderAssumption DEF Messages
  <1>1. length > 0
    <2>1. n > 0 => n * MaxP > 0
      BY <1>0
    <2> QED BY <1>0, <2>1
  <1>2. Fits(length)
    BY <1>0, <1>1 DEF Messages
  <1> DEFINE p == [full |-> length \div MaxP, rest |-> length % MaxP, style |-> "EmptyEop"]
  <1>3. PICK q \in Nat, r \in 0..(MaxP - 1) : length = q * MaxP + r
    BY <1>0, Division
  <1>4. length \div MaxP = q /\ length % MaxP = r
    <2>1. r \in Nat /\ r < MaxP
      BY <1>0
    <2> QED BY <1>0, <1>3, <2>1, SliceOfPosition, RemainderOfPosition
  <1>5. LastSlice(p) = q /\ (DataCount(p) = q \/ DataCount(p) = q + 1)
    BY <1>4 DEF LastSlice, DataCount
  <1>6. SafePackage(p)
    BY <1>2 DEF Fits
  <1>7. q < U8 /\ DataCount(p) * MaxP < U16
    BY <1>5, <1>6 DEF SafePackage
  <1>8. q * MaxP \in Nat /\ q * MaxP < U16
    <2>1. (q + 1) * MaxP = q * MaxP + MaxP /\ q * MaxP \in Nat /\ U16 \in Nat
      BY <1>0, Widths
    <2> QED BY <1>0, <1>5, <1>7, <2>1
  <1>9. n <= q
    <2>1. ASSUME q < n PROVE FALSE
      <3>1. q * MaxP + MaxP <= n * MaxP
        BY <1>0, <2>1, MultiplesGrow
      <3> QED BY <1>0, <1>3, <1>8, <3>1
    <2> QED BY <2>1
  <1>10. n * MaxP <= q * MaxP
    <2>1. CASE n = q  BY <2>1, <1>8
    <2>2. CASE n < q
      <3>1. n * MaxP < q * MaxP
        BY <1>0, <2>2, OffsetsOrdered
      <3> QED BY <1>0, <1>8, <3>1
    <2> QED BY <1>9, <2>1, <2>2
  <1>11. MaxP \in PayloadSizes
    BY <1>0, <1>6 DEF SafePackage, PayloadSizes
  <1>12. U8 \in Nat /\ U16 \in Nat
    BY Widths
  <1> QED BY <1>0, <1>1, <1>7, <1>8, <1>9, <1>10, <1>11, <1>12

\* The header made at the cursor of slice n, and the cursor after it.
LEMMA HeaderAtCursor ==
    ASSUME NEW id, NEW n \in Nat, n < U8, n * MaxP < U16, NEW size, NEW end
    PROVE  /\ mp_header_pack(mp_tx_make_header(TU, CursorAt(id, n), size, end))
                  = HeaderAt(id, n, size, end)
           /\ mp_tx_advance(TU, CursorAt(id, n)) = CursorAt(id, n + 1)
  <1>0. MaxP \in Nat \ {0} /\ U16 \in Nat \ {0} /\ n * MaxP \in Nat
    BY MaxPFacts, Widths
  <1>1. (n * MaxP) % U16 = n * MaxP
    BY <1>0, NoTruncation
  <1>2. mp_offset_to_slice_idx((n * MaxP) % U16, mp_max_payload(TU)) = n
    BY <1>0, <1>1, SliceAtMultiple DEF MaxP
  <1>3. Sender % 8 = Sender
    BY EncoderAssumption DEF SenderIds
  <1>4. mp_tx_make_header(TU, CursorAt(id, n), size, end)
            = [package_serial |-> id, slice_serial |-> n, sender_id |-> Sender,
               eop |-> IF end THEN 1 ELSE 0, slice_payload_size |-> size]
    BY <1>2, <1>3 DEF mp_tx_make_header, CursorAt
  <1>5. (((n * MaxP) % U16) + MaxP) % U16 = ((n + 1) * MaxP) % U16
    <2>1. (n + 1) * MaxP = n * MaxP + MaxP
      BY <1>0
    <2> QED BY <1>1, <2>1
  <1>6. mp_tx_advance(TU, CursorAt(id, n)) = CursorAt(id, n + 1)
    BY <1>5 DEF mp_tx_advance, CursorAt, MaxP
  <1> QED BY <1>4, <1>6 DEF HeaderAt

\* What the observer or the callback is given.
LEMMA FrameGiven ==
    ASSUME NEW id \in PackageIds, NEW i \in Nat, NEW size \in 0..MaxP, NEW end \in BOOLEAN,
           NEW buffer, Buffered(buffer, i, size),
           NEW f, f = Given(id, i, size, end, buffer)
    PROVE  f \in AllFrames /\ FrameAt(f, id, i, size, end)
  <1>0. MaxP \in Nat \ {0} /\ size \in Int /\ id \in Int /\ Sender \in Int
    BY MaxPFacts, EncoderAssumption DEF PackageIds, SenderIds
  <1>1. HeaderAt(id, i, size, end) \in Int \X Int \X Int \X Int
    <2> DEFINE e == IF end THEN 1 ELSE 0
    <2>1. e \in Int
      OBVIOUS
    <2> HIDE DEF e
    <2>2. (Sender % 8) + 8 * e + 16 * (size % 16) \in Int /\ (size \div 16) % 256 \in Int
      BY <1>0, <2>1
    <2>3. HeaderAt(id, i, size, end)
              = <<id, i, (Sender % 8) + 8 * e + 16 * (size % 16), (size \div 16) % 256>>
      BY DEF HeaderAt, mp_header_pack, e
    <2> QED BY <1>0, <2>2, <2>3
  <1>2. buffer \in Seq(Int)
    BY DEF Buffered
  <1> QED BY <1>1, <1>2 DEF AllFrames, FrameAt, Given

\* One more full frame, or the last one.
LEMMA FrameAdded ==
    ASSUME NEW fs, NEW id, NEW n \in Nat, FullFrames(fs, id, n),
           NEW size, NEW end \in BOOLEAN,
           NEW f \in AllFrames, FrameAt(f, id, n, size, end)
    PROVE  /\ ~ end /\ size = MaxP => FullFrames(Append(fs, f), id, n + 1)
           /\ end => EndedFrames(Append(fs, f), id, n, size)
  <1> DEFINE gs == Append(fs, f)
  <1>1. fs \in Seq(AllFrames) /\ Len(fs) = n
    BY DEF FullFrames
  <1>2. /\ gs \in Seq(AllFrames) /\ Len(gs) = n + 1
        /\ \A k \in 1..n : gs[k] = fs[k]
        /\ gs[n + 1] = f
    BY <1>1, AppendProperties
  <1>3. \A k \in 1..n : FrameAt(gs[k], id, k - 1, MaxP, FALSE)
    BY <1>2 DEF FullFrames
  <1> HIDE DEF gs
  <1>4. ASSUME end
        PROVE  EndedFrames(gs, id, n, size)
    <2>1. end = TRUE
      BY <1>4
    <2> QED BY <1>2, <1>3, <2>1 DEF EndedFrames
  <1>5. ASSUME ~ end, size = MaxP
        PROVE  FullFrames(gs, id, n + 1)
    <2>1. end = FALSE
      BY <1>5
    <2>2. FrameAt(gs[n + 1], id, n, MaxP, FALSE)
      BY <1>2, <1>5, <2>1
    <2>3. \A k \in 1..(n + 1) : FrameAt(gs[k], id, k - 1, MaxP, FALSE)
      <3> TAKE k \in 1..(n + 1)
      <3>1. CASE k \in 1..n
        BY <1>3, <3>1
      <3>2. CASE k = n + 1
        <4>1. k - 1 = n
          BY <3>2
        <4> QED BY <2>2, <3>2, <4>1
      <3>3. k \in 1..n \/ k = n + 1
        OBVIOUS
      <3> QED BY <3>1, <3>2, <3>3
    <2> QED BY <1>2, <2>3 DEF FullFrames
  <1> QED BY <1>4, <1>5 DEF gs

\* The serialiser writes the next bytes of the message behind those that the
\* buffer holds; what it held of an earlier slice does not matter.
LEMMA BytesWritten ==
    ASSUME NEW buffer, NEW i \in Nat, NEW at \in 0..MaxP, Buffered(buffer, i, at),
           NEW m \in Nat, at + m <= MaxP, NEW from, from = i * MaxP + at
    PROVE  Buffered(Overwrite(buffer, at, Piece(from, m)), i, at + m)
  <1> DEFINE data == Piece(from, m)
             after == Overwrite(buffer, at, data)
  <1>0. MaxP \in Nat \ {0} /\ i * MaxP \in Nat /\ at \in Nat /\ from \in Nat
    BY MaxPFacts
  <1>1. data \in Seq(Int) /\ Len(data) = m /\ \A k \in 1..m : data[k] = from + k - 1
    BY <1>0, PieceIsSeq
  <1>2. DOMAIN data = 1..m /\ buffer \in Seq(Int) /\ Len(buffer) = MaxP
        /\ \A k \in 1..at : buffer[k] = i * MaxP + k - 1
    BY <1>1 DEF Buffered
  <1>3. DOMAIN buffer = 1..MaxP /\ \A k \in 1..MaxP : buffer[k] \in Int
    BY <1>0, <1>2
  <1> HIDE DEF data
  <1>4. after = [k \in 1..MaxP |-> IF k - at \in 1..m THEN data[k - at] ELSE buffer[k]]
    BY <1>2, <1>3 DEF Overwrite
  <1>5. \A k \in 1..MaxP : (IF k - at \in 1..m THEN data[k - at] ELSE buffer[k]) \in Int
    <2> TAKE k \in 1..MaxP
    <2>1. CASE k - at \in 1..m
      <3>1. data[k - at] = from + (k - at) - 1
        BY <1>1, <2>1
      <3> QED BY <1>0, <2>1, <3>1
    <2>2. CASE ~ (k - at \in 1..m)
      BY <1>3, <2>2
    <2> QED BY <2>1, <2>2
  <1>6. after \in Seq(Int) /\ Len(after) = MaxP
    BY <1>0, <1>4, <1>5
  <1>7. \A k \in 1..(at + m) : after[k] = i * MaxP + k - 1
    <2> TAKE k \in 1..(at + m)
    <2>0. k \in 1..MaxP
      BY <1>0
    <2>1. CASE k - at \in 1..m
      <3>1. data[k - at] = from + (k - at) - 1
        BY <1>1, <2>1
      <3>2. after[k] = data[k - at]
        BY <1>4, <2>0, <2>1
      <3> QED BY <1>0, <3>1, <3>2
    <2>2. CASE ~ (k - at \in 1..m)
      <3>1. k \in 1..at
        BY <1>0, <2>2
      <3>2. after[k] = buffer[k]
        BY <1>4, <2>0, <2>2
      <3> QED BY <1>2, <3>1, <3>2
    <2> QED BY <2>1, <2>2
  <1> QED BY <1>6, <1>7 DEF Buffered, after, data

\* With nothing written a buffer is only a buffer.
LEMMA BufferAgain ==
    ASSUME NEW buffer, NEW i, NEW size, Buffered(buffer, i, size), NEW j
    PROVE  Buffered(buffer, j, 0)
  BY DEF Buffered

\* A buffer before anything is written to it.
LEMMA FreshBuffer == Buffered([k \in 1..MaxP |-> Garbage], 0, 0)
  <1>1. MaxP \in Nat
    BY MaxPFacts
  <1> QED BY <1>1 DEF Buffered, Garbage

\* The smaller of two lengths.
LEMMA MinOfTwo ==
    ASSUME NEW a \in Nat, NEW b \in Nat
    PROVE  Min({a, b}) = IF a <= b THEN a ELSE b
  BY DEF Min

-----------------------------------------------------------------------------
(* The two interfaces *)

\* A message in the making, with the interface it uses.
LEMMA OpenMessage ==
    ASSUME NEW r, WriterOK(r), r.phase = "open"
    PROVE  /\ Begins(r)
           /\ \E n \in Nat : IF lang = "C++" THEN CppOpen(r, n) ELSE CsOpen(r, n)
  BY DEF WriterOK, NotStarted

\* commit_slice at the cursor of slice n.
LEMMA CommitResult ==
    ASSUME NEW id, NEW n \in Nat, n < U8, n * MaxP < U16, NEW size \in 0..MaxP, NEW end,
           NEW buf, NEW acc, NEW called, NEW fs, NEW wr
    PROVE  commit_slice(Stream(id, n, buf, acc, wr, called, fs), end, size) =
               Stream(id, n + 1, buf, acc + size, wr, called,
                      Append(fs, Given(id, n, size, end, buf)))
  <1> DEFINE s == Stream(id, n, buf, acc, wr, called, fs)
  <1>1. size % U16 = size
    <2>1. size \in Nat /\ U16 \in Nat /\ size < U16
      BY MaxPFacts, Widths
    <2> QED BY <2>1, NoTruncation
  <1>2. /\ mp_header_pack(mp_tx_make_header(TU, CursorAt(id, n), size, end))
               = HeaderAt(id, n, size, end)
        /\ mp_tx_advance(TU, CursorAt(id, n)) = CursorAt(id, n + 1)
    BY HeaderAtCursor
  <1>3. /\ s.cursor = CursorAt(id, n)
        /\ s = [cursor |-> CursorAt(id, n), payload_buf |-> buf, accumulated |-> acc,
                written |-> wr, next_called |-> called, frames |-> fs]
    BY DEF Stream
  <1> DEFINE slice == mp_tx_prepare(TU, s.cursor, size % U16, end)
  <1>4. slice.next = CursorAt(id, n + 1)
        /\ mp_header_pack(slice.header) = HeaderAt(id, n, size, end)
    BY <1>1, <1>2, <1>3 DEF mp_tx_prepare
  <1>5. commit_slice(s, end, size) =
            [s EXCEPT !.cursor = slice.next, !.accumulated = @ + size,
                      !.frames = Append(@, [header  |-> mp_header_pack(slice.header),
                                            payload |-> s.payload_buf])]
    BY DEF commit_slice
  <1> DEFINE f  == [header |-> mp_header_pack(slice.header), payload |-> s.payload_buf]
             gs == Append(s.frames, f)
             at == slice.next
  <1>6. f = Given(id, n, size, end, buf) /\ s.frames = fs /\ s.accumulated = acc
    BY <1>3, <1>4 DEF Given
  <1>7. gs = Append(fs, Given(id, n, size, end, buf)) /\ at = CursorAt(id, n + 1)
    BY <1>4, <1>6
  <1>8. commit_slice(s, end, size) =
            [s EXCEPT !.cursor = at, !.accumulated = acc + size, !.frames = gs]
    BY <1>5, <1>6
  <1> HIDE DEF s, gs, at
  <1>9. commit_slice(s, end, size) = Stream(id, n + 1, buf, acc + size, wr, called, gs)
    BY <1>3, <1>7, <1>8 DEF Stream
  <1> QED BY <1>7, <1>9 DEF s

\* EmitSlice at the cursor of slice n, with something to emit.
LEMMA EmitResult ==
    ASSUME NEW id, NEW n \in Nat, n < U8, n * MaxP < U16, NEW fill \in 0..MaxP, NEW end,
           NEW buf, NEW fs, fill > 0 \/ (end /\ n > 0)
    PROVE  EmitSlice(Writer(id, n, fill, buf, fs), end) =
               Writer(id, n + 1, 0, buf, Append(fs, Given(id, n, fill, end, buf)))
  <1> DEFINE t == Writer(id, n, fill, buf, fs)
  <1>0. MaxP \in Nat \ {0} /\ fill \in Nat /\ U16 \in Nat \ {0} /\ n * MaxP \in Nat
    BY MaxPFacts, Widths
  <1>1. n > 0 => t.cursor.offset # 0
    <2>1. (n * MaxP) % U16 = n * MaxP
      BY <1>0, NoTruncation
    <2>2. n > 0 => n * MaxP > 0
      BY <1>0
    <2> QED BY <2>1, <2>2 DEF CursorAt, Writer
  <1>2. /\ mp_header_pack(mp_tx_make_header(TU, CursorAt(id, n), fill, end))
               = HeaderAt(id, n, fill, end)
        /\ mp_tx_advance(TU, CursorAt(id, n)) = CursorAt(id, n + 1)
    BY HeaderAtCursor
  <1>3. /\ t.cursor = CursorAt(id, n) /\ t.fill = fill
        /\ t = [cursor |-> CursorAt(id, n), fill |-> fill, payload |-> buf, frames |-> fs]
    BY DEF Writer
  <1> DEFINE slice == mp_tx_prepare(TU, t.cursor, t.fill, end)
  <1>4. slice.next = CursorAt(id, n + 1)
        /\ mp_header_pack(slice.header) = HeaderAt(id, n, fill, end)
    BY <1>2, <1>3 DEF mp_tx_prepare
  <1>5. ~ (t.fill = 0 /\ (~ end \/ t.cursor.offset = 0))
    BY <1>0, <1>1, <1>3
  <1>6. EmitSlice(t, end) =
            [t EXCEPT !.cursor = slice.next, !.fill = 0,
                      !.frames = Append(@, [header  |-> mp_header_pack(slice.header),
                                            payload |-> t.payload])]
    BY <1>5 DEF EmitSlice
  <1> DEFINE f  == [header |-> mp_header_pack(slice.header), payload |-> t.payload]
             gs == Append(t.frames, f)
             at == slice.next
  <1>7. f = Given(id, n, fill, end, buf) /\ t.frames = fs
    BY <1>3, <1>4 DEF Given
  <1>8. gs = Append(fs, Given(id, n, fill, end, buf)) /\ at = CursorAt(id, n + 1)
    BY <1>4, <1>7
  <1>9. EmitSlice(t, end) = [t EXCEPT !.cursor = at, !.fill = 0, !.frames = gs]
    BY <1>6
  <1> HIDE DEF t, gs, at
  <1> DEFINE t1 == [t EXCEPT !.cursor = at]
             t2 == [t1 EXCEPT !.fill = 0]
             t3 == [t2 EXCEPT !.frames = gs]
  <1>10. EmitSlice(t, end) = Writer(id, n + 1, 0, buf, gs)
    <2>1. t1 = Writer(id, n + 1, fill, buf, fs)
      BY <1>3, <1>8 DEF Writer
    <2>2. t2 = Writer(id, n + 1, 0, buf, fs)
      <3> HIDE DEF t1
      <3> QED BY <2>1 DEF Writer
    <2>3. t3 = Writer(id, n + 1, 0, buf, gs)
      <3> HIDE DEF t2
      <3> QED BY <2>2 DEF Writer
    <2>4. EmitSlice(t, end) = t3
      BY <1>9, Zenon
    <2> QED BY <2>3, <2>4
  <1> QED BY <1>8, <1>10 DEF t

\* What a step does to a message: its frames stay, or one is added, and the one
\* that ends the package when the message is over.
Sends(r, r2) ==
    LET fs == r.stream.frames
    IN  /\ r2.id = r.id /\ fs \in Seq(AllFrames)
        /\ \/ r2.phase = "open" /\ r2.stream.frames = fs
           \/ /\ r2.phase = "open"
              /\ \E f \in AllFrames : /\ FrameAt(f, r.id, Len(fs), MaxP, FALSE)
                                      /\ r2.stream.frames = Append(fs, f)
           \/ r2.phase = "done" /\ fs = <<>> /\ r2.stream.frames = <<>>
           \/ /\ r2.phase = "done"
              /\ \E f \in AllFrames, size \in 0..MaxP :
                     /\ FrameAt(f, r.id, Len(fs), size, TRUE)
                     /\ r2.stream.frames = Append(fs, f)

Proceeds(w, r2) ==
    /\ writers[w].phase = "open" /\ Update(w, r2)
    /\ WriterOK(r2) /\ Sends(writers[w], r2)

Opens(w, r2) ==
    /\ writers[w] = NotStarted
    /\ writers' = [writers EXCEPT ![w] = r2]
    /\ counter' = Increment(counter) /\ lang' = lang
    /\ WriterOK(r2) /\ r2.phase = "open" /\ r2.id = TakenId /\ r2.stream.frames = <<>>

-----------------------------------------------------------------------------
(* The steps of a C++ message *)

\* The id of a message that begins.
LEMMA TakenIsId ==
    ASSUME lang \in {"C++", "C#"}, counter \in PackageIds
    PROVE  TakenId \in PackageIds /\ Increment(counter) \in PackageIds
  <1>1. U8 \in Nat \ {0} /\ counter \in Nat
    BY Widths DEF PackageIds
  <1>2. (counter + 1) % U8 \in 0..(U8 - 1)
    BY <1>1
  <1> QED BY <1>2 DEF TakenId, Increment, PackageIds

\* A cursor is in its type, wherever it stands.
LEMMA CursorIsCoordinate ==
    ASSUME NEW id \in PackageIds, NEW n \in Nat
    PROVE  CursorAt(id, n) \in Coordinates
  <1>1. n * MaxP \in Nat /\ U16 \in Nat \ {0}
    BY MaxPFacts, Widths
  <1>2. (n * MaxP) % U16 \in Offsets
    BY <1>1 DEF Offsets
  <1> QED BY <1>2, EncoderAssumption DEF CursorAt, Coordinates

\* Before the first slice.
LEMMA NoFramesYet ==
    ASSUME NEW id
    PROVE  /\ FullFrames(<<>>, id, 0)
           /\ CursorAt(id, 0) = Coord(id)
  <1>1. 0 * MaxP = 0 /\ 0 % U16 = 0
    BY MaxPFacts, Widths
  <1>2. CursorAt(id, 0) = Coord(id)
    BY <1>1 DEF CursorAt, Coord
  <1>3. <<>> \in Seq(AllFrames) /\ Len(<<>>) = 0
    BY EmptySeq
  <1> QED BY <1>2, <1>3 DEF FullFrames

LEMMA MessageBegun ==
    ASSUME NEW id \in PackageIds, NEW length \in Messages, NEW stream
    PROVE  Parts(Begun(id, length, stream), "open", id, length, 0, FALSE, stream)
  <1>1. Begun(id, length, stream) = Message("open", id, length, 0, FALSE, stream)
    BY DEF Begun, Message
  <1>2. 0 \in 0..length /\ FALSE \in BOOLEAN
    BY EncoderAssumption DEF Messages
  <1> QED BY <1>1, <1>2, MessageMade

LEMMA PushStep ==
    ASSUME BuffersAreUnits, WritersOK, NEW w \in Writers, NEW length \in Messages,
           NEW size \in Buffers, Push(w, length, size)
    PROVE  \E r2 : Opens(w, r2)
  <1> DEFINE buf == [k \in 1..(size - MP_HEADER_SIZE) |-> Garbage]
             s   == TxStream(Coord(TakenId), buf)
             r2  == Begun(TakenId, length, s)
  <1>1. lang = "C++" /\ TakenId \in PackageIds
    BY TakenIsId DEF WritersOK, Push
  <1>2. Buffered(buf, 0, 0)
    <2>1. size - MP_HEADER_SIZE = MaxP
      BY MaxPFacts DEF BuffersAreUnits, MP_HEADER_SIZE
    <2> QED BY <2>1, FreshBuffer
  <1>3. FullFrames(<<>>, TakenId, 0) /\ CursorAt(TakenId, 0) = Coord(TakenId)
    BY NoFramesYet
  <1>4. writers[w] = NotStarted /\ counter' = Increment(counter)
        /\ writers' = [writers EXCEPT ![w] = r2] /\ lang' = lang
    BY <1>1 DEF Push, Start
  <1> HIDE DEF buf
  <1>5. s = Stream(TakenId, 0, buf, 0, 0, FALSE, <<>>) /\ s.frames = <<>>
        /\ s.payload_buf = buf /\ s.next_called = FALSE
    BY <1>3 DEF TxStream, Stream
  <1> HIDE DEF s
  <1>6. Parts(r2, "open", TakenId, length, 0, FALSE, s)
    BY <1>1, MessageBegun
  <1> HIDE DEF r2
  <1>8. CppOpen(r2, 0)
    <2>1. 0 * MaxP = 0
      BY MaxPFacts
    <2>2. r2.stream = Stream(r2.id, 0, r2.stream.payload_buf, 0 * MaxP, 0,
                             r2.stream.next_called, r2.stream.frames)
      BY <1>5, <1>6, <2>1 DEF Parts
    <2>3. /\ FullFrames(r2.stream.frames, r2.id, 0) /\ ~ r2.failed
          /\ ~ r2.stream.next_called /\ r2.produced = 0
          /\ Buffered(r2.stream.payload_buf, 0, 0)
      BY <1>2, <1>3, <1>5, <1>6 DEF Parts
    <2> QED BY <2>2, <2>3 DEF CppOpen
  <1>9. WriterOK(r2)
    BY <1>1, <1>6, <1>8 DEF WriterOK, Parts
  <1>10. r2.phase = "open" /\ r2.id = TakenId /\ r2.stream.frames = <<>>
    BY <1>5, <1>6 DEF Parts
  <1>11. Opens(w, r2)
    BY <1>4, <1>9, <1>10 DEF Opens
  <1> QED BY <1>11

\* What a C++ message in the making looks like.
LEMMA CppMessage ==
    ASSUME WritersOK, NEW w \in Writers, lang = "C++", NEW r, r = writers[w], r.phase = "open"
    PROVE  /\ Begins(r) /\ r.failed = FALSE
           /\ \E n \in Nat : CppOpen(r, n)
  <1>1. WriterOK(r)
    BY DEF WritersOK
  <1>2. Begins(r) /\ \E n \in Nat : CppOpen(r, n)
    BY <1>1, OpenMessage
  <1> QED BY <1>2 DEF Begins, CppOpen

\* The serialiser writes into the buffer of slice n.
LEMMA BufferFilled ==
    ASSUME lang = "C++", NEW r, Begins(r), r.phase = "open", r.failed = FALSE,
           NEW n \in Nat, r.produced = n * MaxP, r.produced < r.length,
           NEW buf, Buffered(buf, n, 0), NEW fs, FullFrames(fs, r.id, n),
           NEW m, m = Min({Len(buf), r.length - r.produced}),
           NEW b2, b2 = Overwrite(buf, 0, Piece(r.produced, m)),
           NEW r2, Parts(r2, "open", r.id, r.length, r.produced + m, FALSE,
                         Stream(r.id, n, b2, n * MaxP, 0, TRUE, fs))
    PROVE  WriterOK(r2)
  <1> DEFINE s2 == Stream(r.id, n, b2, n * MaxP, 0, TRUE, fs)
  <1>0. MaxP \in Nat \ {0} /\ n * MaxP \in Nat /\ r.length \in Nat /\ r.produced \in Nat
    BY MaxPFacts, MessageParts
  <1>1. /\ m \in 1..MaxP /\ r.produced + m <= r.length
        /\ m < MaxP => r.produced + m = r.length
    <2>1. Len(buf) = MaxP
      BY DEF Buffered
    <2> DEFINE left == r.length - r.produced
    <2>2. left \in Nat /\ left > 0 /\ r.produced + left = r.length
      BY <1>0
    <2> HIDE DEF left
    <2>3. m = IF MaxP <= left THEN MaxP ELSE left
      <3>1. m = Min({MaxP, left})
        BY <2>1 DEF left
      <3> QED BY <1>0, <2>2, <3>1, MinOfTwo
    <2> QED BY <1>0, <2>2, <2>3
  <1>2. Buffered(b2, n, m)
    <2>1. m \in Nat /\ 0 + m <= MaxP /\ 0 \in 0..MaxP /\ r.produced = n * MaxP + 0
          /\ 0 + m = m
      BY <1>0, <1>1
    <2>2. Buffered(Overwrite(buf, 0, Piece(r.produced, m)), n, 0 + m)
      BY <2>1, BytesWritten
    <2> QED BY <2>1, <2>2
  <1>5. s2.next_called = TRUE /\ s2.frames = fs /\ s2.payload_buf = b2
    BY DEF Stream
  <1>6. s2 = Stream(r.id, n, s2.payload_buf, n * MaxP, 0, s2.next_called, s2.frames)
    BY DEF Stream
  <1>7. /\ r2.stream = s2 /\ r2.id = r.id /\ r2.length = r.length /\ Begins(r2)
        /\ r2.produced = r.produced + m /\ r2.failed = FALSE /\ r2.phase = "open"
    BY DEF Parts
  <1> HIDE DEF s2
  <1>8. CppOpen(r2, n)
    <2>1. r2.stream = s2 /\ r2.id = r.id /\ r2.length = r.length
          /\ r2.produced = r.produced + m /\ r2.failed = FALSE
      BY <1>7
    <2>2. r2.produced = n * MaxP + m
      BY <2>1
    <2>3. r2.stream = Stream(r2.id, n, r2.stream.payload_buf, n * MaxP, 0,
                             r2.stream.next_called, r2.stream.frames)
      BY <1>6, <2>1
    <2>4. FullFrames(r2.stream.frames, r2.id, n) /\ ~ r2.failed /\ r2.stream.next_called
      BY <1>5, <2>1
    <2>5. m < MaxP => r2.produced = r2.length
      BY <1>1, <2>1
    <2>6. Buffered(r2.stream.payload_buf, n, m)
      BY <1>2, <1>5, <2>1
    <2>7. \E size \in 1..MaxP :
              /\ r2.produced = n * MaxP + size
              /\ Buffered(r2.stream.payload_buf, n, size)
              /\ size < MaxP => r2.produced = r2.length
      BY <1>1, <2>2, <2>5, <2>6
    <2> QED BY <2>3, <2>4, <2>7 DEF CppOpen
  <1>9. WriterOK(r2)
    BY <1>7, <1>8 DEF WriterOK
  <1> QED BY <1>9

\* Next: the first buffer, or the next one after the frame of the last.
NextGives(r, s, n) ==
    /\ r.produced = n * MaxP
    /\ s = Stream(r.id, n, r.stream.payload_buf, n * MaxP, 0, TRUE, s.frames)
    /\ Buffered(r.stream.payload_buf, n, 0) /\ FullFrames(s.frames, r.id, n)
    /\ \/ s.frames = r.stream.frames
       \/ \E f \in AllFrames :
              /\ FrameAt(f, r.id, Len(r.stream.frames), MaxP, FALSE)
              /\ s.frames = Append(r.stream.frames, f)

LEMMA NextResult ==
    ASSUME NEW r, Begins(r), NEW n \in Nat, CppOpen(r, n), r.produced < r.length
    PROVE  \E k \in Nat : NextGives(r, StreamNext(r.stream), k)
  <1> DEFINE buf == r.stream.payload_buf
             fs  == r.stream.frames
             st  == r.stream
             s   == StreamNext(st)
             called == st.next_called
  <1>0. MaxP \in Nat \ {0} /\ n * MaxP \in Nat /\ r.length \in Nat /\ r.produced \in Nat
        /\ r.id \in PackageIds /\ r.length \in Messages
    BY MaxPFacts, MessageParts
  <1>1. st = Stream(r.id, n, buf, n * MaxP, 0, called, fs)
        /\ FullFrames(fs, r.id, n)
    BY DEF CppOpen
  <1>2. CASE ~ st.next_called
    <2>1. n = 0 /\ r.produced = 0 /\ Buffered(buf, n, 0)
      BY <1>2 DEF CppOpen
    <2>2. s = [st EXCEPT !.next_called = TRUE, !.written = 0]
      BY <1>2 DEF StreamNext
    <2>3. r.produced = n * MaxP
      BY <1>0, <2>1
    <2> HIDE DEF buf, fs, st, s, called
    <2>4. s = Stream(r.id, n, buf, n * MaxP, 0, TRUE, fs)
      BY <1>1, <2>2 DEF Stream
    <2>5. s.frames = fs
      BY <2>4 DEF Stream
    <2>6. NextGives(r, s, n)
      BY <1>1, <2>1, <2>3, <2>4, <2>5 DEF NextGives, fs, buf, st
    <2> QED BY <2>6 DEF s, st
  <1>3. CASE st.next_called
    <2>1. PICK size \in 1..MaxP :
              /\ r.produced = n * MaxP + size /\ Buffered(buf, n, size)
              /\ size < MaxP => r.produced = r.length
      BY <1>3 DEF CppOpen
    <2>2. size = MaxP
      BY <1>0, <2>1
    <2>3. r.produced = n * MaxP + MaxP /\ Buffered(buf, n, MaxP) /\ Len(buf) = MaxP
      BY <2>1, <2>2 DEF Buffered
    <2>4. n < U8 /\ n * MaxP < U16
      <3>1. n * MaxP + MaxP <= r.length /\ MaxP \in 0..MaxP /\ MaxP > 0
        BY <1>0, <2>3
      <3> QED BY <1>0, <3>1, InsideMessage
    <2>5. s = [commit_slice(st, FALSE, Len(buf)) EXCEPT !.next_called = TRUE, !.written = 0]
      BY <1>3 DEF StreamNext
    <2> HIDE DEF buf, fs, st, s, called
    <2> DEFINE f  == Given(r.id, n, MaxP, FALSE, buf)
               gs == Append(fs, f)
               c  == commit_slice(st, FALSE, MaxP)
    <2>6. c = Stream(r.id, n + 1, buf, n * MaxP + MaxP, 0, called, gs)
      <3>1. MaxP \in 0..MaxP
        BY <1>0
      <3> DEFINE id  == r.id
                 acc == n * MaxP
                 m   == MaxP
                 end == FALSE
      <3>2. m \in 0..MaxP
        BY <3>1
      <3> HIDE DEF id, acc, m, end
      <3>3. commit_slice(Stream(id, n, buf, acc, 0, called, fs), end, m)
                = Stream(id, n + 1, buf, acc + m, 0, called, Append(fs, Given(id, n, m, end, buf)))
        BY <2>4, <3>2, CommitResult
      <3>4. commit_slice(Stream(r.id, n, buf, n * MaxP, 0, called, fs), FALSE, MaxP)
                = Stream(r.id, n + 1, buf, n * MaxP + MaxP, 0, called,
                         Append(fs, Given(r.id, n, MaxP, FALSE, buf)))
        BY <3>3 DEF id, acc, m, end
      <3> QED BY <1>1, <3>4
    <2>7. f \in AllFrames /\ FrameAt(f, r.id, n, MaxP, FALSE)
      <3>1. MaxP \in 0..MaxP /\ FALSE \in BOOLEAN
        BY <1>0
      <3> QED BY <1>0, <2>3, <3>1, FrameGiven
    <2> HIDE DEF f
    <2>8. FullFrames(gs, r.id, n + 1)
      <3>1. FALSE \in BOOLEAN
        OBVIOUS
      <3> QED BY <1>1, <2>7, <3>1, FrameAdded
    <2> HIDE DEF gs, c
    <2>9. (n + 1) * MaxP = n * MaxP + MaxP /\ n + 1 \in Nat
      BY <1>0
    <2>10. s = Stream(r.id, n + 1, buf, n * MaxP + MaxP, 0, TRUE, gs)
      <3>1. s = [c EXCEPT !.next_called = TRUE, !.written = 0]
        BY <2>3, <2>5 DEF c
      <3> QED BY <2>6, <3>1 DEF Stream
    <2>11. s.frames = gs
      BY <2>10 DEF Stream
    <2>12. s = Stream(r.id, n + 1, buf, (n + 1) * MaxP, 0, TRUE, s.frames)
      BY <2>9, <2>10, <2>11
    <2>13. Buffered(buf, n + 1, 0)
      BY <2>3, BufferAgain
    <2>14. \E g \in AllFrames : FrameAt(g, r.id, Len(fs), MaxP, FALSE) /\ gs = Append(fs, g)
      <3>1. Len(fs) = n
        BY <1>1 DEF FullFrames
      <3> QED BY <2>7, <3>1 DEF gs
    <2>15. r.produced = (n + 1) * MaxP
      BY <2>3, <2>9
    <2>16. NextGives(r, s, n + 1)
      BY <2>8, <2>11, <2>12, <2>13, <2>14, <2>15 DEF NextGives, fs, buf, st
    <2> QED BY <2>9, <2>16 DEF s, st
  <1> QED BY <1>2, <1>3

LEMMA FillBufferStep ==
    ASSUME WritersOK, NEW w \in Writers, FillBuffer(w)
    PROVE  \E r2 : Proceeds(w, r2)
  <1> DEFINE r  == writers[w]
             s  == StreamNext(r.stream)
             m  == Min({Len(r.stream.payload_buf), r.length - r.produced})
             b2 == Overwrite(r.stream.payload_buf, 0, Piece(r.produced, m))
             s2 == [s EXCEPT !.payload_buf = b2]
             r2 == [r EXCEPT !.produced = @ + m, !.stream = s2]
  <1>1. lang = "C++" /\ r.phase = "open" /\ r.produced < r.length
    BY DEF FillBuffer
  <1>2. Begins(r) /\ r.failed = FALSE /\ \E n \in Nat : CppOpen(r, n)
    BY <1>1, CppMessage
  <1>3. PICK n0 \in Nat : CppOpen(r, n0)
    BY <1>2
  <1>4. PICK n \in Nat : NextGives(r, s, n)
    BY <1>1, <1>2, <1>3, NextResult
  <1>5. s.payload_buf = r.stream.payload_buf
    <2> HIDE DEF s, r
    <2> QED BY <1>4 DEF NextGives, Stream
  <1>6. Update(w, r2)
    <2>1. Min({Len(s.payload_buf), r.length - r.produced}) = m
      BY <1>5
    <2>2. Overwrite(s.payload_buf, 0, Piece(r.produced, m)) = b2
      BY <1>5
    <2> HIDE DEF m, b2
    <2>3. FillBuffer(w) <=>
              /\ lang = "C++" /\ r.phase = "open" /\ r.produced < r.length
              /\ Update(w, [r EXCEPT
                     !.produced = @ + Min({Len(s.payload_buf), r.length - r.produced}),
                     !.stream = [s EXCEPT !.payload_buf =
                         Overwrite(@, 0, Piece(r.produced,
                             Min({Len(s.payload_buf), r.length - r.produced})))]])
      BY DEF FillBuffer
    <2> QED BY <2>1, <2>2, <2>3
  <1>7. WriterOK(r2) /\ r2.phase = "open" /\ r2.id = r.id /\ r2.stream.frames = s.frames
    <2>1. /\ r.produced = n * MaxP /\ Buffered(r.stream.payload_buf, n, 0)
          /\ FullFrames(s.frames, r.id, n)
          /\ s = Stream(r.id, n, r.stream.payload_buf, n * MaxP, 0, TRUE, s.frames)
      BY <1>4 DEF NextGives
    <2>2. /\ m = Min({Len(r.stream.payload_buf), r.length - r.produced})
          /\ b2 = Overwrite(r.stream.payload_buf, 0, Piece(r.produced, m))
          /\ s2 = [s EXCEPT !.payload_buf = b2]
          /\ r2 = [r EXCEPT !.produced = @ + m, !.stream = s2]
      OBVIOUS
    <2> DEFINE s3 == Stream(r.id, n, b2, n * MaxP, 0, TRUE, s.frames)
    <2>3. r.produced + m \in 0..r.length
      <3>1. Len(r.stream.payload_buf) \in Nat
        BY <2>1, MaxPFacts DEF Buffered
      <3>2. r.length \in Nat /\ r.produced \in Nat
        BY <1>2, MessageParts
      <3>3. m <= r.length - r.produced /\ m \in Nat
        <4> DEFINE a == Len(r.stream.payload_buf)
                   b == r.length - r.produced
        <4>1. a \in Nat /\ b \in Nat
          BY <1>1, <3>1, <3>2
        <4> HIDE DEF a, b
        <4>2. Min({a, b}) <= b /\ Min({a, b}) \in Nat
          BY <4>1, MinOfTwo
        <4> QED BY <4>2 DEF a, b
      <3> HIDE DEF m, r
      <3> QED BY <3>2, <3>3
    <2> HIDE DEF r, s, m, b2, s2, r2
    <2>4. s2 = s3 /\ s3.frames = s.frames
      <3> DEFINE fs == s.frames
                 old == r.stream.payload_buf
      <3>1. s = Stream(r.id, n, old, n * MaxP, 0, TRUE, fs)
        BY <2>1
      <3> HIDE DEF fs, old
      <3>2. s2 = Stream(r.id, n, b2, n * MaxP, 0, TRUE, fs)
        BY <2>2, <3>1 DEF Stream
      <3>3. s2.frames = fs
        BY <3>2 DEF Stream
      <3> QED BY <3>2, <3>3 DEF fs
    <2> HIDE DEF s3
    <2>5. r2 = Changed(r, "open", r.produced + m, FALSE, s2)
      BY <1>1, <1>2, <2>2 DEF Changed, Begins, Message
    <2>6. FALSE \in BOOLEAN
      OBVIOUS
    <2>7. Parts(r2, "open", r.id, r.length, r.produced + m, FALSE, s3)
      BY <1>2, <2>3, <2>4, <2>5, <2>6, MessageChanged
    <2>8. WriterOK(r2)
      BY <1>1, <1>2, <2>1, <2>2, <2>7, BufferFilled DEF s3
    <2> QED BY <2>4, <2>7, <2>8 DEF Parts
  <1>8. Sends(r, r2)
    <2>1. r.stream.frames \in Seq(AllFrames)
      BY <1>3 DEF CppOpen, FullFrames
    <2> HIDE DEF r, s, r2
    <2> QED BY <1>4, <1>7, <2>1 DEF Sends, NextGives
  <1>9. Proceeds(w, r2)
    <2> HIDE DEF r2
    <2> QED BY <1>1, <1>6, <1>7, <1>8 DEF Proceeds
  <1> QED BY <1>9

\* The end of Push: what protobuf hands back and what finalize makes of it.
BackAt(s, r, n, wr) ==
    s = Stream(r.id, n, r.stream.payload_buf, n * MaxP, wr, r.stream.next_called,
               r.stream.frames)

LEMMA HandedBackResult ==
    ASSUME NEW r, NEW n \in Nat, CppOpen(r, n), NEW size \in 0..MaxP,
           r.produced = n * MaxP + size, Len(r.stream.payload_buf) = MaxP,
           ~ r.stream.next_called => size = 0, NEW s \in HandedBack(r)
    PROVE  \E wr \in 0..MaxP :
               /\ BackAt(s, r, n, wr)
               /\ r.stream.next_called => size = IF wr > 0 THEN wr ELSE MaxP
  <1> DEFINE st     == r.stream
             buf    == st.payload_buf
             fs     == st.frames
             called == st.next_called
             acc    == n * MaxP
             id     == r.id
             left   == IF called THEN MaxP - size ELSE 0
             back   == Stream(id, n, buf, acc, MaxP - left, called, fs)
  <1>0. MaxP \in Nat \ {0} /\ acc \in Nat /\ size \in Nat /\ size <= MaxP
    BY MaxPFacts
  <1>1. st = Stream(id, n, buf, acc, 0, called, fs)
    BY DEF CppOpen
  <1>2. st.accumulated = acc
    <2> HIDE DEF st, buf, fs, called, acc, id
    <2> QED BY <1>1 DEF Stream
  <1>3. Len(buf) - (r.produced - st.accumulated) = MaxP - size
    BY <1>0, <1>2
  <1>4. s = BackUp(st, left) \/ (left = 0 /\ s = st)
    <2>1. left \in Nat
      BY <1>0
    <2>2. HandedBack(r) = {BackUp(st, left)} \union (IF left > 0 THEN {} ELSE {st})
      BY <1>3 DEF HandedBack
    <2> HIDE DEF left, st
    <2>3. s = BackUp(st, left) \/ (~ (left > 0) /\ s = st)
      BY <2>2
    <2> QED BY <2>1, <2>3
  <1>5. left \in 0..MaxP /\ (called => left = MaxP - size)
        /\ (~ called => left = 0)
    BY <1>0
  <1>6. BackUp(st, left) = Stream(id, n, buf, acc, MaxP - left, called, fs)
    <2>1. Len(st.payload_buf) = MaxP
      OBVIOUS
    <2>2. BackUp(st, left) = [st EXCEPT !.written = MaxP - left]
      BY <2>1 DEF BackUp
    <2> DEFINE wr == MaxP - left
    <2> HIDE DEF st, buf, fs, called, acc, id, left, wr
    <2>3. [st EXCEPT !.written = wr] = Stream(id, n, buf, acc, wr, called, fs)
      BY <1>1 DEF Stream
    <2> QED BY <2>2, <2>3 DEF wr
  <1>7. CASE s = BackUp(st, left)
    <2> DEFINE wr == MaxP - left
    <2>1. wr \in 0..MaxP /\ (called => wr = size)
      BY <1>0, <1>5
    <2>2. ~ called => size = 0
      OBVIOUS
    <2>3. called => size = IF wr > 0 THEN wr ELSE MaxP
      <3>1. CASE size > 0
        BY <1>0, <2>1, <3>1
      <3>2. CASE size = 0
        <4>1. called => r.produced = acc
          BY <1>0, <3>2
        <4>2. called => FALSE
          <5>1. ASSUME called PROVE FALSE
            <6>1. PICK z \in 1..MaxP : r.produced = n * MaxP + z
              BY <5>1 DEF CppOpen
            <6> QED BY <1>0, <3>2, <6>1
          <5> QED BY <5>1
        <4> QED BY <4>2
      <3> QED BY <1>0, <3>1, <3>2
    <2>4. BackAt(s, r, n, wr)
      BY <1>6, <1>7 DEF BackAt
    <2> QED BY <2>1, <2>3, <2>4
  <1>8. CASE left = 0 /\ s = st
    <2>1. called => size = MaxP
      BY <1>0, <1>5, <1>8
    <2>2. BackAt(s, r, n, 0)
      BY <1>1, <1>8 DEF BackAt
    <2>3. 0 \in 0..MaxP /\ (called => size = IF 0 > 0 THEN 0 ELSE MaxP)
      BY <1>0, <2>1
    <2> QED BY <2>2, <2>3
  <1> QED BY <1>4, <1>7, <1>8

Used(wr) == IF wr > 0 THEN wr ELSE MaxP

Ending(id, i, size, buf) == Given(id, i, size, TRUE, buf)

LEMMA FinalizeResult ==
    ASSUME NEW id, NEW n \in Nat, n < U8, n * MaxP < U16, NEW size \in 0..MaxP, NEW buf,
           Len(buf) = MaxP, NEW acc, NEW wr \in 0..MaxP,
           size = Used(wr), NEW fs, NEW called,
           Stream(id, n, buf, acc, wr, called, fs).next_called
    PROVE  finalize(Stream(id, n, buf, acc, wr, called, fs)) =
               Stream(id, n + 1, buf, acc + size, wr, called,
                      Append(fs, Ending(id, n, size, buf)))
  <1> DEFINE s   == Stream(id, n, buf, acc, wr, called, fs)
             end == TRUE
  <1>1. s.next_called /\ s.written = wr /\ Len(s.payload_buf) = MaxP
    BY DEF Stream
  <1>2. finalize(s) = commit_slice(s, end, size)
    BY <1>1 DEF finalize, Used
  <1>3. s = Stream(id, n, buf, acc, wr, called, fs)
    OBVIOUS
  <1> HIDE DEF end, s, Ending
  <1>4. commit_slice(s, end, size) =
            Stream(id, n + 1, buf, acc + size, wr, called,
                   Append(fs, Given(id, n, size, end, buf)))
    BY <1>3, CommitResult
  <1> QED BY <1>2, <1>4 DEF end, s, Ending

\* A message that is over, as a step makes it.
OverAs(r, r2, produced, failed, stream) ==
    /\ Parts(r2, "done", r.id, r.length, produced, failed, stream)
    /\ stream.cursor \in Coordinates
    /\ IF lang = "C++" THEN stream.written \in 0..Len(stream.payload_buf) ELSE stream.fill = 0
    /\ ~ failed => produced = r.length

\* Nothing was sent.
LEMMA OverUnsent ==
    ASSUME NEW r, NEW failed, NEW stream, NEW r2, OverAs(r, r2, 0, failed, stream),
           stream.frames = <<>>, r.stream.frames = <<>>
    PROVE  WriterOK(r2) /\ Sends(r, r2)
  <1>1. /\ Begins(r2) /\ r2.phase = "done" /\ r2.id = r.id /\ r2.length = r.length
        /\ r2.produced = 0 /\ r2.failed = failed /\ r2.stream = stream
    BY DEF OverAs, Parts
  <1>2. Over(r2)
    BY <1>1 DEF Over, OverAs
  <1>3. <<>> \in Seq(AllFrames)
    BY EmptySeq
  <1> QED BY <1>1, <1>2, <1>3 DEF WriterOK, Sends

\* The last slice was sent.
LEMMA OverSent ==
    ASSUME NEW r, NEW failed, NEW stream, NEW n \in Nat, NEW size \in 0..MaxP, NEW produced,
           NEW r2, OverAs(r, r2, produced, failed, stream), produced = n * MaxP + size,
           FullFrames(r.stream.frames, r.id, n), r.id \in PackageIds,
           NEW buf, Buffered(buf, n, size),
           stream.frames = Append(r.stream.frames, Given(r.id, n, size, TRUE, buf)),
           size > 0 \/ n > 0, lang = "C++" => size > 0, lang = "C#" /\ ~ failed => size < MaxP
    PROVE  WriterOK(r2) /\ Sends(r, r2)
  <1> DEFINE fs == r.stream.frames
             f  == Given(r.id, n, size, TRUE, buf)
  <1>1. /\ Begins(r2) /\ r2.phase = "done" /\ r2.id = r.id /\ r2.length = r.length
        /\ r2.produced = produced /\ r2.failed = failed /\ r2.stream = stream
    BY DEF OverAs, Parts
  <1>2. f \in AllFrames /\ FrameAt(f, r.id, n, size, TRUE)
    <2>1. TRUE \in BOOLEAN
      OBVIOUS
    <2> QED BY <2>1, FrameGiven
  <1>3. stream.frames = Append(fs, f) /\ FullFrames(fs, r.id, n)
    OBVIOUS
  <1> HIDE DEF fs, f
  <1>4. EndedFrames(Append(fs, f), r.id, n, size)
    <2>1. TRUE \in BOOLEAN
      OBVIOUS
    <2> QED BY <1>2, <1>3, <2>1, FrameAdded
  <1>5. EndedFrames(r2.stream.frames, r2.id, n, size) /\ r2.produced = n * MaxP + size
    BY <1>1, <1>3, <1>4
  <1>6. \E k \in Nat, z \in 0..MaxP :
            /\ EndedFrames(r2.stream.frames, r2.id, k, z)
            /\ r2.produced = k * MaxP + z /\ (z > 0 \/ k > 0)
            /\ lang = "C++" => z > 0
            /\ lang = "C#" /\ ~ r2.failed => z < MaxP
    BY <1>1, <1>5
  <1>7. Over(r2)
    BY <1>1, <1>6 DEF Over, OverAs
  <1>8. WriterOK(r2)
    BY <1>1, <1>7 DEF WriterOK
  <1>9. Len(fs) = n /\ fs \in Seq(AllFrames)
    BY <1>3 DEF FullFrames
  <1>10. \E g \in AllFrames, z \in 0..MaxP :
            FrameAt(g, r.id, Len(fs), z, TRUE) /\ r2.stream.frames = Append(fs, g)
    BY <1>1, <1>2, <1>3, <1>9
  <1>11. Sends(r, r2)
    BY <1>1, <1>9, <1>10 DEF Sends, fs
  <1> QED BY <1>8, <1>11

LEMMA ReturnStep ==
    ASSUME WritersOK, NEW w \in Writers, Return(w)
    PROVE  \E r2 : Proceeds(w, r2)
  <1> DEFINE r      == writers[w]
             buf    == r.stream.payload_buf
             fs     == r.stream.frames
             called == r.stream.next_called
  <1>1. lang = "C++" /\ r.phase = "open" /\ r.produced = r.length
    BY DEF Return
  <1>2. Begins(r) /\ r.failed = FALSE /\ \E n \in Nat : CppOpen(r, n)
    BY <1>1, CppMessage
  <1>3. PICK n \in Nat : CppOpen(r, n)
    BY <1>2
  <1>4. PICK s \in HandedBack(r) :
            Update(w, [r EXCEPT !.phase = "done", !.stream = finalize(s)])
    BY DEF Return
  <1> DEFINE r2 == [r EXCEPT !.phase = "done", !.stream = finalize(s)]
  <1>0. MaxP \in Nat \ {0} /\ n * MaxP \in Nat /\ r.length \in Nat /\ r.produced \in Nat
        /\ r.id \in PackageIds /\ r.length \in Messages /\ r.produced \in 0..r.length
    BY <1>2, MaxPFacts, MessageParts
  <1>5. Parts(r2, "done", r.id, r.length, r.produced, FALSE, finalize(s))
    <2>1. r2 = Changed(r, "done", r.produced, FALSE, finalize(s))
      <3> DEFINE t == finalize(s)
      <3> HIDE DEF t, r
      <3>1. [r EXCEPT !.phase = "done", !.stream = t] = Changed(r, "done", r.produced, FALSE, t)
        BY <1>2 DEF Changed, Begins, Message
      <3> QED BY <3>1 DEF t
    <2>2. FALSE \in BOOLEAN
      OBVIOUS
    <2> HIDE DEF r, r2
    <2> QED BY <1>0, <1>2, <2>1, <2>2, MessageChanged
  <1>6. FullFrames(fs, r.id, n)
    BY <1>3 DEF CppOpen
  <1>7. CASE ~ called
    <2>1. n = 0 /\ r.produced = 0 /\ Len(buf) = MaxP
      BY <1>3, <1>7 DEF CppOpen, Buffered
    <2>2. r.produced = n * MaxP + 0 /\ 0 \in 0..MaxP
      BY <1>0, <2>1
    <2> HIDE DEF r, r2
    <2>3. PICK wr \in 0..MaxP : BackAt(s, r, n, wr)
      BY <1>3, <1>7, <2>1, <2>2, HandedBackResult DEF buf, called
    <2> HIDE DEF buf, fs, called
    <2>4. s = Stream(r.id, n, buf, n * MaxP, wr, called, fs)
      BY <2>3 DEF BackAt, buf, called, fs
    <2>5. finalize(s) = s
      <3>1. s.next_called = called
        BY <2>4 DEF Stream
      <3> QED BY <1>7, <3>1 DEF finalize
    <2>6. fs = <<>>
      BY <1>6, <2>1, EmptySeq DEF FullFrames
    <2>7. s.cursor = CursorAt(r.id, n) /\ s.written = wr /\ s.payload_buf = buf /\ s.frames = fs
      BY <2>4 DEF Stream
    <2>8. CursorAt(r.id, n) \in Coordinates
      BY <1>0, CursorIsCoordinate
    <2>9. OverAs(r, r2, 0, FALSE, s)
      BY <1>1, <1>5, <2>1, <2>5, <2>7, <2>8 DEF OverAs
    <2>10. WriterOK(r2) /\ Sends(r, r2)
      BY <2>6, <2>7, <2>9, OverUnsent DEF fs
    <2>11. Proceeds(w, r2)
      BY <1>1, <1>4, <2>10 DEF Proceeds, r, r2
    <2> QED BY <2>11
  <1>8. CASE called
    <2>1. PICK size \in 1..MaxP :
              r.produced = n * MaxP + size /\ Buffered(buf, n, size)
      BY <1>3, <1>8 DEF CppOpen
    <2>2. Len(buf) = MaxP /\ size \in 0..MaxP /\ size > 0
      BY <1>0, <2>1 DEF Buffered
    <2>3. n < U8 /\ n * MaxP < U16
      <3>1. n * MaxP + size <= r.length
        BY <1>0, <2>1
      <3> HIDE DEF r, buf
      <3> QED BY <1>0, <2>2, <3>1, InsideMessage
    <2> HIDE DEF r, r2
    <2>4. PICK wr \in 0..MaxP :
              BackAt(s, r, n, wr) /\ size = IF wr > 0 THEN wr ELSE MaxP
      BY <1>3, <1>8, <2>1, <2>2, HandedBackResult DEF buf, called
    <2> HIDE DEF buf, fs, called
    <2>6. s = Stream(r.id, n, buf, n * MaxP, wr, called, fs)
      BY <2>4 DEF BackAt, buf, called, fs
    <2> DEFINE gs == Append(fs, Given(r.id, n, size, TRUE, buf))
               t  == Stream(r.id, n + 1, buf, n * MaxP + size, wr, called, gs)
    <2>7. finalize(s) = t
      <3> DEFINE acc == n * MaxP
                 id  == r.id
      <3>1. s = Stream(id, n, buf, acc, wr, called, fs)
        BY <2>6
      <3>2. s.next_called
        <4>1. s.next_called = called
          BY <2>6 DEF Stream
        <4> QED BY <1>8, <4>1
      <3>3. size = Used(wr)
        BY <2>4 DEF Used
      <3> HIDE DEF acc, id
      <3>4. finalize(Stream(id, n, buf, acc, wr, called, fs)) =
                Stream(id, n + 1, buf, acc + size, wr, called,
                       Append(fs, Ending(id, n, size, buf)))
        BY <2>2, <2>3, <3>3, <3>1, <3>2, FinalizeResult
      <3> QED BY <3>1, <3>4 DEF acc, id, Ending
    <2>8. t.cursor = CursorAt(r.id, n + 1) /\ t.written = wr /\ t.payload_buf = buf
          /\ t.frames = gs
      BY DEF Stream
    <2>9. CursorAt(r.id, n + 1) \in Coordinates
      BY <1>0, CursorIsCoordinate
    <2> HIDE DEF t, gs
    <2>10. OverAs(r, r2, r.produced, FALSE, t)
      BY <1>1, <1>5, <2>2, <2>7, <2>8, <2>9 DEF OverAs
    <2>11. t.frames = Append(r.stream.frames, Given(r.id, n, size, TRUE, buf))
           /\ FullFrames(r.stream.frames, r.id, n)
      BY <1>6, <2>8 DEF gs, fs
    <2>12. WriterOK(r2) /\ Sends(r, r2)
      BY <1>0, <1>1, <2>1, <2>2, <2>10, <2>11, OverSent
    <2>13. Proceeds(w, r2)
      BY <1>1, <1>4, <2>12 DEF Proceeds, r, r2
    <2> QED BY <2>13
  <1> QED BY <1>7, <1>8

LEMMA RefuseStep ==
    ASSUME WritersOK, NEW w \in Writers, Refuse(w)
    PROVE  \E r2 : Proceeds(w, r2)
  <1> DEFINE r  == writers[w]
             st == r.stream
             r2 == [r EXCEPT !.phase = "done", !.failed = TRUE]
  <1>1. lang = "C++" /\ r.phase = "open" /\ ~ st.next_called /\ Update(w, r2)
    BY DEF Refuse
  <1>2. Begins(r) /\ r.failed = FALSE /\ \E n \in Nat : CppOpen(r, n)
    BY <1>1, CppMessage
  <1>3. PICK n \in Nat : CppOpen(r, n)
    BY <1>2
  <1>4. n = 0 /\ r.produced = 0 /\ Len(st.payload_buf) = MaxP /\ FullFrames(st.frames, r.id, n)
        /\ st = Stream(r.id, n, st.payload_buf, n * MaxP, 0, st.next_called, st.frames)
    BY <1>1, <1>3 DEF CppOpen, Buffered
  <1>5. r.id \in PackageIds /\ 0 \in 0..r.length /\ MaxP \in Nat
    BY <1>2, MessageParts, MaxPFacts
  <1>6. st.cursor = CursorAt(r.id, n) /\ st.written = 0 /\ st.frames = <<>>
    <2> DEFINE buf == st.payload_buf
               called == st.next_called
               fs == st.frames
               id == r.id
    <2>1. st = Stream(id, n, buf, n * MaxP, 0, called, fs)
      BY <1>4
    <2>2. fs = <<>>
      BY <1>4, EmptySeq DEF FullFrames
    <2> HIDE DEF buf, called, fs, st, id
    <2>3. st.cursor = CursorAt(id, n) /\ st.written = 0
      BY <2>1 DEF Stream
    <2> QED BY <2>2, <2>3 DEF id, fs
  <1>7. Parts(r2, "done", r.id, r.length, 0, TRUE, st)
    <2> HIDE DEF r2
    <2>1. r2 = Changed(r, "done", 0, TRUE, st)
      <3> HIDE DEF r
      <3> QED BY <1>2, <1>4 DEF Changed, Begins, Message, r2, st
    <2>2. TRUE \in BOOLEAN
      OBVIOUS
    <2> HIDE DEF r, st
    <2> QED BY <1>2, <1>5, <2>1, <2>2, MessageChanged
  <1>8. CursorAt(r.id, n) \in Coordinates
    BY <1>5, CursorIsCoordinate
  <1> HIDE DEF r2
  <1>9. OverAs(r, r2, 0, TRUE, st)
    <2>1. st.cursor \in Coordinates
      BY <1>6, <1>8
    <2>2. lang = "C++" /\ st.written \in 0..Len(st.payload_buf)
      BY <1>1, <1>4, <1>5, <1>6
    <2> HIDE DEF r, st
    <2> QED BY <1>7, <2>1, <2>2 DEF OverAs
  <1>10. WriterOK(r2) /\ Sends(r, r2)
    <2> HIDE DEF r, st
    <2> QED BY <1>6, <1>9, OverUnsent DEF st
  <1>11. Proceeds(w, r2)
    BY <1>1, <1>10 DEF Proceeds
  <1> QED BY <1>11

-----------------------------------------------------------------------------
(* The steps of a C# message *)

LEMMA CreateWriterStep ==
    ASSUME WritersOK, NEW w \in Writers, NEW length \in Messages, CreateWriter(w, length)
    PROVE  \E r2 : Opens(w, r2)
  <1> DEFINE buf == [k \in 1..MaxP |-> Garbage]
             t   == TxWriter(Coord(TakenId), buf)
             r2  == Begun(TakenId, length, t)
  <1>0. MaxP \in Nat \ {0}
    BY MaxPFacts
  <1>1. lang = "C#" /\ TakenId \in PackageIds
    BY TakenIsId DEF WritersOK, CreateWriter
  <1>2. Buffered(buf, 0, 0)
    BY FreshBuffer
  <1>3. FullFrames(<<>>, TakenId, 0) /\ CursorAt(TakenId, 0) = Coord(TakenId)
    BY NoFramesYet
  <1>4. writers[w] = NotStarted /\ counter' = Increment(counter)
        /\ writers' = [writers EXCEPT ![w] = r2] /\ lang' = lang
    BY <1>1 DEF CreateWriter, Start
  <1> HIDE DEF buf
  <1>5. t = Writer(TakenId, 0, 0, buf, <<>>) /\ t.frames = <<>> /\ t.payload = buf
    BY <1>3 DEF TxWriter, Writer
  <1> HIDE DEF t
  <1>6. Parts(r2, "open", TakenId, length, 0, FALSE, t)
    BY <1>1, MessageBegun
  <1> HIDE DEF r2
  <1>7. CsOpen(r2, 0)
    <2>1. 0 * MaxP = 0 /\ 0 \in 0..MaxP /\ 0 + 0 = 0 /\ ~ (0 = MaxP)
      BY <1>0
    <2>2. /\ r2.stream = Writer(r2.id, 0, 0, r2.stream.payload, r2.stream.frames)
          /\ FullFrames(r2.stream.frames, r2.id, 0) /\ r2.produced = 0
          /\ Buffered(r2.stream.payload, 0, 0) /\ r2.failed = FALSE
      BY <1>2, <1>3, <1>5, <1>6 DEF Parts
    <2>3. r2.produced = 0 * MaxP + 0 /\ (r2.failed <=> 0 = MaxP)
      BY <2>1, <2>2
    <2> QED BY <2>1, <2>2, <2>3 DEF CsOpen
  <1>8. WriterOK(r2)
    BY <1>1, <1>6, <1>7 DEF WriterOK, Parts
  <1>9. r2.phase = "open" /\ r2.id = TakenId /\ r2.stream.frames = <<>>
    BY <1>5, <1>6 DEF Parts
  <1>10. Opens(w, r2)
    BY <1>4, <1>8, <1>9 DEF Opens
  <1> QED BY <1>10

\* What a C# message in the making looks like.
LEMMA CsMessage ==
    ASSUME WritersOK, NEW w \in Writers, lang = "C#", NEW r, r = writers[w], r.phase = "open"
    PROVE  Begins(r) /\ \E n \in Nat : CsOpen(r, n)
  <1>1. WriterOK(r)
    BY DEF WritersOK
  <1> QED BY <1>1, OpenMessage

\* Its state, taken apart.
CsAt(r, n, fill, buf, fs) ==
    /\ r.stream = Writer(r.id, n, fill, buf, fs) /\ FullFrames(fs, r.id, n)
    /\ r.produced = n * MaxP + fill /\ Buffered(buf, n, fill)
    /\ r.failed <=> fill = MaxP

LEMMA CsTakenApart ==
    ASSUME NEW r, NEW n \in Nat, CsOpen(r, n)
    PROVE  \E fill \in 0..MaxP : CsAt(r, n, fill, r.stream.payload, r.stream.frames)
  BY DEF CsOpen, CsAt

LEMMA CsPutTogether ==
    ASSUME NEW r, NEW n \in Nat, NEW fill \in 0..MaxP, NEW buf, NEW fs,
           CsAt(r, n, fill, buf, fs)
    PROVE  CsOpen(r, n) /\ r.stream.frames = fs
  <1>1. r.stream.frames = fs /\ r.stream.payload = buf
    BY DEF CsAt, Writer
  <1>2. /\ r.stream = Writer(r.id, n, fill, r.stream.payload, r.stream.frames)
        /\ FullFrames(r.stream.frames, r.id, n)
        /\ r.produced = n * MaxP + fill /\ Buffered(r.stream.payload, n, fill)
        /\ (r.failed <=> fill = MaxP)
    BY <1>1 DEF CsAt
  <1> QED BY <1>1, <1>2 DEF CsOpen

EmitsFull(id, n, fill, buf, fs) ==
    EmitSlice(Writer(id, n, fill, buf, fs), FALSE) =
        Writer(id, n + 1, 0, buf, Append(fs, Given(id, n, fill, FALSE, buf)))

LEMMA EmitFull ==
    ASSUME NEW id, NEW n \in Nat, n < U8, n * MaxP < U16, NEW fill \in 0..MaxP, fill > 0,
           NEW buf, NEW fs
    PROVE  EmitsFull(id, n, fill, buf, fs)
  <1> DEFINE end == FALSE
  <1> HIDE DEF end
  <1>1. EmitSlice(Writer(id, n, fill, buf, fs), end) =
            Writer(id, n + 1, 0, buf, Append(fs, Given(id, n, fill, end, buf)))
    BY EmitResult
  <1> QED BY <1>1 DEF EmitsFull, end

LEMMA EmitLast ==
    ASSUME NEW id, NEW n \in Nat, n < U8, n * MaxP < U16, NEW fill \in 0..MaxP,
           fill > 0 \/ n > 0, NEW buf, NEW fs
    PROVE  EmitSlice(Writer(id, n, fill, buf, fs), TRUE) =
               Writer(id, n + 1, 0, buf, Append(fs, Ending(id, n, fill, buf)))
  <1> DEFINE end == TRUE
  <1>0. fill > 0 \/ (end /\ n > 0)
    OBVIOUS
  <1> HIDE DEF end
  <1>1. EmitSlice(Writer(id, n, fill, buf, fs), end) =
            Writer(id, n + 1, 0, buf, Append(fs, Given(id, n, fill, end, buf)))
    BY <1>0, EmitResult
  <1> QED BY <1>1 DEF end, Ending

\* The bytes are written and the writer advances; the callback may throw.
LEMMA WriterAdvanced ==
    ASSUME lang = "C#", NEW r, Begins(r), r.phase = "open", NEW n \in Nat,
           NEW fill \in 0..(MaxP - 1), NEW fs, FullFrames(fs, r.id, n),
           NEW m \in Nat, fill + m <= MaxP, n * MaxP + fill + m <= r.length,
           NEW buf, Buffered(buf, n, fill + m), NEW throws \in BOOLEAN,
           throws => fill + m = MaxP, r.stream.frames = fs,
           NEW u, u = Writer(r.id, n, fill, buf, fs),
           NEW r2, Parts(r2, "open", r.id, r.length, n * MaxP + fill + m, throws,
                         IF throws THEN AddFill(u, m) ELSE Advance(u, m))
    PROVE  WriterOK(r2) /\ Sends(r, r2)
  <1> DEFINE id   == r.id
             size == fill + m
             s2   == IF throws THEN AddFill(u, m) ELSE Advance(u, m)
             filled == Writer(id, n, size, buf, fs)
  <1>0. /\ MaxP \in Nat \ {0} /\ n * MaxP \in Nat /\ size \in 0..MaxP /\ MaxP < U16
        /\ U16 \in Nat /\ id \in PackageIds /\ r.length \in Messages /\ size \in Nat
        /\ n * MaxP + size <= r.length /\ n * MaxP + fill + m = n * MaxP + size
        /\ fill \in Nat
    BY MaxPFacts, Widths, MessageParts
  <1>1. AddFill(u, m) = filled
    <2>1. (fill + m) % U16 = size
      BY <1>0, NoTruncation
    <2>2. u = Writer(id, n, fill, buf, fs)
      OBVIOUS
    <2>3. u.fill = fill
      BY <2>2 DEF Writer
    <2> HIDE DEF id, size
    <2>4. [u EXCEPT !.fill = size] = Writer(id, n, size, buf, fs)
      BY <2>2 DEF Writer
    <2> QED BY <2>1, <2>3, <2>4 DEF AddFill, size
  <1>2. filled.fill = size /\ filled.frames = fs
    BY DEF Writer
  <1>3. /\ Begins(r2) /\ r2.phase = "open" /\ r2.id = id /\ r2.stream = s2
        /\ r2.produced = n * MaxP + size /\ r2.failed = throws
    BY <1>0 DEF Parts
  <1>4. fs \in Seq(AllFrames) /\ Len(fs) = n
    BY DEF FullFrames
  <1>5. CASE throws \/ size # MaxP
    <2>1. s2 = filled
      BY <1>1, <1>2, <1>5 DEF Advance
    <2>2. r2.failed <=> size = MaxP
      BY <1>3, <1>5
    <2> HIDE DEF filled, size, id, s2
    <2>3. CsAt(r2, n, size, buf, fs)
      BY <1>3, <2>1, <2>2 DEF CsAt, filled, id, size
    <2>4. CsOpen(r2, n) /\ r2.stream.frames = fs
      BY <1>0, <2>3, CsPutTogether
    <2>5. WriterOK(r2)
      BY <1>3, <2>4 DEF WriterOK
    <2>6. Sends(r, r2)
      BY <1>3, <1>4, <2>4 DEF Sends, id
    <2> QED BY <2>5, <2>6
  <1>6. CASE ~ throws /\ size = MaxP
    <2>1. s2 = EmitSlice(filled, FALSE)
      BY <1>1, <1>2, <1>6 DEF Advance
    <2>2. n < U8 /\ n * MaxP < U16
      <3>1. size > 0
        BY <1>0, <1>6
      <3> HIDE DEF size
      <3> QED BY <1>0, <3>1, InsideMessage
    <2> DEFINE f  == Given(id, n, size, FALSE, buf)
               gs == Append(fs, f)
    <2>3. s2 = Writer(id, n + 1, 0, buf, gs)
      <3>1. size > 0
        BY <1>0, <1>6
      <3> HIDE DEF size, id, s2, filled
      <3>2. EmitSlice(Writer(id, n, size, buf, fs), FALSE)
                = Writer(id, n + 1, 0, buf, Append(fs, Given(id, n, size, FALSE, buf)))
        <4>1. size \in 0..MaxP
          BY <1>0
        <4>2. EmitsFull(id, n, size, buf, fs)
          BY <2>2, <3>1, <4>1, EmitFull
        <4> QED BY <4>2 DEF EmitsFull
      <3> QED BY <2>1, <3>2 DEF filled
    <2>4. Buffered(buf, n, size)
      OBVIOUS
    <2>5. f \in AllFrames /\ FrameAt(f, id, n, MaxP, FALSE)
      <3>1. FALSE \in BOOLEAN
        OBVIOUS
      <3> HIDE DEF size, id
      <3>2. f \in AllFrames /\ FrameAt(f, id, n, size, FALSE)
        BY <1>0, <2>4, <3>1, FrameGiven
      <3> HIDE DEF f
      <3> QED BY <1>6, <3>2
    <2> HIDE DEF f
    <2>6. FullFrames(gs, id, n + 1)
      <3>1. FALSE \in BOOLEAN
        OBVIOUS
      <3> HIDE DEF id
      <3> QED BY <2>5, <3>1, FrameAdded DEF id
    <2> HIDE DEF gs
    <2>7. Buffered(buf, n + 1, 0)
      BY <2>4, BufferAgain
    <2>8. n + 1 \in Nat /\ 0 \in 0..MaxP /\ n * MaxP + size = (n + 1) * MaxP + 0
      BY <1>0, <1>6
    <2>9. CsAt(r2, n + 1, 0, buf, gs)
      <3>1. r2.failed <=> 0 = MaxP
        BY <1>0, <1>3, <1>6
      <3>2. r2.stream = Writer(r2.id, n + 1, 0, buf, gs)
        BY <1>3, <2>3
      <3>3. r2.produced = (n + 1) * MaxP + 0
        BY <1>3, <2>8
      <3>4. FullFrames(gs, r2.id, n + 1)
        BY <1>3, <2>6
      <3> QED BY <2>7, <3>1, <3>2, <3>3, <3>4 DEF CsAt
    <2>10. CsOpen(r2, n + 1) /\ r2.stream.frames = gs
      BY <2>8, <2>9, CsPutTogether
    <2>11. WriterOK(r2)
      BY <1>3, <2>8, <2>10 DEF WriterOK
    <2>12. \E g \in AllFrames : FrameAt(g, r.id, Len(fs), MaxP, FALSE)
                                /\ r2.stream.frames = Append(fs, g)
      BY <1>4, <2>5, <2>10 DEF gs
    <2>13. Sends(r, r2)
      BY <1>3, <1>4, <2>12 DEF Sends
    <2> QED BY <2>11, <2>13
  <1> QED BY <1>5, <1>6

LEMMA WriteStep ==
    ASSUME HintsAreSmall, WritersOK, NEW w \in Writers, NEW hint \in Hints, NEW m \in 0..MaxP,
           NEW throws \in BOOLEAN, Write(w, hint, m, throws)
    PROVE  \E r2 : Proceeds(w, r2)
  <1> DEFINE r   == writers[w]
             t   == GetSpan(r.stream, hint)
             u   == [t EXCEPT !.payload = Overwrite(@, t.fill, Piece(r.produced, m))]
             s2  == IF throws THEN AddFill(u, m) ELSE Advance(u, m)
             r2  == [r EXCEPT !.produced = @ + m, !.failed = throws, !.stream = s2]
             buf == r.stream.payload
             fs  == r.stream.frames
  <1>1. /\ lang = "C#" /\ r.phase = "open" /\ ~ r.failed
        /\ m <= Room(t) /\ r.produced + m <= r.length
        /\ throws => t.fill + m = MaxP
        /\ Update(w, r2)
    BY DEF Write
  <1>2. Begins(r) /\ \E n \in Nat : CsOpen(r, n)
    BY <1>1, CsMessage
  <1>3. PICK n \in Nat : CsOpen(r, n)
    BY <1>2
  <1>4. PICK fill \in 0..MaxP : CsAt(r, n, fill, buf, fs)
    BY <1>3, CsTakenApart
  <1>0. /\ MaxP \in Nat \ {0} /\ n * MaxP \in Nat /\ fill \in Nat /\ m \in Nat
        /\ r.id \in PackageIds /\ r.length \in Nat
    BY <1>2, MaxPFacts, MessageParts
  <1>5. /\ r.stream = Writer(r.id, n, fill, buf, fs) /\ FullFrames(fs, r.id, n)
        /\ r.produced = n * MaxP + fill /\ Buffered(buf, n, fill) /\ fill # MaxP
    BY <1>1, <1>4 DEF CsAt
  <1>6. fill \in 0..(MaxP - 1)
    BY <1>0, <1>5
  <1>7. t = r.stream /\ t.fill = fill /\ t.payload = buf
    <2>1. r.stream.fill = fill /\ r.stream.payload = buf
      <3> HIDE DEF r, buf, fs
      <3> QED BY <1>5 DEF Writer
    <2>2. hint \in {0, 1}
      BY DEF HintsAreSmall
    <2>3. ~ (MaxP - fill < hint)
      BY <1>0, <1>6, <2>2
    <2>4. t = r.stream
      BY <2>1, <2>3 DEF GetSpan, CheckSizeAndTryEmitSlice
    <2> QED BY <2>1, <2>4
  <1>8. fill + m <= MaxP /\ fill + m \in Nat
    BY <1>0, <1>1, <1>7 DEF Room
  <1> DEFINE b2 == Overwrite(buf, fill, Piece(r.produced, m))
  <1>9. Buffered(b2, n, fill + m)
    <2> HIDE DEF r, buf
    <2> QED BY <1>0, <1>5, <1>8, BytesWritten
  <1>10. u = Writer(r.id, n, fill, b2, fs)
    <2>1. u = [r.stream EXCEPT !.payload = b2]
      BY <1>7
    <2> DEFINE id == r.id
    <2> HIDE DEF r, buf, fs, b2, id, u
    <2>2. r.stream = Writer(id, n, fill, buf, fs)
      BY <1>5 DEF id
    <2>3. u = Writer(id, n, fill, b2, fs)
      BY <2>1, <2>2 DEF Writer
    <2> QED BY <2>3 DEF id
  <1>11. n * MaxP + fill + m <= r.length /\ n * MaxP + fill + m \in 0..r.length
         /\ r.produced + m = n * MaxP + fill + m /\ (throws => fill + m = MaxP)
    BY <1>0, <1>1, <1>5, <1>7
  <1> DEFINE p == n * MaxP + fill + m
  <1>12. Parts(r2, "open", r.id, r.length, p, throws, s2)
    <2> HIDE DEF s2, p, r2
    <2>1. r2 = Changed(r, "open", p, throws, s2)
      <3>1. r2 = [r EXCEPT !.produced = p, !.failed = throws, !.stream = s2]
        BY <1>11 DEF r2, p
      <3> HIDE DEF r
      <3> QED BY <1>1, <1>2, <3>1 DEF Changed, Begins, Message
    <2>2. p \in 0..r.length
      BY <1>11 DEF p
    <2> HIDE DEF r
    <2> QED BY <1>2, <2>1, <2>2, MessageChanged
  <1> HIDE DEF r2, u, b2
  <1>13. WriterOK(r2) /\ Sends(r, r2)
    <2>1. r.stream.frames = fs
      OBVIOUS
    <2> HIDE DEF r, fs
    <2> QED BY <1>1, <1>2, <1>5, <1>6, <1>0, <1>8, <1>9, <1>10, <1>11, <1>12, <2>1, WriterAdvanced
  <1>14. Proceeds(w, r2)
    BY <1>1, <1>13 DEF Proceeds
  <1> QED BY <1>14

LEMMA DisposeWriterStep ==
    ASSUME WritersOK, NEW w \in Writers, DisposeWriter(w)
    PROVE  \E r2 : Proceeds(w, r2)
  <1> DEFINE r      == writers[w]
             failed == r.failed \/ r.produced < r.length
             s2     == Dispose(r.stream)
             r2     == [r EXCEPT !.phase = "done", !.failed = @ \/ r.produced < r.length,
                                 !.stream = Dispose(@)]
             buf    == r.stream.payload
             fs     == r.stream.frames
             id     == r.id
  <1>1. lang = "C#" /\ r.phase = "open" /\ Update(w, r2)
    BY DEF DisposeWriter
  <1>2. Begins(r) /\ \E n \in Nat : CsOpen(r, n)
    BY <1>1, CsMessage
  <1>3. PICK n \in Nat : CsOpen(r, n)
    BY <1>2
  <1>4. PICK fill \in 0..MaxP : CsAt(r, n, fill, buf, fs)
    BY <1>3, CsTakenApart
  <1>0. /\ MaxP \in Nat \ {0} /\ n * MaxP \in Nat /\ fill \in Nat
        /\ id \in PackageIds /\ r.length \in Nat /\ r.length \in Messages
        /\ r.produced \in 0..r.length /\ r.produced \in Nat
    BY <1>2, MaxPFacts, MessageParts
  <1>5. /\ r.stream = Writer(id, n, fill, buf, fs) /\ FullFrames(fs, id, n)
        /\ r.produced = n * MaxP + fill /\ Buffered(buf, n, fill)
        /\ (r.failed <=> fill = MaxP)
    BY <1>4 DEF CsAt
  <1>6. ~ failed => r.produced = r.length
    <2>1. ~ failed => ~ (r.produced < r.length)
      OBVIOUS
    <2>2. ~ (r.produced < r.length) => r.produced = r.length
      BY <1>0
    <2> QED BY <2>1, <2>2
  <1>7. Parts(r2, "done", id, r.length, r.produced, failed, s2)
    <2>1. failed \in BOOLEAN
      OBVIOUS
    <2>2. r2 = [r EXCEPT !.phase = "done", !.failed = failed, !.stream = s2]
      OBVIOUS
    <2> HIDE DEF failed, s2, r2
    <2>3. r2 = Changed(r, "done", r.produced, failed, s2)
      <3> HIDE DEF r
      <3> QED BY <1>2, <2>2 DEF Changed, Begins, Message
    <2> HIDE DEF r
    <2> QED BY <1>0, <1>2, <2>1, <2>3, MessageChanged DEF id
  <1>8. CASE n = 0 /\ fill = 0
    <2>1. r.produced = 0
      BY <1>0, <1>5, <1>8
    <2>2. fs = <<>>
      BY <1>5, <1>8, EmptySeq DEF FullFrames
    <2>3. 0 * MaxP = 0 /\ 0 % U16 = 0
      BY <1>0, Widths
    <2>4. s2 = r.stream /\ r.stream.cursor = CursorAt(id, n) /\ r.stream.fill = 0
      <3> DEFINE st == r.stream
      <3>1. st = Writer(id, n, fill, buf, fs)
        BY <1>5
      <3> HIDE DEF id, buf, fs, st
      <3>2. st.cursor = CursorAt(id, n) /\ st.fill = 0
        BY <1>8, <3>1 DEF Writer
      <3>3. st.cursor.offset = 0
        BY <1>8, <2>3, <3>2 DEF CursorAt
      <3>4. Dispose(st) = st
        BY <3>2, <3>3 DEF Dispose, EmitSlice
      <3> QED BY <3>2, <3>4 DEF st
    <2>5. CursorAt(id, n) \in Coordinates
      BY <1>0, CursorIsCoordinate
    <2> HIDE DEF failed, s2, r2
    <2>6. OverAs(r, r2, 0, failed, s2)
      <3>1. s2.cursor \in Coordinates /\ s2.fill = 0 /\ lang # "C++"
        BY <1>1, <2>4, <2>5
      <3> QED BY <1>6, <1>7, <2>1, <3>1 DEF OverAs
    <2>7. WriterOK(r2) /\ Sends(r, r2)
      BY <2>2, <2>4, <2>6, OverUnsent
    <2>8. Proceeds(w, r2)
      BY <1>1, <2>7 DEF Proceeds
    <2> QED BY <2>8
  <1>9. CASE ~ (n = 0 /\ fill = 0)
    <2>1. fill > 0 \/ n > 0
      BY <1>0, <1>9
    <2>2. n < U8 /\ n * MaxP < U16
      <3>1. n * MaxP + fill <= r.length
        BY <1>0, <1>5
      <3> HIDE DEF r
      <3> QED BY <1>0, <2>1, <3>1, InsideMessage
    <2> DEFINE gs == Append(fs, Given(id, n, fill, TRUE, buf))
               t2 == Writer(id, n + 1, 0, buf, gs)
    <2>3. s2 = t2
      <3> DEFINE st == r.stream
      <3>1. st = Writer(id, n, fill, buf, fs)
        BY <1>5
      <3> HIDE DEF id, buf, fs, st
      <3>2. EmitSlice(Writer(id, n, fill, buf, fs), TRUE) =
                Writer(id, n + 1, 0, buf, Append(fs, Ending(id, n, fill, buf)))
        BY <2>1, <2>2, EmitLast
      <3>3. Dispose(st) = t2
        BY <3>1, <3>2 DEF Dispose, Ending
      <3> QED BY <3>3 DEF st
    <2>4. t2.cursor = CursorAt(id, n + 1) /\ t2.fill = 0 /\ t2.frames = gs
      BY DEF Writer
    <2>5. CursorAt(id, n + 1) \in Coordinates
      BY <1>0, CursorIsCoordinate
    <2>6. lang # "C++" /\ (lang = "C#" /\ ~ failed => fill < MaxP)
      BY <1>0, <1>1, <1>5
    <2> HIDE DEF failed, s2, r2, t2
    <2>7. OverAs(r, r2, r.produced, failed, s2)
      <3>1. s2.cursor \in Coordinates /\ s2.fill = 0
        BY <2>3, <2>4, <2>5
      <3> QED BY <1>6, <1>7, <2>6, <3>1 DEF OverAs
    <2>8. s2.frames = Append(r.stream.frames, Given(r.id, n, fill, TRUE, buf))
          /\ FullFrames(r.stream.frames, r.id, n) /\ r.id \in PackageIds
      BY <1>0, <1>5, <2>3, <2>4
    <2>9. WriterOK(r2) /\ Sends(r, r2)
      <3>1. Buffered(buf, n, fill) /\ r.produced = n * MaxP + fill
        BY <1>5
      <3>2. lang = "C++" => fill > 0
        BY <2>6
      <3> HIDE DEF r, buf, gs
      <3> QED BY <2>1, <2>6, <2>7, <2>8, <3>1, <3>2, OverSent
    <2>10. Proceeds(w, r2)
      BY <1>1, <2>9 DEF Proceeds
    <2> QED BY <2>10
  <1> QED BY <1>8, <1>9

-----------------------------------------------------------------------------
(* The invariant *)

\* A step begins one message or takes one further.
LEMMA NextCases ==
    ASSUME BuffersAreUnits, HintsAreSmall, WritersOK, Next
    PROVE  \E w \in Writers : \E r2 : Opens(w, r2) \/ Proceeds(w, r2)
  <1>1. PICK w \in Writers : CppNext(w) \/ CsNext(w)
    BY DEF Next
  <1>2. CASE \E length \in Messages, size \in Buffers : Push(w, length, size)
    BY <1>2, PushStep
  <1>3. CASE FillBuffer(w)
    BY <1>3, FillBufferStep
  <1>4. CASE Return(w)
    BY <1>4, ReturnStep
  <1>5. CASE Refuse(w)
    BY <1>5, RefuseStep
  <1>6. CASE \E length \in Messages : CreateWriter(w, length)
    BY <1>6, CreateWriterStep
  <1>7. CASE \E hint \in Hints, n \in 0..MaxP, throws \in BOOLEAN : Write(w, hint, n, throws)
    BY <1>7, WriteStep
  <1>8. CASE DisposeWriter(w)
    BY <1>8, DisposeWriterStep
  <1> QED BY <1>1, <1>2, <1>3, <1>4, <1>5, <1>6, <1>7, <1>8 DEF CppNext, CsNext

LEMMA InitWritersOK == Init => WritersOK
  BY DEF Init, WritersOK, WriterOK

LEMMA NextWritersOK ==
    ASSUME BuffersAreUnits, HintsAreSmall, WritersOK, [Next]_vars
    PROVE  WritersOK'
  <1>1. CASE Next
    <2>1. PICK w \in Writers : \E r2 : Opens(w, r2) \/ Proceeds(w, r2)
      BY <1>1, NextCases
    <2>2. PICK r2 : Opens(w, r2) \/ Proceeds(w, r2)
      BY <2>1
    <2>3. /\ writers' = [writers EXCEPT ![w] = r2] /\ lang' = lang /\ WriterOK(r2)
          /\ counter' = counter \/ counter' = Increment(counter)
      BY <2>2 DEF Opens, Proceeds, Update
    <2>4. writers = [v \in Writers |-> writers[v]] /\ lang \in {"C++", "C#"}
          /\ counter \in PackageIds /\ \A v \in Writers : WriterOK(writers[v])
      BY DEF WritersOK
    <2>5. counter' \in PackageIds
      BY <2>3, <2>4, TakenIsId
    <2>6. writers' = [v \in Writers |-> IF v = w THEN r2 ELSE writers[v]]
      BY <2>3, <2>4
    <2>7. writers' = [v \in Writers |-> writers'[v]]
      BY <2>6
    <2>8. \A v \in Writers : WriterOK(writers[v])'
      <3> TAKE v \in Writers
      <3> DEFINE r == IF v = w THEN r2 ELSE writers[v]
      <3>1. WriterOK(r)
        BY <2>3, <2>4
      <3>2. writers'[v] = r
        BY <2>6
      <3> HIDE DEF r
      <3>3. Begins(writers[v])' <=> Begins(r)
        BY <3>2 DEF Begins
      <3>4. Over(writers[v])' <=> Over(r)
        BY <2>3, <3>2 DEF Over
      <3>5. \A n \in Nat : CppOpen(writers[v], n)' <=> CppOpen(r, n)
        BY <3>2 DEF CppOpen
      <3>6. \A n \in Nat : CsOpen(writers[v], n)' <=> CsOpen(r, n)
        BY <3>2 DEF CsOpen
      <3> QED BY <2>3, <3>1, <3>2, <3>3, <3>4, <3>5, <3>6 DEF WriterOK
    <2> QED BY <2>3, <2>4, <2>5, <2>7, <2>8 DEF WritersOK
  <1>2. CASE UNCHANGED vars
    BY <1>2 DEF vars, WritersOK, WriterOK, CppOpen, CsOpen, Over, Begins
  <1> QED BY <1>1, <1>2

\* The inductive invariant, on every run of an encoder.
THEOREM InvariantHolds ==
    ASSUME BuffersAreUnits, HintsAreSmall
    PROVE  Spec => []WritersOK
  <1>1. WritersOK /\ [Next]_vars => WritersOK'
    BY NextWritersOK
  <1> QED BY InitWritersOK, <1>1, PTL DEF Spec

-----------------------------------------------------------------------------
(* Types *)

LEMMA TypeFollows == WritersOK => TypeOK
  <1> SUFFICES ASSUME WritersOK, NEW w \in Started
               PROVE  LET r == writers[w]
                          s == r.stream
                      IN  /\ counter \in PackageIds
                          /\ s.cursor \in Coordinates
                          /\ lang = "C++" => s.written \in 0..Len(s.payload_buf)
                          /\ lang = "C#" => s.fill \in 0..(IF r.failed THEN MaxP ELSE MaxP - 1)
    BY DEF TypeOK, WritersOK
  <1> DEFINE r == writers[w]
             s == r.stream
  <1>0. MaxP \in Nat \ {0}
    BY MaxPFacts
  <1>1. counter \in PackageIds /\ lang \in {"C++", "C#"} /\ WriterOK(r) /\ r.phase # "idle"
        /\ w \in Writers
    BY DEF WritersOK, Started
  <1>2. CASE r.phase = "open" /\ lang = "C++"
    <2>1. Begins(r) /\ \E n \in Nat : CppOpen(r, n)
      BY <1>1, <1>2, OpenMessage
    <2>2. PICK n \in Nat : CppOpen(r, n)
      BY <2>1
    <2>3. Len(s.payload_buf) = MaxP
      BY <2>2 DEF CppOpen, Buffered
    <2>4. s.cursor = CursorAt(r.id, n) /\ s.written = 0
      <3> DEFINE id == r.id
                 buf == s.payload_buf
                 called == s.next_called
                 fs == s.frames
      <3>1. s = Stream(id, n, buf, n * MaxP, 0, called, fs)
        BY <2>2 DEF CppOpen
      <3> HIDE DEF id, buf, called, fs, s
      <3>2. s.cursor = CursorAt(id, n) /\ s.written = 0
        BY <3>1 DEF Stream
      <3> QED BY <3>2 DEF id
    <2>5. CursorAt(r.id, n) \in Coordinates
      BY <2>1, CursorIsCoordinate, MessageParts
    <2> QED BY <1>0, <1>1, <1>2, <2>3, <2>4, <2>5
  <1>3. CASE r.phase = "open" /\ lang = "C#"
    <2>1. Begins(r) /\ \E n \in Nat : CsOpen(r, n)
      BY <1>1, <1>3, OpenMessage
    <2>2. PICK n \in Nat : CsOpen(r, n)
      BY <2>1
    <2>3. PICK fill \in 0..MaxP : CsAt(r, n, fill, s.payload, s.frames)
      BY <2>2, CsTakenApart
    <2>4. s.cursor = CursorAt(r.id, n) /\ s.fill = fill
      <3> DEFINE id == r.id
                 buf == s.payload
                 fs == s.frames
      <3>1. s = Writer(id, n, fill, buf, fs)
        BY <2>3 DEF CsAt
      <3> HIDE DEF id, buf, fs, s
      <3>2. s.cursor = CursorAt(id, n) /\ s.fill = fill
        BY <3>1 DEF Writer
      <3> QED BY <3>2 DEF id
    <2>5. CursorAt(r.id, n) \in Coordinates
      BY <2>1, CursorIsCoordinate, MessageParts
    <2>6. fill \in 0..(IF r.failed THEN MaxP ELSE MaxP - 1)
      <3>1. r.failed <=> fill = MaxP
        BY <2>3 DEF CsAt
      <3>2. fill # MaxP => fill \in 0..(MaxP - 1)
        BY <1>0
      <3> QED BY <3>1, <3>2
    <2> QED BY <1>1, <1>3, <2>4, <2>5, <2>6
  <1>4. CASE r.phase = "done"
    <2>1. Over(r)
      BY <1>1, <1>4 DEF WriterOK, NotStarted
    <2>2. 0 \in 0..(IF r.failed THEN MaxP ELSE MaxP - 1)
      BY <1>0
    <2> QED BY <1>1, <2>1, <2>2 DEF Over
  <1>5. r.phase \in {"open", "done"}
    BY <1>1 DEF WriterOK, NotStarted
  <1> QED BY <1>1, <1>2, <1>3, <1>4, <1>5

\* Counters, cursors and fills keep their types, a C# writer never holds a full
\* slice that it has not emitted unless the callback threw, and a C++ stream
\* never has written more than its buffer.
THEOREM TypeCorrect ==
    ASSUME BuffersAreUnits, HintsAreSmall
    PROVE  Spec => []TypeOK
  BY InvariantHolds, TypeFollows, PTL

-----------------------------------------------------------------------------
(* What the frames carry *)

\* A frame as the receiver reads it.
LEMMA FrameRead ==
    ASSUME NEW id \in PackageIds, NEW i \in Nat, i < U8, NEW size \in 0..MaxP,
           MaxP \in PayloadSizes, NEW end \in BOOLEAN, NEW f, FrameAt(f, id, i, size, end)
    PROVE  Size(f) = size /\ SubSeq(f.payload, 1, size) = Piece(i * MaxP, size)
  <1>0. MaxP \in Nat \ {0} /\ size \in Nat /\ i * MaxP \in Nat /\ U8 \in Nat
    BY MaxPFacts, Widths
  <1> DEFINE h == [package_serial |-> id, slice_serial |-> i, sender_id |-> Sender,
                   eop |-> IF end THEN 1 ELSE 0, slice_payload_size |-> size]
  <1>1. h \in Headers
    <2>1. size \in PayloadSizes
      BY <1>0 DEF PayloadSizes
    <2>2. i \in SliceIds
      BY <1>0 DEF SliceIds
    <2>3. (IF end THEN 1 ELSE 0) \in 0..1 /\ Sender \in SenderIds
      BY EncoderAssumption
    <2> QED BY <2>1, <2>2, <2>3 DEF Headers
  <1>2. mp_header_unpack(mp_header_pack(h)) = h /\ h.slice_payload_size = size
    BY <1>1, HeaderRoundTrip
  <1>3. f.header = mp_header_pack(h)
    BY DEF FrameAt, HeaderAt
  <1> HIDE DEF h
  <1>4. Size(f) = size
    BY <1>2, <1>3 DEF Size, Header
  <1> DEFINE b == f.payload
             p == Piece(i * MaxP, size)
             c == SubSeq(b, 1, size)
  <1>5. /\ b \in Seq(Int) /\ Len(b) = MaxP
        /\ \A k \in 1..size : b[k] = i * MaxP + k - 1
    BY DEF FrameAt, Buffered
  <1>6. p \in Seq(Int) /\ Len(p) = size /\ \A k \in 1..size : p[k] = i * MaxP + k - 1
    BY <1>0, PieceIsSeq
  <1> HIDE DEF b, p
  <1>7. \A k \in 1..size : b[k] \in Int
    BY <1>0, <1>5
  <1>8. c \in Seq(Int) /\ Len(c) = size /\ \A k \in 1..size : c[k] = b[k]
    <2>1. /\ c \in Seq(Int) /\ Len(c) = IF 1 <= size THEN size - 1 + 1 ELSE 0
          /\ \A k \in 1..(size - 1 + 1) : c[k] = b[1 + k - 1]
      BY <1>0, <1>7, SubSeqProperties
    <2> HIDE DEF c
    <2>2. \A k \in 1..size : c[k] = b[k]
      <3> TAKE k \in 1..size
      <3>1. k \in 1..(size - 1 + 1) /\ 1 + k - 1 = k
        BY <1>0
      <3> QED BY <2>1, <3>1
    <2> QED BY <1>0, <2>1, <2>2
  <1> HIDE DEF c
  <1>9. c = p
    <2>1. \A k \in 1..size : c[k] = p[k]
      BY <1>5, <1>6, <1>8
    <2> QED BY <1>6, <1>8, <2>1, SeqEqual
  <1> QED BY <1>4, <1>9 DEF c, b, p

\* What CarriesMessage says of the frames of a message, of which total bytes
\* are on the link.
CarriedIn(fs) == IF fs = <<>> THEN 0 ELSE (Len(fs) - 1) * MaxP + Size(fs[Len(fs)])

Carry(fs, total) ==
    /\ \A k \in DOMAIN fs :
           /\ SubSeq(fs[k].payload, 1, Size(fs[k])) = Piece((k - 1) * MaxP, Size(fs[k]))
           /\ k < Len(fs) => Size(fs[k]) = MaxP
    /\ CarriedIn(fs) = total

LEMMA NothingCarried == Carry(<<>>, 0)
  BY DEF Carry, CarriedIn

\* A full frame as the receiver reads it.
LEMMA FullFrameRead ==
    ASSUME NEW id \in PackageIds, NEW i \in Nat, i < U8, MaxP \in PayloadSizes,
           NEW f, FrameAt(f, id, i, MaxP, FALSE)
    PROVE  Size(f) = MaxP /\ SubSeq(f.payload, 1, MaxP) = Piece(i * MaxP, MaxP)
  <1> DEFINE m   == MaxP
             end == FALSE
  <1>1. m \in 0..MaxP /\ end \in BOOLEAN /\ FrameAt(f, id, i, m, end)
    <2>1. MaxP \in 0..MaxP
      BY MaxPFacts
    <2>2. end \in BOOLEAN
      OBVIOUS
    <2>3. FrameAt(f, id, i, m, end)
      BY Zenon
    <2> QED BY <2>1, <2>2, <2>3
  <1> HIDE DEF m, end
  <1>2. Size(f) = m /\ SubSeq(f.payload, 1, m) = Piece(i * MaxP, m)
    BY <1>1, FrameRead
  <1> QED BY <1>2 DEF m

LEMMA FullFramesCarry ==
    ASSUME NEW id \in PackageIds, NEW n \in Nat, n > 0, n < U8, MaxP \in PayloadSizes,
           NEW fs, FullFrames(fs, id, n)
    PROVE  Carry(fs, n * MaxP)
  <1>0. MaxP \in Nat \ {0} /\ U8 \in Nat
    BY MaxPFacts, Widths
  <1>1. fs \in Seq(AllFrames) /\ Len(fs) = n /\ DOMAIN fs = 1..n /\ fs # <<>>
    BY EmptySeq DEF FullFrames
  <1>2. ASSUME NEW k \in 1..n
        PROVE  /\ Size(fs[k]) = MaxP
               /\ SubSeq(fs[k].payload, 1, MaxP) = Piece((k - 1) * MaxP, MaxP)
    <2> DEFINE i == k - 1
               f == fs[k]
    <2>1. i \in Nat /\ i < U8
      BY <1>0
    <2>2. FrameAt(f, id, i, MaxP, FALSE)
      BY DEF FullFrames
    <2> HIDE DEF i, f
    <2>3. Size(f) = MaxP /\ SubSeq(f.payload, 1, MaxP) = Piece(i * MaxP, MaxP)
      BY <2>1, <2>2, FullFrameRead
    <2> QED BY <2>3 DEF i, f
  <1>3. CarriedIn(fs) = n * MaxP
    <2>1. n \in 1..n
      OBVIOUS
    <2>2. CarriedIn(fs) = (n - 1) * MaxP + MaxP
      BY <1>1, <1>2, <2>1 DEF CarriedIn
    <2>3. (n - 1) * MaxP + MaxP = n * MaxP
      BY <1>0
    <2> QED BY <2>2, <2>3
  <1> QED BY <1>1, <1>2, <1>3 DEF Carry

LEMMA EndedFramesCarry ==
    ASSUME NEW id \in PackageIds, NEW n \in Nat, n < U8, MaxP \in PayloadSizes,
           NEW size \in 0..MaxP, NEW fs, EndedFrames(fs, id, n, size)
    PROVE  Carry(fs, n * MaxP + size)
  <1>0. MaxP \in Nat \ {0} /\ U8 \in Nat
    BY MaxPFacts, Widths
  <1>1. fs \in Seq(AllFrames) /\ Len(fs) = n + 1 /\ DOMAIN fs = 1..(n + 1) /\ fs # <<>>
    BY EmptySeq DEF EndedFrames
  <1>2. ASSUME NEW k \in 1..n
        PROVE  /\ Size(fs[k]) = MaxP
               /\ SubSeq(fs[k].payload, 1, MaxP) = Piece((k - 1) * MaxP, MaxP)
    <2> DEFINE i == k - 1
               f == fs[k]
    <2>1. i \in Nat /\ i < U8
      BY <1>0
    <2>2. FrameAt(f, id, i, MaxP, FALSE)
      BY DEF EndedFrames
    <2> HIDE DEF i, f
    <2>3. Size(f) = MaxP /\ SubSeq(f.payload, 1, MaxP) = Piece(i * MaxP, MaxP)
      BY <2>1, <2>2, FullFrameRead
    <2> QED BY <2>3 DEF i, f
  <1>3. /\ Size(fs[n + 1]) = size
        /\ SubSeq(fs[n + 1].payload, 1, size) = Piece(n * MaxP, size)
    <2> DEFINE f == fs[n + 1]
               end == TRUE
    <2>1. FrameAt(f, id, n, size, end) /\ end \in BOOLEAN
      BY DEF EndedFrames
    <2>2. n \in Nat /\ n < U8 /\ size \in 0..MaxP /\ id \in PackageIds /\ MaxP \in PayloadSizes
      OBVIOUS
    <2> HIDE DEF f, end
    <2>3. Size(f) = size /\ SubSeq(f.payload, 1, size) = Piece(n * MaxP, size)
      BY ONLY <2>1, <2>2, FrameRead
    <2> QED BY <2>3 DEF f
  <1>4. CarriedIn(fs) = n * MaxP + size
    <2>1. n + 1 - 1 = n
      OBVIOUS
    <2> QED BY <1>1, <1>3, <2>1 DEF CarriedIn
  <1>5. ASSUME NEW k \in 1..(n + 1)
        PROVE  /\ SubSeq(fs[k].payload, 1, Size(fs[k])) = Piece((k - 1) * MaxP, Size(fs[k]))
               /\ k < n + 1 => Size(fs[k]) = MaxP
    <2>1. CASE k \in 1..n
      BY <1>2, <2>1
    <2>2. CASE k = n + 1
      <3>1. k - 1 = n
        BY <2>2
      <3> QED BY <1>3, <2>2, <3>1
    <2>3. k \in 1..n \/ k = n + 1
      OBVIOUS
    <2> QED BY <2>1, <2>2, <2>3
  <1> QED BY <1>1, <1>4, <1>5 DEF Carry

\* Where a message stands tells how much its frames carry.
LEMMA MessageCarries ==
    ASSUME WritersOK, NEW w \in Writers, NEW r, r = writers[w], r.phase # "idle"
    PROVE  \E total \in Nat : /\ Carry(r.stream.frames, total) /\ total <= r.produced
                              /\ r.phase = "done" => total = r.produced
  <1> DEFINE fs == r.stream.frames
             id == r.id
  <1>1. WriterOK(r) /\ r # NotStarted /\ lang \in {"C++", "C#"}
    BY DEF WritersOK, NotStarted
  <1>2. Begins(r) /\ r.phase \in {"open", "done"}
    BY <1>1 DEF WriterOK
  <1>0. /\ MaxP \in Nat \ {0} /\ id \in PackageIds /\ r.length \in Messages
        /\ r.produced \in Nat /\ r.length \in Nat /\ r.produced <= r.length
    BY <1>2, MaxPFacts, MessageParts
  <1>3. CASE r.phase = "open"
    <2>1. PICK n \in Nat, size \in 0..MaxP :
              FullFrames(fs, id, n) /\ r.produced = n * MaxP + size
      <3>1. PICK n \in Nat : IF lang = "C++" THEN CppOpen(r, n) ELSE CsOpen(r, n)
        BY <1>1, <1>3, OpenMessage
      <3>2. CASE lang = "C++"
        <4>1. CppOpen(r, n)
          BY <3>1, <3>2
        <4>2. FullFrames(fs, id, n)
          BY <4>1 DEF CppOpen
        <4>3. \E size \in 0..MaxP : r.produced = n * MaxP + size
          <5>1. CASE r.stream.next_called
            <6>1. PICK size \in 1..MaxP : r.produced = n * MaxP + size
              BY <4>1, <5>1 DEF CppOpen
            <6>2. size \in 0..MaxP
              OBVIOUS
            <6> QED BY <6>1, <6>2
          <5>2. CASE ~ r.stream.next_called
            <6>1. n = 0 /\ r.produced = 0
              BY <4>1, <5>2 DEF CppOpen
            <6>2. 0 \in 0..MaxP /\ r.produced = n * MaxP + 0
              BY <1>0, <6>1
            <6> QED BY <6>2
          <5> QED BY <5>1, <5>2
        <4> QED BY <4>2, <4>3
      <3>3. CASE lang # "C++"
        <4>1. PICK fill \in 0..MaxP : CsAt(r, n, fill, r.stream.payload, r.stream.frames)
          BY <3>1, <3>3, CsTakenApart
        <4> QED BY <4>1 DEF CsAt
      <3> QED BY <3>2, <3>3
    <2> HIDE DEF fs, id
    <2>2. CASE n = 0
      <3>1. fs = <<>>
        BY <2>1, <2>2, EmptySeq DEF FullFrames
      <3>2. Carry(fs, 0) /\ 0 <= r.produced
        BY <1>0, <3>1, NothingCarried
      <3> QED BY <1>3, <3>2 DEF fs
    <2>3. CASE n > 0
      <3>1. n < U8 /\ MaxP \in PayloadSizes
        BY <1>0, <2>1, <2>3, InsideMessage
      <3>2. Carry(fs, n * MaxP)
        BY <1>0, <2>1, <2>3, <3>1, FullFramesCarry
      <3>3. n * MaxP \in Nat /\ n * MaxP <= r.produced
        BY <1>0, <2>1
      <3> QED BY <1>3, <3>2, <3>3 DEF fs
    <2> QED BY <2>2, <2>3
  <1>4. CASE r.phase = "done"
    <2>1. Over(r)
      BY <1>1, <1>4 DEF WriterOK
    <2>2. CASE fs = <<>> /\ r.produced = 0
      <3>1. Carry(fs, 0)
        BY <2>2, NothingCarried
      <3> QED BY <2>2, <3>1
    <2>3. CASE \E n \in Nat, size \in 0..MaxP :
                  /\ EndedFrames(fs, id, n, size) /\ r.produced = n * MaxP + size
                  /\ size > 0 \/ n > 0
      <3>1. PICK n \in Nat, size \in 0..MaxP :
                /\ EndedFrames(fs, id, n, size) /\ r.produced = n * MaxP + size
                /\ size > 0 \/ n > 0
        BY <2>3
      <3>2. n < U8 /\ MaxP \in PayloadSizes
        BY <1>0, <3>1, InsideMessage
      <3> HIDE DEF fs, id
      <3>3. Carry(fs, n * MaxP + size)
        BY <1>0, <3>1, <3>2, EndedFramesCarry
      <3>4. n * MaxP + size \in Nat
        BY <1>0
      <3> QED BY <1>0, <3>1, <3>3 DEF fs
    <2> QED BY <2>1, <2>2, <2>3 DEF Over
  <1> QED BY <1>2, <1>3, <1>4

LEMMA CarriesFollows == WritersOK => CarriesMessage
  <1> SUFFICES ASSUME WritersOK, NEW w \in Started
               PROVE  /\ \A k \in DOMAIN Frames(w) :
                             LET f == Frames(w)[k]
                             IN  /\ SubSeq(f.payload, 1, Size(f))
                                        = Piece((k - 1) * MaxP, Size(f))
                                 /\ k < Len(Frames(w)) => Size(f) = MaxP
                      /\ Carried(w) <= writers[w].produced
                      /\ writers[w].phase = "done" => Carried(w) = writers[w].produced
    BY DEF CarriesMessage
  <1>1. w \in Writers /\ writers[w].phase # "idle"
    BY DEF Started
  <1>2. PICK total \in Nat : /\ Carry(Frames(w), total) /\ total <= writers[w].produced
                             /\ writers[w].phase = "done" => total = writers[w].produced
    BY <1>1, MessageCarries DEF Frames
  <1>3. Carried(w) = total
    BY <1>2 DEF Carry, CarriedIn, Carried
  <1> QED BY <1>2, <1>3 DEF Carry

\* In every run of an encoder, with any number of threads and whatever its
\* serialiser asks for within the hypotheses, the frames of every message carry
\* a prefix of it, and at the end all that was produced.
THEOREM MessageCarried ==
    ASSUME BuffersAreUnits, HintsAreSmall
    PROVE  Spec => []CarriesMessage
  BY InvariantHolds, CarriesFollows, PTL

-----------------------------------------------------------------------------
(* A message that did not fail is sliced as Slicing says *)

\* Which slice is the last, and how large it is.
LastAt(p, n, size) ==
    LastSlice(p) = n /\ p.full >= n /\ (IF n < p.full THEN size = MaxP ELSE size = p.rest)

LEMMA PackageEnds ==
    ASSUME NEW length \in Nat, NEW n \in Nat, NEW size \in 0..MaxP,
           length = n * MaxP + size, NEW style \in Styles,
           style = "FullEop" => size > 0, style = "EmptyEop" => size < MaxP,
           NEW p, p.full = length \div MaxP, p.rest = length % MaxP, p.style = style
    PROVE  LastAt(p, n, size)
  <1>0. MaxP \in Nat \ {0} /\ size \in Nat /\ n * MaxP \in Nat
    BY MaxPFacts
  <1>1. CASE size < MaxP
    <2>1. p.full = n /\ p.rest = size
      BY <1>0, <1>1, SliceOfPosition, RemainderOfPosition
    <2>2. LastSlice(p) = n
      BY <1>0, <2>1 DEF LastSlice
    <2> QED BY <1>0, <2>1, <2>2 DEF LastAt
  <1>2. CASE size = MaxP
    <2> DEFINE q == n + 1
    <2>1. length = q * MaxP + 0 /\ q \in Nat /\ 0 < MaxP /\ 0 \in Nat
      BY <1>0, <1>2
    <2> HIDE DEF q
    <2>2. (q * MaxP + 0) \div MaxP = q /\ (q * MaxP + 0) % MaxP = 0
      BY <1>0, <2>1, SliceOfPosition, RemainderOfPosition
    <2>3. p.full = n + 1 /\ p.rest = 0
      BY <2>1, <2>2 DEF q
    <2>4. style = "FullEop"
      BY <1>0, <1>2 DEF Styles
    <2>5. LastSlice(p) = n
      BY <2>3, <2>4 DEF LastSlice
    <2> QED BY <1>2, <2>3, <2>5 DEF LastAt
  <1> QED BY <1>0, <1>1, <1>2

\* The headers of frames that end with slice n are those of the package.
LEMMA HeadersAreThose ==
    ASSUME NEW id, NEW n \in Nat, NEW size \in 0..MaxP, NEW fs, EndedFrames(fs, id, n, size),
           NEW p, p.id = id, p.sender = Sender, LastAt(p, n, size), p.full \in Nat
    PROVE  [k \in DOMAIN fs |-> fs[k].header]
               = [k \in 1..(LastSlice(p) + 1) |-> HeaderBytes(p, k - 1)]
  <1>0. MaxP \in Nat \ {0}
    BY MaxPFacts
  <1>1. DOMAIN fs = 1..(n + 1) /\ LastSlice(p) + 1 = n + 1
    BY DEF EndedFrames, LastAt
  <1>2. ASSUME NEW k \in 1..n
        PROVE  fs[k].header = HeaderBytes(p, k - 1)
    <2> DEFINE i == k - 1
    <2>1. i \in Nat /\ i < n /\ i # LastSlice(p) /\ i < p.full
      BY DEF LastAt
    <2>2. fs[k].header = HeaderAt(id, i, MaxP, FALSE)
      BY DEF EndedFrames, FrameAt
    <2>3. PayloadSize(p, i) = MaxP
      BY <2>1 DEF PayloadSize
    <2>4. HeaderAt(id, i, MaxP, FALSE)
              = mp_header_pack([package_serial |-> id, slice_serial |-> i,
                                sender_id |-> Sender, eop |-> 0,
                                slice_payload_size |-> MaxP])
      BY DEF HeaderAt
    <2>5. HeaderBytes(p, i)
              = mp_header_pack([package_serial |-> id, slice_serial |-> i,
                                sender_id |-> Sender, eop |-> 0,
                                slice_payload_size |-> MaxP])
      <3>1. (IF i = LastSlice(p) THEN 1 ELSE 0) = 0
        BY <2>1
      <3> HIDE DEF i
      <3> QED BY <2>3, <3>1 DEF HeaderBytes
    <2> QED BY <2>2, <2>4, <2>5
  <1>3. fs[n + 1].header = HeaderBytes(p, n)
    <2>1. LastSlice(p) = n
      BY DEF LastAt
    <2>2. fs[n + 1].header = HeaderAt(id, n, size, TRUE)
      BY DEF EndedFrames, FrameAt
    <2>3. PayloadSize(p, n) = size
      BY DEF LastAt, PayloadSize
    <2>4. HeaderAt(id, n, size, TRUE)
              = mp_header_pack([package_serial |-> id, slice_serial |-> n,
                                sender_id |-> Sender, eop |-> 1,
                                slice_payload_size |-> size])
      BY DEF HeaderAt
    <2>5. HeaderBytes(p, n)
              = mp_header_pack([package_serial |-> id, slice_serial |-> n,
                                sender_id |-> Sender, eop |-> 1,
                                slice_payload_size |-> size])
      <3>1. (IF n = LastSlice(p) THEN 1 ELSE 0) = 1
        BY <2>1
      <3> QED BY <2>3, <3>1 DEF HeaderBytes
    <2> QED BY <2>2, <2>4, <2>5
  <1>4. \A k \in 1..(n + 1) : fs[k].header = HeaderBytes(p, k - 1)
    <2> TAKE k \in 1..(n + 1)
    <2>1. CASE k \in 1..n
      BY <1>2, <2>1
    <2>2. CASE k = n + 1
      <3>1. k - 1 = n
        BY <2>2
      <3> QED BY <1>3, <2>2, <3>1
    <2>3. k \in 1..n \/ k = n + 1
      OBVIOUS
    <2> QED BY <2>1, <2>2, <2>3
  <1> QED BY <1>1, <1>4

LEMMA SlicesFollow == WritersOK => FramesAreSlices
  <1> SUFFICES ASSUME WritersOK, NEW w \in Started, writers[w].phase = "done",
                      ~ writers[w].failed, writers[w].length > 0
               PROVE  [k \in DOMAIN Frames(w) |-> Frames(w)[k].header]
                          = [k \in 1..(LastSlice(Package(w)) + 1)
                                 |-> HeaderBytes(Package(w), k - 1)]
    BY DEF FramesAreSlices
  <1> DEFINE r  == writers[w]
             fs == Frames(w)
             p  == Package(w)
             style == IF lang = "C++" THEN "FullEop" ELSE "EmptyEop"
  <1>1. w \in Writers /\ WriterOK(r) /\ r # NotStarted /\ lang \in {"C++", "C#"}
    BY DEF Started, WritersOK, NotStarted
  <1>2. Begins(r) /\ Over(r)
    BY <1>1 DEF WriterOK
  <1>0. MaxP \in Nat \ {0} /\ r.length \in Nat /\ r.produced = r.length
    BY <1>2, MaxPFacts, MessageParts DEF Over
  <1>3. PICK n \in Nat, size \in 0..MaxP :
            /\ EndedFrames(fs, r.id, n, size)
            /\ r.produced = n * MaxP + size
            /\ lang = "C++" => size > 0
            /\ lang = "C#" => size < MaxP
    <2>1. ~ (r.produced = 0)
      BY <1>0
    <2>2. \E n \in Nat, size \in 0..MaxP :
              /\ EndedFrames(r.stream.frames, r.id, n, size)
              /\ r.produced = n * MaxP + size
              /\ lang = "C++" => size > 0
              /\ lang = "C#" => size < MaxP
      BY <1>2, <2>1 DEF Over
    <2> QED BY <2>2 DEF Frames
  <1>4. /\ p.id = r.id /\ p.sender = Sender /\ p.full = r.length \div MaxP
        /\ p.rest = r.length % MaxP /\ p.style = style
    BY DEF Package
  <1>5. style \in Styles /\ (style = "FullEop" => size > 0) /\ (style = "EmptyEop" => size < MaxP)
    BY <1>1, <1>3 DEF Styles
  <1>6. LastAt(p, n, size)
    <2> HIDE DEF p, style, r
    <2> QED BY <1>0, <1>3, <1>4, <1>5, PackageEnds
  <1>7. p.full \in Nat
    BY <1>0, <1>4
  <1> HIDE DEF p, fs, r
  <1>8. [k \in DOMAIN fs |-> fs[k].header]
            = [k \in 1..(LastSlice(p) + 1) |-> HeaderBytes(p, k - 1)]
    BY <1>3, <1>4, <1>6, <1>7, HeadersAreThose
  <1> QED BY <1>8 DEF fs, p

\* A message that did not fail is on the link as the slices of Slicing: full ones
\* numbered from 0, and an end that is the last of them in C++ and may be empty
\* in C#.
THEOREM SlicesAsSlicing ==
    ASSUME BuffersAreUnits, HintsAreSmall
    PROVE  Spec => []FramesAreSlices
  BY InvariantHolds, SlicesFollow, PTL

-----------------------------------------------------------------------------
(* Package ids *)

\* What this takes of a message: its id does not change once it has one.
Shaped(r) ==
    \/ r = NotStarted
    \/ /\ r = Message(r.phase, r.id, r.length, r.produced, r.failed, r.stream)
       /\ r.id \in PackageIds /\ r.phase \in {"open", "done"}

\* The id of every message was taken fewer steps of the counter ago than there
\* are messages.
IdsOK ==
    /\ lang \in {"C++", "C#"} /\ counter \in PackageIds
    /\ writers = [w \in Writers |-> writers[w]]
    /\ \A w \in Writers : Shaped(writers[w])
    /\ \A w \in Started : \E age \in 1..Cardinality(Started) :
           (writers[w].id + age) % U8 = TakenId
    /\ DistinctIds

Continues(w, r2) ==
    /\ writers[w] # NotStarted /\ Update(w, r2)
    /\ Shaped(r2) /\ r2 # NotStarted /\ r2.id = writers[w].id

\* A step on an open message leaves it its id.
LEMMA StepContinues ==
    ASSUME IdsOK, NEW w \in Writers, NEW r, r = writers[w], r.phase = "open",
           NEW phase \in {"open", "done"}, NEW produced, NEW failed, NEW stream,
           Update(w, Changed(r, phase, produced, failed, stream))
    PROVE  \E r2 : Continues(w, r2)
  <1> DEFINE r2 == Changed(r, phase, produced, failed, stream)
  <1>1. r = Message(r.phase, r.id, r.length, r.produced, r.failed, r.stream)
        /\ r.id \in PackageIds /\ r # NotStarted
    BY DEF IdsOK, Shaped, NotStarted
  <1>2. r2 = Message(phase, r.id, r.length, produced, failed, stream)
    BY <1>1, ChangedIs
  <1> HIDE DEF r2
  <1>3. /\ r2.phase = phase /\ r2.id = r.id /\ r2.length = r.length
        /\ r2.produced = produced /\ r2.failed = failed /\ r2.stream = stream
    <2> DEFINE id == r.id
               l  == r.length
    <2>1. r2 = Message(phase, id, l, produced, failed, stream)
      BY <1>2
    <2> HIDE DEF id, l
    <2>2. /\ r2.phase = phase /\ r2.id = id /\ r2.length = l
          /\ r2.produced = produced /\ r2.failed = failed /\ r2.stream = stream
      BY <2>1 DEF Message
    <2> QED BY <2>2 DEF id, l
  <1>4. r2 = Message(r2.phase, r2.id, r2.length, r2.produced, r2.failed, r2.stream)
    BY <1>2, <1>3
  <1>5. Shaped(r2) /\ r2 # NotStarted
    BY <1>1, <1>3, <1>4 DEF Shaped, NotStarted
  <1>6. Continues(w, r2)
    BY <1>1, <1>3, <1>5 DEF Continues, r2
  <1> QED BY <1>6

LEMMA NextContinues ==
    ASSUME IdsOK, NEW w \in Writers, CppNext(w) \/ CsNext(w)
    PROVE  \/ \E length \in Messages : \E stream : Start(w, length, stream)
           \/ \E r2 : Continues(w, r2)
  <1> DEFINE r == writers[w]
  <1>0. r.phase = "open" => r = Message(r.phase, r.id, r.length, r.produced, r.failed, r.stream)
    BY DEF IdsOK, Shaped, NotStarted
  <1>1. ASSUME NEW length \in Messages, NEW size \in Buffers, Push(w, length, size)
        PROVE  \E stream : Start(w, length, stream)
    BY <1>1 DEF Push
  <1>2. CASE FillBuffer(w)
    <2> DEFINE s == StreamNext(r.stream)
               n == Min({Len(s.payload_buf), r.length - r.produced})
               t == [s EXCEPT !.payload_buf = Overwrite(@, 0, Piece(r.produced, n))]
               p == r.produced + n
    <2>1. r.phase = "open" /\ Update(w, [r EXCEPT !.produced = p, !.stream = t])
      BY <1>2 DEF FillBuffer
    <2> HIDE DEF t, p
    <2>2. [r EXCEPT !.produced = p, !.stream = t] = Changed(r, "open", p, r.failed, t)
      <3> HIDE DEF r
      <3> QED BY <1>0, <2>1 DEF Changed, Message
    <2>3. Update(w, Changed(r, "open", p, r.failed, t))
      BY <2>1, <2>2
    <2> QED BY <2>1, <2>3, StepContinues
  <1>3. CASE Return(w)
    <2>1. PICK s \in HandedBack(r) :
              Update(w, [r EXCEPT !.phase = "done", !.stream = finalize(s)])
      BY <1>3 DEF Return
    <2> DEFINE t == finalize(s)
    <2>2. r.phase = "open"
      BY <1>3 DEF Return
    <2> HIDE DEF t
    <2>3. [r EXCEPT !.phase = "done", !.stream = t] = Changed(r, "done", r.produced, r.failed, t)
      <3> HIDE DEF r
      <3> QED BY <1>0, <2>2 DEF Changed, Message
    <2>4. Update(w, Changed(r, "done", r.produced, r.failed, t))
      BY <2>1, <2>3 DEF t
    <2> QED BY <2>2, <2>4, StepContinues
  <1>4. CASE Refuse(w)
    <2> DEFINE f == TRUE
    <2>1. r.phase = "open" /\ Update(w, [r EXCEPT !.phase = "done", !.failed = f])
      BY <1>4 DEF Refuse
    <2> HIDE DEF f
    <2>2. [r EXCEPT !.phase = "done", !.failed = f] = Changed(r, "done", r.produced, f, r.stream)
      <3> HIDE DEF r
      <3> QED BY <1>0, <2>1 DEF Changed, Message
    <2>3. Update(w, Changed(r, "done", r.produced, f, r.stream))
      BY <2>1, <2>2
    <2> QED BY <2>1, <2>3, StepContinues
  <1>5. ASSUME NEW length \in Messages, CreateWriter(w, length)
        PROVE  \E stream : Start(w, length, stream)
    BY <1>5 DEF CreateWriter
  <1>6. ASSUME NEW hint \in Hints, NEW n \in 0..MaxP, NEW throws \in BOOLEAN,
               Write(w, hint, n, throws)
        PROVE  \E r2 : Continues(w, r2)
    <2> DEFINE t == GetSpan(r.stream, hint)
               u == [t EXCEPT !.payload = Overwrite(@, t.fill, Piece(r.produced, n))]
               s == IF throws THEN AddFill(u, n) ELSE Advance(u, n)
               p == r.produced + n
    <2>1. /\ r.phase = "open"
          /\ Update(w, [r EXCEPT !.produced = p, !.failed = throws, !.stream = s])
      BY <1>6 DEF Write
    <2> HIDE DEF s, p
    <2>2. [r EXCEPT !.produced = p, !.failed = throws, !.stream = s]
              = Changed(r, "open", p, throws, s)
      <3> HIDE DEF r
      <3> QED BY <1>0, <2>1 DEF Changed, Message
    <2>3. Update(w, Changed(r, "open", p, throws, s))
      BY <2>1, <2>2
    <2> QED BY <2>1, <2>3, StepContinues
  <1>7. CASE DisposeWriter(w)
    <2> DEFINE f == r.failed \/ r.produced < r.length
               s == Dispose(r.stream)
    <2>1. r.phase = "open" /\ Update(w, [r EXCEPT !.phase = "done", !.failed = f, !.stream = s])
      BY <1>7 DEF DisposeWriter
    <2> HIDE DEF f, s
    <2>2. [r EXCEPT !.phase = "done", !.failed = f, !.stream = s]
              = Changed(r, "done", r.produced, f, s)
      <3> HIDE DEF r
      <3> QED BY <1>0, <2>1 DEF Changed, Message
    <2>3. Update(w, Changed(r, "done", r.produced, f, s))
      BY <2>1, <2>2
    <2> QED BY <2>1, <2>3, StepContinues
  <1> QED BY <1>1, <1>2, <1>3, <1>4, <1>5, <1>6, <1>7 DEF CppNext, CsNext

\* Fewer than U8 steps do not come back to where they began, and one more step
\* is one more.
LEMMA StepsOnACircle ==
    ASSUME NEW x \in 0..(U8 - 1), NEW a \in 1..(U8 - 1)
    PROVE  /\ (x + a) % U8 # x
           /\ (x + (a + 1)) % U8 = (((x + a) % U8) + 1) % U8
  <1>0. U8 \in Nat \ {0, 1}
    BY Widths
  <1> DEFINE t == IF x + a < U8 THEN x + a ELSE x + a - U8
  <1>1. (x + a) % U8 = t
    BY <1>0
  <1>2. t # x
    BY <1>0
  <1>3. (x + (a + 1)) % U8 = (t + 1) % U8
    <2>1. CASE x + a < U8
      BY <1>0, <2>1
    <2>2. CASE x + a >= U8
      <3>1. t + 1 \in 0..(U8 - 1) /\ x + (a + 1) = (t + 1) + U8
        BY <1>0, <2>2
      <3> HIDE DEF t
      <3>2. ((t + 1) + U8) % U8 = t + 1 /\ (t + 1) % U8 = t + 1
        BY <1>0, <3>1
      <3> QED BY <3>1, <3>2
    <2> QED BY <1>0, <2>1, <2>2
  <1> QED BY <1>1, <1>2, <1>3

\* The next id is the one after the last.
LEMMA NextTaken ==
    ASSUME lang' = lang, counter' = Increment(counter)
    PROVE  TakenId' = (TakenId + 1) % U8
  BY DEF TakenId, Increment

LEMMA StartIdsOK ==
    ASSUME IsFiniteSet(Writers), Cardinality(Writers) <= U8, IdsOK,
           NEW w \in Writers, NEW length \in Messages, NEW stream, Start(w, length, stream)
    PROVE  IdsOK'
  <1> DEFINE r2 == Begun(TakenId, length, stream)
             new == Started \union {w}
  <1>0. U8 \in Nat \ {0, 1}
    BY Widths
  <1>1. /\ writers[w] = NotStarted /\ counter' = Increment(counter)
        /\ writers' = [writers EXCEPT ![w] = r2] /\ lang' = lang
    BY DEF Start
  <1>2. /\ lang \in {"C++", "C#"} /\ counter \in PackageIds
        /\ writers = [v \in Writers |-> writers[v]]
        /\ \A v \in Writers : Shaped(writers[v])
        /\ DistinctIds
    BY DEF IdsOK
  <1>3. TakenId \in PackageIds /\ counter' \in PackageIds
    BY <1>1, <1>2, TakenIsId
  <1>4. r2 = Message("open", TakenId, length, 0, FALSE, stream)
    BY DEF Begun, Message
  <1>5. /\ r2.phase = "open" /\ r2.id = TakenId /\ r2.length = length
        /\ r2.produced = 0 /\ r2.failed = FALSE /\ r2.stream = stream
    <2> DEFINE id == TakenId
    <2>1. r2 = Message("open", id, length, 0, FALSE, stream)
      BY <1>4
    <2> HIDE DEF id, r2
    <2> QED BY <2>1 DEF Message, id
  <1> HIDE DEF r2
  <1>6. Shaped(r2)
    BY <1>3, <1>4, <1>5 DEF Shaped
  <1>7. writers' = [v \in Writers |-> IF v = w THEN r2 ELSE writers[v]]
    BY <1>1, <1>2
  <1>8. w \notin Started /\ Started \subseteq Writers
    BY <1>1 DEF Started, NotStarted
  <1>9. Started' = new
    BY <1>5, <1>7 DEF Started
  <1>10. /\ Cardinality(new) = Cardinality(Started) + 1
         /\ Cardinality(Started) \in Nat /\ Cardinality(new) <= U8
    <2>1. IsFiniteSet(Started) /\ new \subseteq Writers
      BY <1>8, FS_Subset
    <2>2. Cardinality(new) <= Cardinality(Writers) /\ Cardinality(Writers) \in Nat
      BY <2>1, FS_Subset, FS_CardinalityType
    <2>3. Cardinality(new) = Cardinality(Started) + 1 /\ Cardinality(Started) \in Nat
      BY <1>8, <2>1, FS_AddElement, FS_CardinalityType
    <2> QED BY <1>0, <2>2, <2>3
  <1>11. TakenId' = (TakenId + 1) % U8
    BY <1>1, NextTaken
  <1>12. \A v \in Started : /\ writers'[v] = writers[v] /\ writers[v].id # TakenId
                            /\ \E age \in 1..Cardinality(new) :
                                   (writers[v].id + age) % U8 = TakenId'
    <2> TAKE v \in Started
    <2> DEFINE x == writers[v].id
    <2>1. x \in 0..(U8 - 1)
      BY <1>2, <1>8 DEF Shaped, Started, NotStarted, PackageIds
    <2>2. PICK age \in 1..Cardinality(Started) : (x + age) % U8 = TakenId
      BY DEF IdsOK
    <2> HIDE DEF x, new
    <2>3. age \in 1..(U8 - 1) /\ age + 1 \in 1..Cardinality(new)
      BY <1>0, <1>10, <2>2
    <2>4. (x + age) % U8 # x /\ (x + (age + 1)) % U8 = (((x + age) % U8) + 1) % U8
      BY <2>1, <2>3, StepsOnACircle
    <2>5. x # TakenId /\ (x + (age + 1)) % U8 = TakenId'
      BY <1>11, <2>2, <2>4
    <2>6. writers'[v] = writers[v]
      BY <1>7, <1>8
    <2> QED BY <2>3, <2>5, <2>6 DEF x
  <1>13. writers'[w] = r2 /\ 1 \in 1..Cardinality(new)
    BY <1>7, <1>10
  <1>14. \A v \in new : \E age \in 1..Cardinality(new) :
             (writers'[v].id + age) % U8 = TakenId'
    <2>1. (writers'[w].id + 1) % U8 = TakenId'
      BY <1>5, <1>11, <1>13
    <2>2. \A v \in Started : \E age \in 1..Cardinality(new) :
              (writers'[v].id + age) % U8 = TakenId'
      BY <1>12
    <2>3. \A v \in new : v \in Started \/ v = w
      OBVIOUS
    <2> HIDE DEF new
    <2> QED BY <1>13, <2>1, <2>2, <2>3
  <1>15. \A u, v \in new : u # v => writers'[u].id # writers'[v].id
    <2>1. \A u, v \in Started : u # v => writers[u].id # writers[v].id
      BY <1>2 DEF DistinctIds
    <2> QED BY <1>5, <1>12, <1>13, <2>1
  <1>16. DistinctIds'
    BY <1>9, <1>15 DEF DistinctIds
  <1>17. \A v \in Writers : Shaped(writers[v])'
    BY <1>2, <1>6, <1>7 DEF Shaped
  <1>18. writers' = [v \in Writers |-> writers'[v]]
    BY <1>7
  <1> HIDE DEF new
  <1>19. \A v \in Started' : \E age \in 1..Cardinality(Started') :
             (writers'[v].id + age) % U8 = TakenId'
    BY <1>9, <1>14
  <1> QED BY <1>1, <1>2, <1>3, <1>16, <1>17, <1>18, <1>19 DEF IdsOK

LEMMA ContinueIdsOK ==
    ASSUME IdsOK, NEW w \in Writers, NEW r2, Continues(w, r2)
    PROVE  IdsOK'
  <1>1. /\ writers' = [writers EXCEPT ![w] = r2] /\ lang' = lang /\ counter' = counter
        /\ writers[w] # NotStarted /\ Shaped(r2) /\ r2 # NotStarted /\ r2.id = writers[w].id
    BY DEF Continues, Update
  <1>2. writers = [v \in Writers |-> writers[v]] /\ \A v \in Writers : Shaped(writers[v])
    BY DEF IdsOK
  <1>3. writers' = [v \in Writers |-> IF v = w THEN r2 ELSE writers[v]]
    BY <1>1, <1>2
  <1>4. r2.phase # "idle" /\ writers[w].phase # "idle"
    BY <1>1, <1>2 DEF Shaped
  <1>5. Started' = Started /\ TakenId' = TakenId
    BY <1>1, <1>3, <1>4 DEF Started, TakenId
  <1>6. \A v \in Writers : writers'[v].id = writers[v].id /\ Shaped(writers[v])'
    BY <1>1, <1>2, <1>3 DEF Shaped
  <1>7. Started \subseteq Writers
    BY DEF Started
  <1>8. DistinctIds'
    BY <1>5, <1>6, <1>7 DEF DistinctIds, IdsOK
  <1>9. writers' = [v \in Writers |-> writers'[v]]
    BY <1>3
  <1>10. \A v \in Started' : \E age \in 1..Cardinality(Started') :
             (writers'[v].id + age) % U8 = TakenId'
    BY <1>5, <1>6, <1>7 DEF IdsOK
  <1> QED BY <1>1, <1>6, <1>8, <1>9, <1>10 DEF IdsOK

LEMMA NextIdsOK ==
    ASSUME IsFiniteSet(Writers), Cardinality(Writers) <= U8, IdsOK, [Next]_vars
    PROVE  IdsOK'
  <1>1. CASE Next
    <2>1. PICK w \in Writers : CppNext(w) \/ CsNext(w)
      BY <1>1 DEF Next
    <2> QED BY <2>1, NextContinues, StartIdsOK, ContinueIdsOK
  <1>2. CASE UNCHANGED vars
    BY <1>2 DEF vars, IdsOK, Shaped, Started, TakenId, DistinctIds
  <1> QED BY <1>1, <1>2

\* Two messages never have the same package id, whatever the serialisers ask
\* for and however the threads interleave, as long as there are no more of them
\* than ids: the counter is read and advanced in one step.
THEOREM IdsDistinct ==
    ASSUME IsFiniteSet(Writers), Cardinality(Writers) <= U8
    PROVE  Spec => []DistinctIds
  <1>1. Init => IdsOK
    <2> SUFFICES ASSUME Init PROVE IdsOK
      OBVIOUS
    <2>1. \A w \in Writers : writers[w] = NotStarted
      BY DEF Init
    <2>2. Started = {}
      BY <2>1 DEF Started, NotStarted
    <2> QED BY <2>1, <2>2 DEF Init, IdsOK, Shaped, DistinctIds
  <1>2. IdsOK /\ [Next]_vars => IdsOK'
    BY NextIdsOK
  <1>3. IdsOK => DistinctIds
    BY DEF IdsOK
  <1> QED BY <1>1, <1>2, <1>3, PTL DEF Spec

-----------------------------------------------------------------------------
(* An encoder keeps the promise of PackageSender *)

\* What the link sees of a message.
HeadersOf(fs) == [k \in DOMAIN fs |-> fs[k].header]
Entry(phase, id, headers) == [phase |-> phase, id |-> id, headers |-> headers]
Seen(r) ==
    Entry(IF r.phase # "done" THEN r.phase
          ELSE IF r.stream.frames = <<>> THEN "dropped" ELSE "ended",
          r.id, HeadersOf(r.stream.frames))
Sent == [w \in Writers |-> Seen(writers[w])]

LEMMA AbstractNames ==
    /\ Abstract!MaxP = MaxP
    /\ \A id, i, size : /\ Abstract!Slice(id, i, 0, size) = HeaderAt(id, i, size, FALSE)
                        /\ Abstract!Slice(id, i, 1, size) = HeaderAt(id, i, size, TRUE)
  <1>1. Abstract!MaxP = MaxP
    BY DEF Abstract!MaxP, MaxP, Abstract!mp_max_payload, mp_max_payload,
           Abstract!MP_HEADER_SIZE, MP_HEADER_SIZE
  <1>2. \A id, i, size : Abstract!Slice(id, i, 0, size) = HeaderAt(id, i, size, FALSE)
    BY DEF Abstract!Slice, HeaderAt, Abstract!mp_header_pack, mp_header_pack
  <1>3. \A id, i, size : Abstract!Slice(id, i, 1, size) = HeaderAt(id, i, size, TRUE)
    BY DEF Abstract!Slice, HeaderAt, Abstract!mp_header_pack, mp_header_pack
  <1> QED BY <1>1, <1>2, <1>3

LEMMA NoHeaders == HeadersOf(<<>>) = <<>>
  <1>1. Len(<<>>) = 0 /\ DOMAIN <<>> = 1..0
    BY EmptySeq
  <1>2. HeadersOf(<<>>) \in Seq(Int) /\ Len(HeadersOf(<<>>)) = 0
    BY <1>1 DEF HeadersOf
  <1> QED BY <1>2, EmptySeq

LEMMA OneMoreHeader ==
    ASSUME NEW fs \in Seq(AllFrames), NEW f \in AllFrames
    PROVE  /\ HeadersOf(Append(fs, f)) = Append(HeadersOf(fs), f.header)
           /\ Len(HeadersOf(fs)) = Len(fs) /\ Append(fs, f) # <<>>
  <1> DEFINE H == Int \X Int \X Int \X Int
             n == Len(fs)
             hs == HeadersOf(fs)
             gs == Append(fs, f)
  <1>1. n \in Nat /\ DOMAIN fs = 1..n /\ (\A k \in 1..n : fs[k].header \in H) /\ f.header \in H
    <2>1. n \in Nat /\ DOMAIN fs = 1..n /\ \A k \in 1..n : fs[k] \in AllFrames
      BY LenProperties, ElementOfSeq
    <2>2. \A g \in AllFrames : g.header \in H
      BY DEF AllFrames
    <2> QED BY <2>1, <2>2
  <1>2. hs = [k \in 1..n |-> fs[k].header]
    BY <1>1 DEF HeadersOf
  <1> HIDE DEF hs, n, H
  <1>3. hs \in Seq(H) /\ Len(hs) = n /\ \A k \in 1..n : hs[k] = fs[k].header
    BY <1>1, <1>2
  <1>4. gs \in Seq(AllFrames) /\ Len(gs) = n + 1 /\ DOMAIN gs = 1..(n + 1)
        /\ (\A k \in 1..n : gs[k] = fs[k]) /\ gs[n + 1] = f
    BY AppendProperties DEF n
  <1>5. /\ DOMAIN Append(hs, f.header) = 1..(n + 1)
        /\ \A k \in 1..n : Append(hs, f.header)[k] = hs[k]
        /\ Append(hs, f.header)[n + 1] = f.header
        /\ Append(hs, f.header) \in Seq(H)
    BY <1>1, <1>3, AppendProperties
  <1> HIDE DEF gs
  <1>6. HeadersOf(gs) = [k \in 1..(n + 1) |-> gs[k].header]
    BY <1>4 DEF HeadersOf
  <1>7. \A k \in 1..(n + 1) : gs[k].header = Append(hs, f.header)[k]
    BY <1>1, <1>3, <1>4, <1>5
  <1>8. Append(hs, f.header) = [k \in 1..(n + 1) |-> Append(hs, f.header)[k]]
    <2> DEFINE more == Append(hs, f.header)
    <2> HIDE DEF more
    <2>1. more \in Seq(H) /\ DOMAIN more = 1..(n + 1)
      BY <1>5 DEF more
    <2>2. more \in [1..(n + 1) -> H]
      BY <2>1, LenProperties
    <2>3. more = [k \in 1..(n + 1) |-> more[k]]
      BY <2>2
    <2> QED BY <2>3 DEF more
  <1>9. HeadersOf(gs) = Append(hs, f.header)
    BY <1>6, <1>7, <1>8
  <1>10. gs # <<>>
    BY <1>1, <1>4, EmptySeq
  <1> QED BY <1>3, <1>9, <1>10 DEF gs, hs, n

\* What a step of a message adds to what the link sees of it.
SeenStep(r, r2) ==
    LET hs == HeadersOf(r.stream.frames)
    IN  \/ Seen(r2) = Entry("open", r.id, hs)
        \/ Seen(r2) = Entry("open", r.id, Append(hs, Abstract!Slice(r.id, Len(hs), 0, MaxP)))
        \/ hs = <<>> /\ Seen(r2) = Entry("dropped", r.id, hs)
        \/ \E size \in 0..MaxP :
               Seen(r2) = Entry("ended", r.id,
                                Append(hs, Abstract!Slice(r.id, Len(hs), 1, size)))

LEMMA SendsIsSeen ==
    ASSUME NEW r, NEW r2, Sends(r, r2)
    PROVE  SeenStep(r, r2)
  <1> DEFINE fs == r.stream.frames
             gs == r2.stream.frames
             hs == HeadersOf(fs)
             i  == Len(fs)
  <1>1. r2.id = r.id /\ fs \in Seq(AllFrames)
    BY DEF Sends
  <1>2. CASE r2.phase = "open" /\ gs = fs
    <2>1. Seen(r2) = Entry("open", r.id, hs)
      BY <1>1, <1>2 DEF Seen
    <2> QED BY <2>1 DEF SeenStep
  <1>3. ASSUME r2.phase = "open", NEW f \in AllFrames, FrameAt(f, r.id, i, MaxP, FALSE),
               gs = Append(fs, f)
        PROVE  SeenStep(r, r2)
    <2>1. f.header = Abstract!Slice(r.id, i, 0, MaxP)
      BY <1>3, AbstractNames DEF FrameAt
    <2>2. HeadersOf(gs) = Append(hs, f.header) /\ Len(hs) = i
      BY <1>1, <1>3, OneMoreHeader
    <2>3. Seen(r2) = Entry("open", r.id, HeadersOf(gs))
      BY <1>1, <1>3 DEF Seen
    <2> HIDE DEF i, fs, gs
    <2>4. Seen(r2) = Entry("open", r.id, Append(hs, Abstract!Slice(r.id, Len(hs), 0, MaxP)))
      BY <2>1, <2>2, <2>3
    <2> QED BY <2>4 DEF SeenStep, fs
  <1>4. CASE r2.phase = "done" /\ fs = <<>> /\ gs = <<>>
    <2>1. hs = <<>>
      BY <1>4, NoHeaders
    <2>2. Seen(r2) = Entry("dropped", r.id, hs)
      BY <1>1, <1>4 DEF Seen
    <2> QED BY <2>1, <2>2 DEF SeenStep
  <1>5. ASSUME r2.phase = "done", NEW f \in AllFrames, NEW size \in 0..MaxP,
               FrameAt(f, r.id, i, size, TRUE), gs = Append(fs, f)
        PROVE  SeenStep(r, r2)
    <2>1. f.header = Abstract!Slice(r.id, i, 1, size)
      BY <1>5, AbstractNames DEF FrameAt
    <2>2. HeadersOf(gs) = Append(hs, f.header) /\ Len(hs) = i /\ gs # <<>>
      BY <1>1, <1>5, OneMoreHeader
    <2>3. Seen(r2) = Entry("ended", r.id, HeadersOf(gs))
      BY <1>1, <1>5, <2>2 DEF Seen
    <2> HIDE DEF i, fs, gs
    <2>4. Seen(r2) = Entry("ended", r.id, Append(hs, Abstract!Slice(r.id, Len(hs), 1, size)))
      BY <2>1, <2>2, <2>3
    <2> QED BY <2>4 DEF SeenStep, fs
  <1> QED BY <1>2, <1>3, <1>4, <1>5 DEF Sends

\* A message that begins is one the abstract sender opens.
LEMMA BeginsSeen ==
    /\ Seen(NotStarted) = Abstract!Idle
    /\ \A r : r.phase = "open" /\ r.stream.frames = <<>> => Seen(r) = Entry("open", r.id, <<>>)
  <1>1. Seen(NotStarted) = Abstract!Idle
    BY NoHeaders DEF Seen, NotStarted, Entry, Abstract!Idle
  <1>2. ASSUME NEW r, r.phase = "open", r.stream.frames = <<>>
        PROVE  Seen(r) = Entry("open", r.id, <<>>)
    BY <1>2, NoHeaders DEF Seen
  <1> QED BY <1>1, <1>2

\* The refinement mapping, named, before and after a step.
LEMMA SentIs ==
    LET mapped == [w \in Writers |->
                      [phase   |-> Phase(w), id |-> writers[w].id,
                       headers |-> [k \in DOMAIN Frames(w) |-> Frames(w)[k].header]]]
    IN  mapped = Sent /\ mapped' = Sent'
  BY DEF Sent, Seen, Entry, HeadersOf, Phase, Frames

LEMMA OpensIsOpen ==
    ASSUME WritersOK, NEW w \in Writers, NEW r2, Opens(w, r2)
    PROVE  Abstract!Open(w)
  <1>1. /\ writers[w] = NotStarted /\ writers' = [writers EXCEPT ![w] = r2]
        /\ counter' = Increment(counter) /\ lang' = lang
        /\ r2.phase = "open" /\ r2.id = TakenId /\ r2.stream.frames = <<>>
    BY DEF Opens
  <1>2. writers = [v \in Writers |-> writers[v]]
    BY DEF WritersOK
  <1>3. Sent[w] = Abstract!Idle
    BY <1>1, BeginsSeen DEF Sent
  <1>4. Sent' = [Sent EXCEPT ![w] = Entry("open", TakenId, <<>>)]
    <2>1. Seen(r2) = Entry("open", TakenId, <<>>)
      BY <1>1, BeginsSeen
    <2>2. writers' = [v \in Writers |-> IF v = w THEN r2 ELSE writers[v]]
      BY <1>1, <1>2
    <2>3. Sent' = [v \in Writers |-> Seen(writers'[v])]
      BY DEF Sent, Seen, Entry, HeadersOf
    <2>4. Sent' = [v \in Writers |-> IF v = w THEN Seen(r2) ELSE Seen(writers[v])]
      BY <2>2, <2>3
    <2> QED BY <2>1, <2>4 DEF Sent
  <1>5. TakenId' = (TakenId + 1) % U8
    BY <1>1, NextTaken
  <1> QED BY <1>3, <1>4, <1>5, SentIs DEF Abstract!Open, Entry

\* An entry whose headers grow, whose phase changes, or both.
Changes(e, id, hs, phase, more) ==
    /\ e.phase = "open" /\ e.id = id /\ e.headers = hs
    /\ [e EXCEPT !.headers = more] = Entry("open", id, more)
    /\ [e EXCEPT !.phase = phase] = Entry(phase, id, hs)
    /\ [e EXCEPT !.phase = phase, !.headers = more] = Entry(phase, id, more)

LEMMA EntryChanges ==
    ASSUME NEW e, NEW id, NEW hs, NEW phase, NEW more, e = Entry("open", id, hs)
    PROVE  Changes(e, id, hs, phase, more)
  <1> DEFINE open == "open"
  <1>1. e = Entry(open, id, hs)
    OBVIOUS
  <1> HIDE DEF open
  <1>2. e.phase = open /\ e.id = id /\ e.headers = hs
    BY <1>1 DEF Entry
  <1>3. [e EXCEPT !.headers = more] = Entry(open, id, more)
    BY <1>1, SMTT(30) DEF Entry
  <1>4. [e EXCEPT !.phase = phase] = Entry(phase, id, hs)
    BY <1>1 DEF Entry
  <1>5. [e EXCEPT !.phase = phase, !.headers = more] = Entry(phase, id, more)
    <2>1. [Entry(phase, id, hs) EXCEPT !.headers = more] = Entry(phase, id, more)
      BY SMTT(30) DEF Entry
    <2>2. [e EXCEPT !.phase = phase, !.headers = more]
              = [[e EXCEPT !.phase = phase] EXCEPT !.headers = more]
      OBVIOUS
    <2> QED BY <1>4, <2>1, <2>2
  <1> QED BY <1>2, <1>3, <1>4, <1>5 DEF Changes, open

\* A step of a message in the making is a step of the abstract sender or none.
LEMMA ProceedsIsAStep ==
    ASSUME WritersOK, NEW w \in Writers, NEW r2, Proceeds(w, r2)
    PROVE  \/ Abstract!Emit(w) \/ Abstract!Finish(w) \/ Abstract!Drop(w)
           \/ UNCHANGED Abstract!svars
  <1> DEFINE r  == writers[w]
             e  == Sent[w]
             id == r.id
             hs == HeadersOf(r.stream.frames)
  <1>1. /\ r.phase = "open" /\ writers' = [writers EXCEPT ![w] = r2]
        /\ counter' = counter /\ lang' = lang /\ Sends(r, r2)
    BY DEF Proceeds, Update
  <1>2. writers = [v \in Writers |-> writers[v]]
    BY DEF WritersOK
  <1>3. TakenId' = TakenId
    BY <1>1 DEF TakenId
  <1>4. e = Entry("open", id, hs)
    BY <1>1 DEF Sent, Seen
  <1>5. Sent' = [Sent EXCEPT ![w] = Seen(r2)]
    <2>1. writers' = [v \in Writers |-> IF v = w THEN r2 ELSE writers[v]]
      BY <1>1, <1>2
    <2>2. Sent' = [v \in Writers |-> Seen(writers'[v])]
      BY DEF Sent, Seen, Entry, HeadersOf
    <2>3. Sent' = [v \in Writers |-> IF v = w THEN Seen(r2) ELSE Seen(writers[v])]
      BY <2>1, <2>2
    <2> QED BY <2>3 DEF Sent
  <1>6. Sent = [v \in Writers |-> Sent[v]]
    BY DEF Sent
  <1>7. SeenStep(r, r2)
    BY <1>1, SendsIsSeen
  <1>8. CASE Seen(r2) = Entry("open", id, hs)
    <2>1. Sent' = Sent
      BY <1>4, <1>5, <1>6, <1>8
    <2> QED BY <1>3, <2>1, SentIs DEF Abstract!svars
  <1>9. CASE Seen(r2) = Entry("open", id, Append(hs, Abstract!Slice(id, Len(hs), 0, MaxP)))
    <2> DEFINE more == Append(hs, Abstract!Slice(id, Len(hs), 0, MaxP))
    <2>1. /\ e.phase = "open" /\ e.id = id /\ e.headers = hs
          /\ [e EXCEPT !.headers = more] = Entry("open", id, more)
      <3> HIDE DEF e, id, hs, more
      <3>1. Changes(e, id, hs, "open", more)
        BY <1>4, EntryChanges
      <3> QED BY <3>1 DEF Changes
    <2>2. more = Append(e.headers, Abstract!Slice(e.id, Len(e.headers), 0, Abstract!MaxP))
      BY <2>1, AbstractNames
    <2>3. Sent' = [Sent EXCEPT ![w] = [e EXCEPT !.headers = more]]
      BY <1>5, <1>9, <2>1
    <2> HIDE DEF more
    <2>4. Sent' = [Sent EXCEPT ![w].headers = more]
      BY <2>3
    <2>5. Abstract!Emit(w)
      BY <1>3, <2>1, <2>2, <2>4, SentIs DEF Abstract!Emit
    <2> QED BY <2>5
  <1>10. CASE hs = <<>> /\ Seen(r2) = Entry("dropped", id, hs)
    <2> DEFINE dropped == "dropped"
    <2>1. Seen(r2) = Entry(dropped, id, hs)
      BY <1>10
    <2> HIDE DEF dropped
    <2>2. /\ e.phase = "open" /\ e.headers = hs
          /\ [e EXCEPT !.phase = dropped] = Entry(dropped, id, hs)
      <3> HIDE DEF e, id, hs
      <3>1. Changes(e, id, hs, dropped, hs)
        BY <1>4, EntryChanges
      <3> QED BY <3>1 DEF Changes
    <2>3. Sent' = [Sent EXCEPT ![w] = [e EXCEPT !.phase = dropped]]
      BY <1>5, <2>1, <2>2
    <2>4. Sent' = [Sent EXCEPT ![w].phase = dropped]
      BY <2>3
    <2>5. Abstract!Drop(w)
      BY <1>3, <1>10, <2>2, <2>4, SentIs DEF Abstract!Drop, dropped
    <2> QED BY <2>5
  <1>11. ASSUME NEW size \in 0..MaxP,
                Seen(r2) = Entry("ended", id, Append(hs, Abstract!Slice(id, Len(hs), 1, size)))
         PROVE  Abstract!Finish(w)
    <2> DEFINE more == Append(hs, Abstract!Slice(id, Len(hs), 1, size))
               ended == "ended"
    <2>1. Seen(r2) = Entry(ended, id, more)
      BY <1>11
    <2> HIDE DEF more, ended
    <2>2. /\ e.phase = "open" /\ e.id = id /\ e.headers = hs
          /\ [e EXCEPT !.phase = ended, !.headers = more] = Entry(ended, id, more)
      <3> HIDE DEF e, id, hs
      <3>1. Changes(e, id, hs, ended, more)
        BY <1>4, EntryChanges
      <3> QED BY <3>1 DEF Changes
    <2>3. more = Append(e.headers, Abstract!Slice(e.id, Len(e.headers), 1, size))
      BY <2>2 DEF more
    <2>4. Sent' = [Sent EXCEPT ![w] = [e EXCEPT !.phase = ended, !.headers = more]]
      BY <1>5, <2>1, <2>2
    <2>5. size \in 0..Abstract!MaxP
      BY AbstractNames
    <2>6. \E n \in 0..Abstract!MaxP :
              Sent' = [Sent EXCEPT ![w] =
                          [Sent[w] EXCEPT
                              !.phase = "ended",
                              !.headers = Append(@, Abstract!Slice(Sent[w].id, Len(@), 1, n))]]
      BY <2>3, <2>4, <2>5 DEF ended
    <2>7. Abstract!Finish(w)
      BY <1>3, <2>2, <2>6, SentIs DEF Abstract!Finish
    <2> QED BY <2>7
  <1> QED BY <1>7, <1>8, <1>9, <1>10, <1>11 DEF SeenStep

\* An encoder does what PackageSender promises the link: packages take the ids
\* in turn, the slices of each are full and unmarked up to the one that ends it,
\* and a package of which the link saw a slice is never abandoned, also when the
\* serialiser or the callback fails.
THEOREM SendsPackages ==
    ASSUME BuffersAreUnits, HintsAreSmall
    PROVE  Spec => ImplementsSender
  <1>1. Init => Abstract!Init
    <2> SUFFICES ASSUME Init PROVE Abstract!Init
      OBVIOUS
    <2>1. TakenId \in PackageIds
      BY TakenIsId DEF Init
    <2>2. Sent = [w \in Writers |-> Abstract!Idle]
      BY BeginsSeen DEF Init, Sent
    <2> QED BY <2>1, <2>2, SentIs DEF Abstract!Init, Abstract!PackageIds, PackageIds
  <1>2. WritersOK /\ [Next]_vars => [Abstract!Next]_(Abstract!svars)
    <2> SUFFICES ASSUME WritersOK, [Next]_vars
                 PROVE  [Abstract!Next]_(Abstract!svars)
      OBVIOUS
    <2>1. CASE Next
      <3>1. PICK w \in Writers : \E r2 : Opens(w, r2) \/ Proceeds(w, r2)
        BY <2>1, NextCases
      <3> QED BY <3>1, OpensIsOpen, ProceedsIsAStep DEF Abstract!Next
    <2>2. CASE UNCHANGED vars
      <3>1. TakenId' = TakenId /\ Sent' = Sent
        BY <2>2 DEF vars, TakenId, Sent, Seen, Entry, HeadersOf
      <3> QED BY <3>1, SentIs DEF Abstract!svars
    <2> QED BY <2>1, <2>2
  <1> QED BY <1>1, <1>2, InvariantHolds, PTL DEF Spec, ImplementsSender, Abstract!Spec
=============================================================================

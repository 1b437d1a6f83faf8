------------------------------ MODULE Encoders ------------------------------
(***************************************************************************)
(* An encoder object, C++ (TxEncoderCore) or C# (TxEncoder), that several  *)
(* threads use at once, each for one message: every message has a stream   *)
(* or writer of its own, the package counter is shared.                    *)
(*                                                                         *)
(* The serialisers are external.  protobuf calls Next only when the buffer *)
(* before is used up and backs up once, at the end, what it left of the    *)
(* last one, never all of it.  A C# serialiser asks for a span, writes     *)
(* into it and advances, and may throw; so may the callback that takes the *)
(* frames.  A byte is its position in the message, Garbage any other.      *)
(***************************************************************************)
EXTENDS CppTxStream, CsTxWriter, Slicing, Deliver

CONSTANTS
    Writers,    \* the messages, one per thread
    Sender,     \* sender_id of the encoder
    Lengths,    \* lengths of the messages
    Buffers,    \* sizes of the buffers handed to TxEncoderCore::Push
    Hints       \* size hints of the C# serialiser

\* "a temporary buffer, not smaller than tu" (customdata-protobuf-tx.hpp:47)
ASSUME EncoderAssumption ==
    /\ Sender \in SenderIds
    /\ Lengths \subseteq Nat /\ Hints \subseteq Nat
    /\ Buffers \subseteq {b \in Nat : b >= TU}

VARIABLES
    lang,       \* which of the two encoders it is; never changes
    counter,    \* _current_package_id
    writers     \* of each message, the progress of its Push or its TxWriter

vars == <<lang, counter, writers>>

Garbage == -1
NotStarted == [phase |-> "idle", id |-> 0, stream |-> [frames |-> <<>>]]

\* Messages that fit a package, in either style.
Fits(length) ==
    SafePackage([full |-> length \div MaxP, rest |-> length % MaxP, style |-> "EmptyEop"])

Messages == {n \in Lengths : n = 0 \/ Fits(n)}

Coord(id) == [sender_id |-> Sender, package_id |-> id, offset |-> 0]

Begun(id, length, stream) ==
    [phase |-> "open", id |-> id, length |-> length, produced |-> 0,
     failed |-> FALSE, stream |-> stream]

\* The encoder may have been in use before: the counter starts anywhere.
Init ==
    /\ lang \in {"C++", "C#"}
    /\ counter \in PackageIds
    /\ writers = [w \in Writers |-> NotStarted]

\* Mutant: the counter is read and not written.
Unincremented(c) == c

Increment(c) == (c + 1) % U8

\* _current_package_id++ gives the value before, Interlocked.Increment the
\* value after, of which (byte) keeps the low bits.
TakenId == IF lang = "C++" THEN counter ELSE Increment(counter)

Start(w, length, stream) ==
    /\ writers[w] = NotStarted
    /\ counter' = Increment(counter)
    /\ writers' = [writers EXCEPT ![w] = Begun(TakenId, length, stream)]
    /\ UNCHANGED lang

Update(w, r) == writers' = [writers EXCEPT ![w] = r] /\ UNCHANGED <<lang, counter>>

-----------------------------------------------------------------------------
\* TxEncoderCore::Push up to SerializeToZeroCopyStream
Push(w, length, size) ==
    /\ lang = "C++"
    /\ Start(w, length, TxStream(Coord(TakenId),
                                 [k \in 1..(size - MP_HEADER_SIZE) |-> Garbage]))

\* The serialiser gets a buffer and fills it as far as the message goes.
FillBuffer(w) ==
    LET r == writers[w]
        s == StreamNext(r.stream)
        n == Min({Len(s.payload_buf), r.length - r.produced})
    IN  /\ lang = "C++" /\ r.phase = "open"
        /\ r.produced < r.length
        /\ Update(w, [r EXCEPT !.produced = @ + n,
                               !.stream = [s EXCEPT !.payload_buf =
                                              Overwrite(@, 0, Piece(r.produced, n))]])

\* What protobuf leaves behind: it backs up over what it did not use, and may
\* or may not call BackUp(0), also where it never asked for a buffer.
HandedBack(r) ==
    LET used == r.produced - r.stream.accumulated
        left == IF r.stream.next_called THEN Len(r.stream.payload_buf) - used ELSE 0
    IN  {BackUp(r.stream, left)} \union (IF left > 0 THEN {} ELSE {r.stream})

\* The end of Push: finalize if the message was serialised.
Return(w) ==
    LET r == writers[w]
    IN  /\ lang = "C++" /\ r.phase = "open"
        /\ r.produced = r.length
        /\ \E s \in HandedBack(r) :
               Update(w, [r EXCEPT !.phase = "done", !.stream = finalize(s)])

\* protobuf refuses a message only before it writes; Push returns false.
Refuse(w) ==
    LET r == writers[w]
    IN  /\ lang = "C++" /\ r.phase = "open"
        /\ ~ r.stream.next_called
        /\ Update(w, [r EXCEPT !.phase = "done", !.failed = TRUE])

-----------------------------------------------------------------------------
CreateWriter(w, length) ==
    /\ lang = "C#"
    /\ Start(w, length, TxWriter(Coord(TakenId), [k \in 1..MaxP |-> Garbage]))

\* The serialiser asks for a span, writes n bytes into it and advances; if the
\* callback throws, Advance has only added to the fill.  A callback that throws is
\* taken not to have sent its frame; one that had would see the same slice again
\* from Dispose, marked eop.
Write(w, hint, n, throws) ==
    LET r == writers[w]
        t == GetSpan(r.stream, hint)
        u == [t EXCEPT !.payload = Overwrite(@, t.fill, Piece(r.produced, n))]
    IN  /\ lang = "C#" /\ r.phase = "open" /\ ~ r.failed
        /\ n <= Room(t) /\ r.produced + n <= r.length
        /\ throws => t.fill + n = MaxP
        /\ Update(w, [r EXCEPT !.produced = @ + n, !.failed = throws,
                               !.stream = IF throws THEN AddFill(u, n) ELSE Advance(u, n)])

\* The end of the using block, reached with the message written or by an
\* exception of the serialiser or of the callback.
DisposeWriter(w) ==
    LET r == writers[w]
    IN  /\ lang = "C#" /\ r.phase = "open"
        /\ Update(w, [r EXCEPT !.phase = "done", !.failed = @ \/ r.produced < r.length,
                               !.stream = Dispose(@)])

-----------------------------------------------------------------------------
CppNext(w) ==
    \/ \E length \in Messages, size \in Buffers : Push(w, length, size)
    \/ FillBuffer(w) \/ Return(w) \/ Refuse(w)

CsNext(w) ==
    \/ \E length \in Messages : CreateWriter(w, length)
    \/ \E hint \in Hints, n \in 0..MaxP, throws \in BOOLEAN : Write(w, hint, n, throws)
    \/ DisposeWriter(w)

Next == \E w \in Writers : CppNext(w) \/ CsNext(w)

Spec == Init /\ [][Next]_vars

-----------------------------------------------------------------------------
Started == {w \in Writers : writers[w].phase # "idle"}

Frames(w) == writers[w].stream.frames
Header(frame) == mp_header_unpack(frame.header)

Phase(w) ==
    IF writers[w].phase # "done" THEN writers[w].phase
    ELSE IF Frames(w) = <<>> THEN "dropped" ELSE "ended"

Abstract == INSTANCE PackageSender WITH
    nextId <- TakenId,
    sends  <- [w \in Writers |->
                  [phase   |-> Phase(w), id |-> writers[w].id,
                   headers |-> [k \in DOMAIN Frames(w) |-> Frames(w)[k].header]]]

\* Bytes of the message in a frame, as a receiver counts them, and in all frames
\* when each begins where the receiver puts it.
Size(frame) == Header(frame).slice_payload_size
Carried(w) ==
    IF Frames(w) = <<>> THEN 0
    ELSE (Len(Frames(w)) - 1) * MaxP + Size(Frames(w)[Len(Frames(w))])

\* The package Slicing makes of the message.
Package(w) ==
    LET r == writers[w]
    IN  [id |-> r.id, sender |-> Sender, full |-> r.length \div MaxP, rest |-> r.length % MaxP,
         style |-> IF lang = "C++" THEN "FullEop" ELSE "EmptyEop"]

\* Cursors within their types; a C# writer never holds a full slice unless the
\* callback threw, and written of a C++ stream never exceeds its buffer.
TypeOK ==
    /\ counter \in PackageIds
    /\ \A w \in Started :
           LET s == writers[w].stream
           IN  /\ s.cursor \in Coordinates
               /\ lang = "C++" => s.written \in 0..Len(s.payload_buf)
               /\ lang = "C#" => s.fill \in 0..(IF writers[w].failed THEN MaxP ELSE MaxP - 1)

\* Two messages in the making never share a package id, which is all that
\* keeps their slices apart at a receiver.
DistinctIds ==
    \A v, w \in Started : v # w => writers[v].id # writers[w].id

\* The frames carry a prefix of the message, each the bytes of the place where
\* the receiver puts them, without a gap and with nothing of what the buffer held
\* before, and at the end every byte the serialiser produced, however it asked
\* for buffers and also when it failed.
CarriesMessage ==
    \A w \in Started :
        /\ \A k \in DOMAIN Frames(w) :
               LET f == Frames(w)[k]
               IN  /\ SubSeq(f.payload, 1, Size(f)) = Piece((k - 1) * MaxP, Size(f))
                   /\ k < Len(Frames(w)) => Size(f) = MaxP
        /\ Carried(w) <= writers[w].produced
        /\ writers[w].phase = "done" => Carried(w) = writers[w].produced

\* A message that did not fail is on the link as Slicing says, and so within
\* what the theorems about the receiver cover: full slices numbered from 0 and
\* an end that is the last full slice in C++ and an empty one in C#.
FramesAreSlices ==
    \A w \in Started :
        LET r == writers[w]
        IN  r.phase = "done" /\ ~ r.failed /\ r.length > 0 =>
                [k \in DOMAIN Frames(w) |-> Frames(w)[k].header]
                    = [k \in 1..(LastSlice(Package(w)) + 1) |-> HeaderBytes(Package(w), k - 1)]

\* Whatever the two interfaces are asked for, and however the threads
\* interleave, an encoder does what PackageSender promises.
ImplementsSender == Abstract!Spec

\* "If not full, sending is complete" (README.md:22): a slice that is not full
\* ends its package.
ShortMeansEnd ==
    \A w \in Started : \A k \in DOMAIN Frames(w) :
        Header(Frames(w)[k]).slice_payload_size < MaxP => Header(Frames(w)[k]).eop = 1
=============================================================================

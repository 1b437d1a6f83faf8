------------------------------ MODULE TxStream ------------------------------
(***************************************************************************)
(* A sending stream (core/customdata-stream-tx.c) fed in chunks of any     *)
(* size, over a downstream that does what every user of the stream does:   *)
(* it collects the data pushed and, on a header, emits header and data as  *)
(* one frame.  A byte is its position in the package.                      *)
(***************************************************************************)
EXTENDS StreamTx, Slicing

CONSTANTS
    MaxChunk,   \* bound: bytes in one mp_tx_stream_feed call
    MaxBytes    \* bound: bytes in one package

ASSUME BoundAssumption == MaxChunk \in Nat /\ MaxBytes \in Nat

VARIABLES
    stream,     \* mp_tx_stream_t: cursor and fill
    held,       \* data the downstream has collected for the next frame
    frames,     \* frames emitted for the current package
    fed,        \* bytes of the current package fed so far
    final       \* mp_tx_stream_finalize has been called for it

vars == <<stream, held, frames, fed, final>>

Start(id) == [cursor |-> [sender_id |-> 3, package_id |-> id, offset |-> 0], fill |-> 0]

\* The data the downstream has when push k is taken: a push with a header
\* empties it, so what was held goes with the first one.
Collected(pushes, k) == IF k = 1 THEN held \o pushes[1].data ELSE pushes[k].data

\* The pushes of a call that end a frame: all, or all but the last.
Ending(pushes) ==
    IF Len(pushes) > 0 /\ pushes[Len(pushes)].header = NoHeader
    THEN Len(pushes) - 1 ELSE Len(pushes)

\* What the downstream holds and has emitted after a call.
AfterPushes(pushes) ==
    [held   |-> IF pushes = <<>> THEN held
                ELSE IF Ending(pushes) = Len(pushes) THEN <<>>
                ELSE Collected(pushes, Len(pushes)),
     frames |-> frames \o [k \in 1..Ending(pushes) |->
                              [header |-> mp_header_pack(pushes[k].header),
                               data   |-> Collected(pushes, k)]]]

Take(call) ==
    LET down == AfterPushes(call.pushes)
    IN  stream' = call.stream /\ held' = down.held /\ frames' = down.frames

-----------------------------------------------------------------------------
Init ==
    /\ stream = Start(0)
    /\ held = <<>> /\ frames = <<>> /\ fed = 0 /\ final = FALSE

\* A chunk of n bytes: count, a size_t, is passed on as a uint16_t, and what it
\* does not count of a chunk of U16 bytes or more is dropped.
Feed(n) ==
    /\ ~ final
    /\ fed + n <= MaxBytes
    /\ Take(mp_tx_stream_feed(stream, Piece(fed, n % U16)))
    /\ fed' = fed + n
    /\ UNCHANGED final

Finalize ==
    /\ ~ final
    /\ Take(mp_tx_stream_finalize(stream))
    /\ final' = TRUE
    /\ UNCHANGED fed

\* The owner of the stream takes the next package id and offset 0, as
\* tools/tx.c does after finalize.
NewPackage ==
    /\ final
    /\ stream' = [stream EXCEPT !.cursor.package_id = (@ + 1) % U8, !.cursor.offset = 0]
    /\ held' = held /\ frames' = <<>> /\ fed' = 0 /\ final' = FALSE

Next == NewPackage \/ Finalize \/ \E n \in 0..MaxChunk : Feed(n)

Spec == Init /\ [][Next]_vars

-----------------------------------------------------------------------------
\* The package being sent, had it ended here.
Sent == [id |-> stream.cursor.package_id, sender |-> 3, full |-> fed \div MaxP,
         rest |-> fed % MaxP, style |-> "EmptyEop"]

Frame(p, i) == [header |-> HeaderBytes(p, i), data |-> Piece(i * MaxP, PayloadSize(p, i))]

\* Cursor and fill within their types, and never a full slice held back: fill
\* leaves mp_tx_stream_feed below the payload size.
TypeOK ==
    /\ stream.cursor \in Coordinates
    /\ stream.fill \in 0..(MaxP - 1)
    /\ fed \in 0..MaxBytes
    /\ final \in BOOLEAN

\* Emitted frames that are full, and the bytes behind them: held by the
\* downstream or, after finalize, in the last frame.
FullFrames == IF final THEN Len(frames) - 1 ELSE Len(frames)
Rest == IF final THEN frames[Len(frames)].data ELSE held

\* However the package is cut into chunks of fewer than U16 bytes, the bytes in the
\* emitted frames
\* followed by the rest are the bytes fed, none lost, repeated or out of order,
\* each frame is full but the one of finalize, and the stream's fill agrees
\* with what the downstream holds.
NothingLost ==
    /\ \A k \in 1..FullFrames : frames[k].data = Piece((k - 1) * MaxP, MaxP)
    /\ Len(Rest) < MaxP
    /\ Rest = Piece(FullFrames * MaxP, Len(Rest))
    /\ fed = FullFrames * MaxP + Len(Rest)
    /\ Len(held) = stream.fill

\* A finalized package is on the wire as Slicing says, whatever the chunks:
\* slices numbered from 0, all full but the last, which alone is marked eop.
FramesAreSlices ==
    final /\ SafePackage(Sent) =>
        frames = [k \in 1..(LastSlice(Sent) + 1) |-> Frame(Sent, k - 1)]

\* No receiver sees an early end: before finalize every emitted frame is full
\* and unmarked, the two signs by which mp_rx_calc_slice_step ends a package.
NoEarlyEnd ==
    ~ final => \A k \in DOMAIN frames :
        LET h == mp_header_unpack(frames[k].header)
        IN  h.eop = 0 /\ h.slice_payload_size = MaxP
=============================================================================

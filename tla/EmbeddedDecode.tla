--------------------------- MODULE EmbeddedDecode ---------------------------
(***************************************************************************)
(* The embedded decoder (embedded/customdata-embedded-decode.c): one       *)
(* reassembly state for whatever arrives, the user's payload buffer, and   *)
(* the result of the last decoding.  An instance is a record; feeding a    *)
(* frame gives the instance after the call and the bytes that pb_decode    *)
(* pulled out of the buffer.                                               *)
(*                                                                         *)
(* nanopb is external: it pulls the message in reads of any size and then  *)
(* accepts or refuses it.  The user's payload callbacks write and read one *)
(* flat buffer at coord.offset (test/embedded/test_decode_roundtrip.c).    *)
(***************************************************************************)
EXTENDS StreamRx, Deliver

\* Room for 256 slices of the largest payload, as in the test.
BufferSize == U8 * MaxP

\* mp_pb_decode_init; the buffer is the user's and holds anything.
mp_pb_decode_init(anything) ==
    [state |-> ZeroState, buffer |-> [k \in 1..BufferSize |-> anything], last_decode_ok |-> TRUE]

\* Mutant: the read does not go on in the next slice.
PullWithinSlice(buffer, termination, consumed, count) ==
    LET slice_off == mp_slice_idx_to_offset(mp_offset_to_slice_idx(consumed, MaxP), MaxP)
        take      == Min({count, termination - consumed, MaxP - (consumed - slice_off)})
    IN  SubSeq(buffer, consumed + 1, consumed + take)

\* mp_pb_slice_pull_callback: count bytes from consumed on, slice by slice, as
\* far as the message goes.
RECURSIVE mp_pb_slice_pull(_, _, _, _)
mp_pb_slice_pull(buffer, termination, consumed, count) ==
    IF count = 0 \/ consumed >= termination THEN <<>>
    ELSE LET slice_off == mp_slice_idx_to_offset(mp_offset_to_slice_idx(consumed, MaxP), MaxP)
             take      == Min({count, termination - consumed, MaxP - (consumed - slice_off)})
         IN  SubSeq(buffer, consumed + 1, consumed + take)
                 \o mp_pb_slice_pull(buffer, termination, consumed + take, count - take)

\* pb_decode over that stream, in reads of size bytes; nanopb itself stops at
\* bytes_left, which starts as the termination.
PullAll(buffer, termination, size) ==
    FoldLeft(LAMBDA pulled, j :
                 LET bytes_left == termination - (j - 1) * size
                 IN  pulled \o mp_pb_slice_pull(buffer, termination, (j - 1) * size,
                                                Min({size, bytes_left})),
             <<>>, [j \in 1..((termination + size - 1) \div size) |-> j])

\* state->termination as the callback sees it, before the state is zeroed
EndKnown(state, bytes) ==
    LET hdr == mp_header_unpack(bytes)
    IN  mp_rx_calc_slice_step(state, hdr.slice_serial, hdr.slice_payload_size,
                              MaxP, hdr.eop = 1).next_state.termination

\* mp_pb_decode_feed and mp_pb_on_event: the state is stored before the payload,
\* and the payload before the message is decoded from it.
mp_pb_decode_feed(inst, frame, size, ok) ==
    LET call     == mp_rx_stream_feed(inst.state, frame.header)
        end      == EndKnown(inst.state, frame.header)
        payload  == SubSeq(frame.payload, 1, call.payload_size)
        buffer   == IF call.notify /\ call.payload_size > 0
                    THEN Overwrite(inst.buffer, call.coord.offset, payload) ELSE inst.buffer
        complete == call.notify /\ call.e = "COMPLETE"
    IN  [inst |-> [state          |-> IF call.notify THEN call.stored ELSE inst.state,
                   buffer         |-> buffer,
                   last_decode_ok |-> IF complete THEN ok ELSE inst.last_decode_ok],
         complete |-> complete,
         pulled   |-> IF complete THEN PullAll(buffer, end, size) ELSE <<>>]
=============================================================================

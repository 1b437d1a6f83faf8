------------------------------ MODULE StreamRx ------------------------------
(***************************************************************************)
(* mp_rx_stream_feed (core/customdata-stream-rx.c): the glue between the   *)
(* pure slice step, the coordinator that stores the state and the          *)
(* downstream callback.  It is one call on one thread ("the same instance  *)
(* is not concurrent", stream-rx.h:91), so it is one step.                 *)
(***************************************************************************)
EXTENDS MPRx

\* Mutant: the state of a complete package is kept.
FeedWithoutReset(old_state, bytes) ==
    LET hdr  == mp_header_unpack(bytes)
        step == mp_rx_calc_slice_step(old_state, hdr.slice_serial,
                                      hdr.slice_payload_size, MaxP, hdr.eop = 1)
    IN  [notify        |-> step.e # "DUPLICATE",
         stored        |-> step.next_state,
         e             |-> step.e,
         coord         |-> mp_rx_header_to_coordinate(TU, hdr),
         old_watermark |-> old_state.watermark,
         watermark     |-> step.next_state.watermark,
         payload_size  |-> hdr.slice_payload_size]

\* Mutant: downstream is told to flush from the start each time.
FeedFromZero(old_state, bytes) ==
    [FeedWithoutReset(old_state, bytes) EXCEPT
        !.stored = IF FeedWithoutReset(old_state, bytes).e = "COMPLETE" THEN ZeroState ELSE @,
        !.old_watermark = 0]

\* What one call does with a frame whose header bytes are given, old_state
\* being what state_get returned: whether the downstream is called, what
\* state_put stores and the arguments of on_event.  The return for a frame shorter
\* than a header is left out: every link here hands over whole frames.
mp_rx_stream_feed(old_state, bytes) ==
    LET hdr  == mp_header_unpack(bytes)
        step == mp_rx_calc_slice_step(old_state, hdr.slice_serial,
                                      hdr.slice_payload_size, MaxP, hdr.eop = 1)
    IN  [notify        |-> step.e # "DUPLICATE",
         stored        |-> IF step.e = "COMPLETE" THEN ZeroState ELSE step.next_state,
         e             |-> step.e,
         coord         |-> mp_rx_header_to_coordinate(TU, hdr),
         old_watermark |-> old_state.watermark,
         watermark     |-> step.next_state.watermark,
         payload_size  |-> hdr.slice_payload_size]

\* The call never returns.
FeedDiverges(old_state, bytes) ==
    LET hdr == mp_header_unpack(bytes)
    IN  StepDiverges(old_state, hdr.slice_serial, hdr.slice_payload_size,
                     MaxP, hdr.eop = 1)
=============================================================================

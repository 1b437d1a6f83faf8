-------------------------------- MODULE MPRx --------------------------------
(***************************************************************************)
(* The pure operators of the receiving direction (core/customdata-rx.h):   *)
(* the reassembly state of one package and its transition on one slice.    *)
(* The 256-bit bitmap is the set of slice ids whose bit is set.            *)
(***************************************************************************)
EXTENDS MPCommon

\* mp_rx_slice_state_t
SliceStates ==
    [bitmap : SUBSET SliceIds, received_count : Offsets,
     termination : Offsets, watermark : Offsets]

\* The zero-initialised state every package starts from.
ZeroState == [bitmap |-> {}, received_count |-> 0, termination |-> 0, watermark |-> 0]

\* mp_rx_stream_event_t
Events == {"DUPLICATE", "NEW_SLICE_OUT_OF_ORDER", "NEW_SLICE_IN_ORDER", "COMPLETE"}

\* mp_rx_calc_termination
mp_rx_calc_termination(slice_idx, payload_size, max_payload) ==
    (mp_slice_idx_to_offset(slice_idx, max_payload) + payload_size) % U16

\* mp_rx_termination_to_slice_count: termination is widened to uint32_t first.
mp_rx_termination_to_slice_count(termination, max_payload) ==
    ((termination + max_payload - 1) \div max_payload) % U16

\* mp_rx_is_complete
mp_rx_is_complete(state, max_payload) ==
    /\ state.termination > 0
    /\ state.received_count >=
           mp_rx_termination_to_slice_count(state.termination, max_payload)

\* Mutant: slices spaced by the transmission unit, header included.
CoordinateByUnit(tu, header) ==
    [sender_id  |-> header.sender_id,
     package_id |-> header.package_serial,
     offset     |-> mp_slice_idx_to_offset(header.slice_serial, tu)]

\* mp_rx_header_to_coordinate
mp_rx_header_to_coordinate(tu, header) ==
    [sender_id  |-> header.sender_id,
     package_id |-> header.package_serial,
     offset     |-> mp_slice_idx_to_offset(header.slice_serial, mp_max_payload(tu))]

-----------------------------------------------------------------------------
(***************************************************************************)
(* mp_rx_advance_watermark is a loop over wm, a uint16_t stepped by        *)
(* max_payload.  WatermarkAt is wm after k rounds and StopsAt the loop's   *)
(* two break conditions there.  wm takes at most U16 values, so a loop     *)
(* that does not break in its first U16 rounds never does.                 *)
(***************************************************************************)
WatermarkAt(state, max_payload, k) == (state.watermark + k * max_payload) % U16

\* Mutant: the known end does not stop the scan.
StopsAtGapOnly(state, max_payload, k) ==
    mp_offset_to_slice_idx(WatermarkAt(state, max_payload, k), max_payload) \notin state.bitmap

StopsAt(state, max_payload, k) ==
    LET wm == WatermarkAt(state, max_payload, k)
    IN  \/ state.termination > 0 /\ wm >= state.termination
        \/ mp_offset_to_slice_idx(wm, max_payload) \notin state.bitmap

AdvanceReturns(state, max_payload) ==
    \E k \in 0..U16 : StopsAt(state, max_payload, k)

\* Mutant: a watermark past the end is not cut back to it.
AdvanceUnclamped(state, max_payload) ==
    WatermarkAt(state, max_payload,
                CHOOSE k \in 0..U16 :
                    /\ StopsAt(state, max_payload, k)
                    /\ \A j \in 0..(k - 1) : ~ StopsAt(state, max_payload, j))

\* mp_rx_advance_watermark, when it returns.
mp_rx_advance_watermark(state, max_payload) ==
    LET rounds == CHOOSE k \in 0..U16 :
                      /\ StopsAt(state, max_payload, k)
                      /\ \A j \in 0..(k - 1) : ~ StopsAt(state, max_payload, j)
        wm == WatermarkAt(state, max_payload, rounds)
    IN  IF state.termination > 0 /\ wm > state.termination THEN state.termination ELSE wm

\* Mutant: the last piece is delivered whole.
DeliverWhole(cur_off, new_wm, max_payload) == max_payload

\* mp_rx_deliver_size: the last delivered piece is cut at new_wm.
mp_rx_deliver_size(cur_off, new_wm, max_payload) ==
    IF cur_off + max_payload > new_wm THEN new_wm - cur_off ELSE max_payload

-----------------------------------------------------------------------------
\* Mutant: only a short slice ends the package, not a full one marked eop.
RecordShortEnd(state, slice_id, payload_size, max_payload, is_eop) ==
    [bitmap         |-> state.bitmap \union {slice_id},
     received_count |-> IF payload_size = 0 /\ is_eop
                        THEN state.received_count
                        ELSE (state.received_count + 1) % U16,
     termination    |-> IF payload_size < max_payload
                        THEN mp_rx_calc_termination(slice_id, payload_size, max_payload)
                        ELSE state.termination,
     watermark      |-> state.watermark]

\* The state mp_rx_calc_slice_step has built when it reaches the watermark.
RecordSlice(state, slice_id, payload_size, max_payload, is_eop) ==
    [bitmap         |-> state.bitmap \union {slice_id},
     received_count |-> IF payload_size = 0 /\ is_eop
                        THEN state.received_count
                        ELSE (state.received_count + 1) % U16,
     termination    |-> IF payload_size < max_payload \/ is_eop
                        THEN mp_rx_calc_termination(slice_id, payload_size, max_payload)
                        ELSE state.termination,
     watermark      |-> state.watermark]

\* The assignment to next_state.watermark.
MoveWatermark(recorded, max_payload) ==
    [recorded EXCEPT !.watermark = mp_rx_advance_watermark(recorded, max_payload)]

\* Mutant: a slice right at the watermark counts as out of order.
StrictlyBelow(state, slice_id, max_payload) ==
    mp_slice_idx_to_offset(slice_id, max_payload) < state.watermark

\* The slice moves the watermark: its offset is not beyond it.
InOrder(state, slice_id, max_payload) ==
    mp_slice_idx_to_offset(slice_id, max_payload) <= state.watermark

\* mp_rx_calc_slice_step reaches the watermark loop and never leaves it.
StepDiverges(state, slice_id, payload_size, max_payload, is_eop) ==
    /\ slice_id \notin state.bitmap
    /\ InOrder(state, slice_id, max_payload)
    /\ ~ AdvanceReturns(RecordSlice(state, slice_id, payload_size, max_payload, is_eop),
                        max_payload)

\* mp_rx_calc_slice_step
mp_rx_calc_slice_step(state, slice_id, payload_size, max_payload, is_eop) ==
    LET recorded == RecordSlice(state, slice_id, payload_size, max_payload, is_eop)
        advanced == MoveWatermark(recorded, max_payload)
    IN  CASE slice_id \in state.bitmap ->
                 [e |-> "DUPLICATE", next_state |-> state]
          [] slice_id \notin state.bitmap /\ ~ InOrder(state, slice_id, max_payload) ->
                 [e |-> "NEW_SLICE_OUT_OF_ORDER", next_state |-> recorded]
          [] OTHER ->
                 [e |-> IF mp_rx_is_complete(advanced, max_payload)
                        THEN "COMPLETE" ELSE "NEW_SLICE_IN_ORDER",
                  next_state |-> advanced]
=============================================================================

-------------------------------- MODULE MPTx --------------------------------
(***************************************************************************)
(* The pure operators of the sending direction (core/customdata-tx.h).     *)
(***************************************************************************)
EXTENDS MPCommon

\* mp_tx_advance: one whole slice further, whatever the slice really carried.
mp_tx_advance(tu, current) ==
    [current EXCEPT !.offset = (@ + mp_max_payload(tu)) % U16]

\* mp_tx_make_header
mp_tx_make_header(tu, current, payload_size, eop) ==
    [package_serial     |-> current.package_id,
     slice_serial       |-> mp_offset_to_slice_idx(current.offset, mp_max_payload(tu)),
     sender_id          |-> current.sender_id % 8,
     eop                |-> IF eop THEN 1 ELSE 0,
     slice_payload_size |-> payload_size]

\* mp_tx_prepare
mp_tx_prepare(tu, current, payload_size, is_final) ==
    [header |-> mp_tx_make_header(tu, current, payload_size, is_final),
     next   |-> mp_tx_advance(tu, current)]
=============================================================================

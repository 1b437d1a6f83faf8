----------------------------- MODULE LoopForms ------------------------------
(***************************************************************************)
(* The loops of the code, round by round: the slicing loop of              *)
(* mp_tx_stream_feed, the watermark loop of mp_rx_advance_watermark and    *)
(* the delivery loop of on_event.  The other modules use closed forms of   *)
(* them, which the proofs are about; MCRxStream and MCTxStream compare the *)
(* two on what the streams are given.                                      *)
(***************************************************************************)
EXTENDS StreamTx, Deliver

Diverges == -1

\* The while (true) of mp_rx_advance_watermark; after U16 rounds wm repeats.
RECURSIVE WatermarkLoop(_, _, _)
WatermarkLoop(st, wm, rounds) ==
    IF rounds > U16 THEN Diverges
    ELSE IF st.termination > 0 /\ wm >= st.termination THEN wm
    ELSE IF mp_offset_to_slice_idx(wm, MaxP) \notin st.bitmap THEN wm
    ELSE WatermarkLoop(st, (wm + MaxP) % U16, rounds + 1)

Clamped(st, wm) == IF st.termination > 0 /\ wm > st.termination THEN st.termination ELSE wm

\* The while (off < size) of mp_tx_stream_feed.
RECURSIVE FeedLoop(_, _, _, _)
FeedLoop(s, data, off, pushes) ==
    IF off >= Len(data) THEN [stream |-> s, pushes |-> pushes]
    ELSE LET take  == Min({Len(data) - off, MaxP - s.fill})
             full  == s.fill + take = MaxP
             slice == mp_tx_prepare(TU, s.cursor, MaxP, FALSE)
         IN  FeedLoop(IF full THEN [cursor |-> slice.next, fill |-> 0]
                              ELSE [s EXCEPT !.fill = @ + take],
                      data, off + take,
                      Append(pushes, [header |-> IF full THEN slice.header ELSE NoHeader,
                                      data   |-> SubSeq(data, off + 1, off + take)]))

\* A downstream that collects data takes one push of that loop: data first, then
\* the header if there is one, which makes a frame of the data.
TakePush(down, push) ==
    LET data == down.held \o push.data
    IN  IF push.header = NoHeader
        THEN [held |-> data, frames |-> down.frames]
        ELSE [held   |-> <<>>,
              frames |-> Append(down.frames,
                                [header |-> mp_header_pack(push.header), data |-> data])]

\* The while (cur_off < state->watermark) of on_event.
RECURSIVE DeliverLoop(_, _, _)
DeliverLoop(assembly, cur_off, watermark) ==
    IF cur_off >= watermark THEN <<>>
    ELSE SubSeq(assembly, cur_off + 1, cur_off + mp_rx_deliver_size(cur_off, watermark, MaxP))
             \o DeliverLoop(assembly, cur_off + MaxP, watermark)

\* A chunk of n bytes
Data(n) == [k \in 1..n |-> k]
=============================================================================

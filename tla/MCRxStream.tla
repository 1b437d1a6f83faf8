----------------------------- MODULE MCRxStream -----------------------------
(* Small instances of RxStream: every package the scaled widths allow. *)
EXTENDS RxStream, LoopForms

\* One sender, alternating package ids; lengths and styles are not restricted.
MCPackages ==
    {[id |-> f % U8, sender |-> 5, full |-> f, rest |-> r, style |-> s] :
        f \in 0..U8, r \in 0..(MaxP - 1), s \in Styles}

\* 256 full slices, the number the bitmap has bits for.
MCAllBits ==
    {[id |-> 0, sender |-> 0, full |-> 256, rest |-> 0, style |-> "EmptyEop"]}
-----------------------------------------------------------------------------
\* On the reached state with any one bit added and any end known, so also when
\* every bit is set and the scan goes round for ever, the while loop returns
\* exactly when AdvanceReturns says so, with the watermark of
\* mp_rx_advance_watermark.
WatermarkFormIsLoop ==
    \A i \in SliceIds, t \in Offsets :
        LET st == [state EXCEPT !.bitmap = @ \union {i}, !.termination = t]
            wm == WatermarkLoop(st, st.watermark, 0)
        IN  /\ (wm # Diverges) = AdvanceReturns(st, MaxP)
            /\ wm # Diverges => Clamped(st, wm) = mp_rx_advance_watermark(st, MaxP)

\* Between the watermarks of any event the delivery loop of on_event writes
\* exactly the bytes in between, in order and none past the new watermark.
FlushFormIsLoop ==
    LET bytes == Data(U16)
        form  == Flush(bytes, event.old_watermark, event.watermark)
    IN  /\ form = DeliverLoop(bytes, event.old_watermark, event.watermark)
        /\ form = SubSeq(bytes, event.old_watermark + 1, event.watermark)
=============================================================================

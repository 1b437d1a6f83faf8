------------------------------ MODULE Deliver -------------------------------
(***************************************************************************)
(* Byte buffers, and the loop by which a receiver's on_event delivers what *)
(* lies between the old and the new watermark (tools/rx.c; the embedded    *)
(* decoder and the C++ and C# coordinators repeat it).                     *)
(***************************************************************************)
EXTENDS MPRx, SequencesExt

\* memcpy(buffer + at, data, Len(data)) as far as it is inside the buffer
Overwrite(buffer, at, data) ==
    [k \in DOMAIN buffer |-> IF k - at \in DOMAIN data THEN data[k - at] ELSE buffer[k]]

\* Mutant: an incomplete last piece is not delivered.
FlushWholePieces(assembly, old_watermark, watermark) ==
    LET Piece(off) == SubSeq(assembly, off + 1, off + MaxP)
        pieces == IF old_watermark < watermark THEN (watermark - old_watermark) \div MaxP ELSE 0
    IN  FlattenSeq([j \in 1..pieces |-> Piece(old_watermark + (j - 1) * MaxP)])

\* The loop of on_event over [old_watermark, watermark), piece by piece.
Flush(assembly, old_watermark, watermark) ==
    LET Piece(off) == SubSeq(assembly, off + 1,
                             off + mp_rx_deliver_size(off, watermark, MaxP))
        pieces == IF old_watermark < watermark
                  THEN (watermark - old_watermark + MaxP - 1) \div MaxP ELSE 0
    IN  FlattenSeq([j \in 1..pieces |-> Piece(old_watermark + (j - 1) * MaxP)])
=============================================================================

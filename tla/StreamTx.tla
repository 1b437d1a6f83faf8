------------------------------ MODULE StreamTx ------------------------------
(***************************************************************************)
(* mp_tx_stream_feed and mp_tx_stream_finalize                             *)
(* (core/customdata-stream-tx.c).  A stream is its cursor and the fill of  *)
(* the slice being built; the bytes themselves go straight to the          *)
(* downstream.                                                             *)
(*                                                                         *)
(* A call is described by the stream it leaves and the pushes it makes,    *)
(* one element per round of the loop: first the data of the round, then,   *)
(* if the round fills the slice, its header.                               *)
(***************************************************************************)
EXTENDS MPTx, Sequences

\* The header argument of a push that passes NULL.
NoHeader == [none |-> TRUE]

\* Mutant: the offset is not truncated.
CursorUntruncated(cursor, n) == [cursor EXCEPT !.offset = @ + n * MaxP]

\* n advances of the cursor.
CursorAfter(cursor, n) == [cursor EXCEPT !.offset = (@ + n * MaxP) % U16]

\* Rounds of the loop over size bytes: one per slice touched.
Rounds(fill, size) == IF size = 0 THEN 0 ELSE ((fill + size - 1) \div MaxP) + 1

\* Mutant: the first round forgets that the slice is partly filled.
TakenFromEmpty(fill, size, k) ==
    IF k = 0 THEN 0 ELSE IF k * MaxP < size THEN k * MaxP ELSE size

\* Bytes taken when k rounds are done.
Taken(fill, size, k) ==
    IF k = 0 THEN 0
    ELSE IF k * MaxP - fill < size THEN k * MaxP - fill ELSE size

\* Mutant: a chunk that ends with its slice marks it eop.
FeedMarksEnd(s, data) ==
    LET size   == Len(data)
        filled == (s.fill + size) \div MaxP
        Push(k) ==
            [header |-> IF k <= filled
                        THEN mp_tx_prepare(TU, CursorAfter(s.cursor, k - 1), MaxP,
                                           Taken(s.fill, size, k) = size).header
                        ELSE NoHeader,
             data   |-> SubSeq(data, Taken(s.fill, size, k - 1) + 1, Taken(s.fill, size, k))]
    IN  [stream |-> [cursor |-> CursorAfter(s.cursor, filled),
                     fill   |-> (s.fill + size) % MaxP],
         pushes |-> [k \in 1..Rounds(s.fill, size) |-> Push(k)]]

mp_tx_stream_feed(s, data) ==
    LET size   == Len(data)
        filled == (s.fill + size) \div MaxP
        Push(k) ==
            [header |-> IF k <= filled
                        THEN mp_tx_prepare(TU, CursorAfter(s.cursor, k - 1), MaxP, FALSE).header
                        ELSE NoHeader,
             data   |-> SubSeq(data, Taken(s.fill, size, k - 1) + 1, Taken(s.fill, size, k))]
    IN  [stream |-> [cursor |-> CursorAfter(s.cursor, filled),
                     fill   |-> (s.fill + size) % MaxP],
         pushes |-> [k \in 1..Rounds(s.fill, size) |-> Push(k)]]

\* Mutant: the last header carries the full payload size.
FinalizeFull(s) ==
    LET slice == mp_tx_prepare(TU, s.cursor, MaxP, TRUE)
    IN  [stream |-> [cursor |-> slice.next, fill |-> 0],
         pushes |-> << [header |-> slice.header, data |-> <<>>] >>]

mp_tx_stream_finalize(s) ==
    LET slice == mp_tx_prepare(TU, s.cursor, s.fill, TRUE)
    IN  [stream |-> [cursor |-> slice.next, fill |-> 0],
         pushes |-> << [header |-> slice.header, data |-> <<>>] >>]
=============================================================================

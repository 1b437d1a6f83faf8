---------------------------- MODULE CppTxStream -----------------------------
(***************************************************************************)
(* The ZeroCopyOutputStream of the C++ encoder                             *)
(* (cpp/customdata-protobuf-tx.cpp).  A stream object is a record; each    *)
(* method gives the object after the call.  frames is what the observer    *)
(* was given.                                                              *)
(***************************************************************************)
EXTENDS MPTx, Sequences

\* The constructor, over a buffer whose part behind the header is payload_buf.
TxStream(coord, payload_buf) ==
    [cursor |-> coord, payload_buf |-> payload_buf, accumulated |-> 0,
     written |-> 0, next_called |-> FALSE, frames |-> <<>>]

\* The observer gets the whole buffer; the cursor moves by one max_payload.
commit_slice(s, eop, size) ==
    LET slice == mp_tx_prepare(TU, s.cursor, size % U16, eop)
    IN  [s EXCEPT !.cursor = slice.next,
                  !.accumulated = @ + size,
                  !.frames = Append(@, [header  |-> mp_header_pack(slice.header),
                                        payload |-> s.payload_buf])]

\* TxStream::Next: a later call means that the buffer was used up.
StreamNext(s) ==
    LET committed == IF s.next_called THEN commit_slice(s, FALSE, Len(s.payload_buf)) ELSE s
    IN  [committed EXCEPT !.next_called = TRUE, !.written = 0]

\* Mutant: takes the count for what was written.
BackUpToCount(s, count) == [s EXCEPT !.written = count]

BackUp(s, count) == [s EXCEPT !.written = Len(s.payload_buf) - count]

\* Mutant: a last buffer that is full is not marked.
FinalizeMarksShortOnly(s) ==
    IF ~ s.next_called THEN s
    ELSE IF s.written > 0 THEN commit_slice(s, TRUE, s.written)
                          ELSE commit_slice(s, FALSE, Len(s.payload_buf))

finalize(s) ==
    IF ~ s.next_called THEN s
    ELSE commit_slice(s, TRUE, IF s.written > 0 THEN s.written ELSE Len(s.payload_buf))
=============================================================================

----------------------------- MODULE CsTxWriter -----------------------------
(***************************************************************************)
(* The IBufferWriter of the C# encoder (csharp/TxEncoder.cs, TxWriter).    *)
(* A writer object is a record; each method gives the object after the     *)
(* call.  frames is what the callback _next was given.                     *)
(***************************************************************************)
EXTENDS MPTx, Sequences

\* The constructor; what the pool rented out has any content.
TxWriter(coord, payload) == [cursor |-> coord, fill |-> 0, payload |-> payload, frames |-> <<>>]

\* An empty slice is emitted only as the end of a package that has begun.
EmitSlice(t, eop) ==
    LET slice == mp_tx_prepare(TU, t.cursor, t.fill, eop)
    IN  IF t.fill = 0 /\ (~ eop \/ t.cursor.offset = 0) THEN t
        ELSE [t EXCEPT !.cursor = slice.next, !.fill = 0,
                       !.frames = Append(@, [header  |-> mp_header_pack(slice.header),
                                             payload |-> t.payload])]

\* Mutant: a hint that just fits emits too.
CheckSizeNotBelow(t, size) ==
    IF MaxP - t.fill <= size THEN EmitSlice(t, FALSE) ELSE t

CheckSizeAndTryEmitSlice(t, size) ==
    IF MaxP - t.fill < size THEN EmitSlice(t, FALSE) ELSE t

\* GetSpan and GetMemory: the room is what is left behind the fill.
GetSpan(t, sizeHint) == CheckSizeAndTryEmitSlice(t, sizeHint)
Room(t) == MaxP - t.fill

\* _fill += count, before the test whether the slice is full.
AddFill(t, count) == [t EXCEPT !.fill = (@ + count) % U16]

\* Mutant: a full slice waits for the next call.
AdvanceLazily(t, count) == AddFill(t, count)

Advance(t, count) ==
    LET filled == AddFill(t, count)
    IN  IF filled.fill = MaxP THEN EmitSlice(filled, FALSE) ELSE filled

Dispose(t) == EmitSlice(t, TRUE)
=============================================================================

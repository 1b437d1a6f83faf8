----------------------------- MODULE MCTxStream -----------------------------
(* A small instance of TxStream, and its loop against the closed form. *)
EXTENDS TxStream, LoopForms

\* From every stream that is reached, with any fill and cursor, the while loop
\* over a chunk of any size makes the pushes of mp_tx_stream_feed and leaves its
\* stream, and the downstream that takes them one by one is left as AfterPushes
\* says.
FeedFormIsLoop ==
    \A n \in 0..MaxChunk :
        LET loop == FeedLoop(stream, Data(n), 0, <<>>)
        IN  /\ loop = mp_tx_stream_feed(stream, Data(n))
            /\ FoldLeft(TakePush, [held |-> held, frames |-> frames], loop.pushes)
                   = AfterPushes(loop.pushes)
=============================================================================

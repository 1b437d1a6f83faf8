------------------------------ MODULE ToolPipe ------------------------------
(***************************************************************************)
(* The command line tools: tx reads one message from stdin and writes its  *)
(* frames, rx reads frames and writes the messages; each keeps a session   *)
(* file, mapped MAP_SHARED, between its invocations (tools/tx.c, rx.c,     *)
(* session.c).                                                             *)
(*                                                                         *)
(* A byte of a message is the pair <<message number, position>>, Fresh one *)
(* of a fresh buffer.  A write of a frame is one step: what tx leaves of a *)
(* frame it could not write whole is dropped by rx at end of file.         *)
(***************************************************************************)
EXTENDS StreamTx, StreamRx, Slicing, Deliver

CONSTANTS
    Lengths,        \* the lengths of what tx finds on stdin
    FaultLengths,   \* and where something may go wrong
    Senders,        \* the values of tx -S
    StdinBuf,       \* the value of tx -b
    StdoutBlock,    \* sizeof(stdout_block), 4096 in tx.c
    MaxMessages,    \* bound: invocations of tx
    MaxFaulty       \* bound: the same where something may go wrong

\* cmd_config: the transmission unit of a session file is above
\* sizeof(mp_header_meta_t), which is 6, and fits a uint16_t.
cmd_config_accepts(mtu) == mtu > 6 /\ mtu < U16

\* tx_parse_args refuses an empty stdin buffer and keeps 3 bits of the sender.
tx_parse_args_accepts(stdin_buf_size, sender_id) ==
    stdin_buf_size \in 1..(U16 - 1) /\ sender_id \in SenderIds

\* A frame must fit stdout_block; the code does not check that.
ASSUME ToolAssumption ==
    /\ cmd_config_accepts(TU) /\ TU <= StdoutBlock
    /\ \A s \in Senders : tx_parse_args_accepts(StdinBuf, s)
    /\ Lengths \subseteq Nat /\ FaultLengths \subseteq Lengths
    /\ MaxMessages \in Nat /\ MaxFaulty \in Nat

VARIABLES
    faults,     \* whether something may go wrong; never changes
    txSession,  \* coord of the tx session file
    tx,         \* the running tx process, or NoProcess
    link,       \* frames written by tx and not yet read by rx
    rxSession,  \* state and assembly buffer of the rx session file
    rxUp,       \* an rx process is running
    out,        \* what rx wrote to stdout
    sent,       \* lengths of the messages tx was started on
    mishaps     \* history: what happened that rx cannot make good

vars == <<faults, txSession, tx, link, rxSession, rxUp, out, sent, mishaps>>

NoProcess == [running |-> FALSE]

\* An end slice without a package; a frame that died with the rx that had read it;
\* a payload that did so when its slice was recorded; an access outside the buffer.
Mishaps == {"emptyPackage", "frameLost", "payloadLost", "putOutside", "readOutside"}

Fresh == <<0, 0>>

\* rx_total_size without the session header: sized by the in-memory header,
\* two bytes longer than the packed one.
AssemblySize == U8 * (TU - 6)

\* The messages the wire format can carry, and nothing at all.  No code compares
\* a message with AssemblySize.
Fits(length) ==
    \/ length = 0
    \/ SafePackage([full |-> length \div MaxP, rest |-> length % MaxP, style |-> "EmptyEop"])

Message(m) == [k \in 1..sent[m] |-> <<m, k - 1>>]

-----------------------------------------------------------------------------
mp_session_tx_create == [sender_id |-> 0, package_id |-> 0, offset |-> 0]

mp_session_rx_create ==
    [state |-> ZeroState, assembly |-> [k \in 1..AssemblySize |-> Fresh]]

Init ==
    /\ faults \in BOOLEAN
    /\ txSession = mp_session_tx_create
    /\ rxSession = mp_session_rx_create
    /\ tx = NoProcess /\ link = <<>> /\ rxUp = FALSE
    /\ out = <<>> /\ sent = <<>> /\ mishaps = {}

\* Mutant: the fill is not reset after a frame.
PushKeepsFill(u, push) ==
    LET block == Overwrite(u.block, u.fill, push.data)
    IN  IF push.header = NoHeader
        THEN [u EXCEPT !.block = block, !.fill = @ + Len(push.data)]
        ELSE [u EXCEPT !.block = block, !.fill = @ + Len(push.data),
                       !.written = Append(@, [header |-> mp_header_pack(push.header),
                                              payload |-> block, msg |-> u.msg])]

\* push_cb: u is the user data of the stream and the output so far.  A frame is
\* the whole block, with what earlier slices left behind the payload.
push_cb(u, push) ==
    LET block == Overwrite(u.block, u.fill, push.data)
    IN  IF push.header = NoHeader
        THEN [u EXCEPT !.block = block, !.fill = @ + Len(push.data)]
        ELSE [u EXCEPT !.block = block, !.fill = 0,
                       !.written = Append(@, [header |-> mp_header_pack(push.header),
                                              payload |-> block, msg |-> u.msg])]

\* The effect of a stream call on the running tx and on the link: push_cb is
\* called for one push after the other.
Push(call) ==
    LET u[k \in 0..Len(call.pushes)] ==
            IF k = 0
            THEN [fill |-> tx.fill, block |-> tx.block, msg |-> Len(sent), written |-> link]
            ELSE push_cb(u[k - 1], call.pushes[k])
    IN  u[Len(call.pushes)]

\* cmd_tx up to its read loop
TxStart(length, sender) ==
    /\ tx = NoProcess
    /\ Len(sent) < MaxMessages
    /\ txSession' = [txSession EXCEPT !.sender_id = sender]
    /\ tx' = [running |-> TRUE,
              stream  |-> [cursor |-> txSession', fill |-> 0],
              fill    |-> 0,
              block   |-> [k \in 1..MaxP |-> Fresh],
              read    |-> 0]
    /\ sent' = Append(sent, length)
    /\ UNCHANGED <<faults, link, rxSession, rxUp, out, mishaps>>

\* One read of n bytes and the mp_tx_stream_feed it leads to
TxRead(n) ==
    /\ tx # NoProcess
    /\ tx.read + n <= sent[Len(sent)]
    /\ LET call == mp_tx_stream_feed(tx.stream, SubSeq(Message(Len(sent)), tx.read + 1, tx.read + n))
           u    == Push(call)
       IN  /\ tx' = [tx EXCEPT !.stream = call.stream, !.fill = u.fill,
                               !.block = u.block, !.read = @ + n]
           /\ link' = u.written
    /\ UNCHANGED <<faults, txSession, rxSession, rxUp, out, sent, mishaps>>

\* Mutant: the next package does not start at offset 0.
TxEofKeepsOffset ==
    /\ tx # NoProcess
    /\ tx.read = sent[Len(sent)] \/ faults
    /\ LET call == mp_tx_stream_finalize(tx.stream)
       IN  /\ link' = Push(call).written
           /\ \/ txSession' = [call.stream.cursor EXCEPT !.package_id = (@ + 1) % U8]
              \/ faults /\ UNCHANGED txSession
    /\ mishaps' = IF tx.read = 0 THEN mishaps \union {"emptyPackage"} ELSE mishaps
    /\ tx' = NoProcess
    /\ UNCHANGED <<faults, rxSession, rxUp, out, sent>>

\* read returned 0, or an error that ends the loop in the same way: finalize,
\* step to the next package and save the session, unless tx is killed before it
\* does.  Without a byte read finalize sends the end of a package all the same.
TxEof ==
    /\ tx # NoProcess
    /\ tx.read = sent[Len(sent)] \/ faults
    /\ LET call == mp_tx_stream_finalize(tx.stream)
       IN  /\ link' = Push(call).written
           /\ \/ txSession' = [call.stream.cursor EXCEPT !.package_id = (@ + 1) % U8,
                                                         !.offset = 0]
              \/ faults /\ UNCHANGED txSession
    /\ mishaps' = IF tx.read = 0 THEN mishaps \union {"emptyPackage"} ELSE mishaps
    /\ tx' = NoProcess
    /\ UNCHANGED <<faults, rxSession, rxUp, out, sent>>

\* A tx that is killed, or exits because a write fell short, leaves the frames
\* it wrote and the session it mapped.
TxKilled ==
    /\ tx # NoProcess
    /\ tx' = NoProcess
    /\ UNCHANGED <<faults, txSession, link, rxSession, rxUp, out, sent, mishaps>>

-----------------------------------------------------------------------------
\* An access outside the assembly buffer was made: what the program does then is
\* undefined, and rx is not followed any further.
Strayed == mishaps \intersect {"putOutside", "readOutside"} # {}

\* cmd_rx loads the session.
RxStart ==
    /\ ~ rxUp /\ ~ Strayed
    /\ rxUp' = TRUE
    /\ UNCHANGED <<faults, txSession, tx, link, rxSession, out, sent, mishaps>>

\* No writer is left: cmd_rx drops an incomplete block, saves and returns.
RxEof ==
    /\ rxUp
    /\ tx = NoProcess /\ link = <<>>
    /\ rxUp' = FALSE
    /\ UNCHANGED <<faults, txSession, tx, link, rxSession, out, sent, mishaps>>

\* What one frame makes rx do, mp_rx_stream_feed and on_event: the state is stored,
\* then a payload that is not empty is put, then the flush is written.
RxCall(frame) ==
    LET call     == mp_rx_stream_feed(rxSession.state, frame.header)
        data     == IF call.notify THEN SubSeq(frame.payload, 1, call.payload_size) ELSE <<>>
        assembly == Overwrite(rxSession.assembly, call.coord.offset, data)
        reads    == /\ call.notify /\ call.old_watermark < call.watermark
                    /\ call.watermark > AssemblySize
    IN  [state    |-> IF call.notify THEN call.stored ELSE rxSession.state,
         at       |-> call.coord.offset,
         put      |-> data,
         assembly |-> assembly,
         flush    |-> IF call.notify /\ ~ reads
                      THEN Flush(assembly, call.old_watermark, call.watermark) ELSE <<>>,
         reads    |-> reads,
         puts     |-> /\ call.notify /\ call.payload_size > 0
                      /\ call.coord.offset + call.payload_size > AssemblySize]

\* One round of cmd_rx on frame k of the link.  A write that fails makes on_event
\* return, and rx goes on; rx may be killed at any byte of a write.
RxFrame(k) ==
    \E call \in {RxCall(link[k])} :
        /\ rxUp
        /\ ~ FeedDiverges(rxSession.state, link[k].header)
        /\ ~ call.puts /\ ~ call.reads
        /\ \E n \in (IF faults THEN 0..Len(call.flush) ELSE {Len(call.flush)}) :
               out' = out \o SubSeq(call.flush, 1, n)
        /\ rxUp' \in (IF faults THEN BOOLEAN ELSE {TRUE})
        /\ rxSession' = [state |-> call.state, assembly |-> call.assembly]
        /\ link' = RemoveAt(link, k)
        /\ UNCHANGED <<faults, txSession, tx, sent, mishaps>>

\* The round puts a payload or reads a flush outside the assembly buffer.
RxStrays(k) ==
    \E call \in {RxCall(link[k])} :
        /\ rxUp
        /\ ~ FeedDiverges(rxSession.state, link[k].header)
        /\ call.puts \/ call.reads
        /\ rxSession' = [state |-> call.state, assembly |-> rxSession.assembly]
        /\ rxUp' = FALSE
        /\ mishaps' = mishaps \union {IF call.puts THEN "putOutside" ELSE "readOutside"}
        /\ link' = RemoveAt(link, k)
        /\ UNCHANGED <<faults, txSession, tx, out, sent>>

\* rx is killed when it has read frame k and stored nothing of it, or loops on it
\* for ever and is killed.
RxKilledReading(k) ==
    /\ rxUp
    /\ rxUp' = FALSE
    /\ mishaps' = mishaps \union {"frameLost"}
    /\ link' = RemoveAt(link, k)
    /\ UNCHANGED <<faults, txSession, tx, rxSession, out, sent>>

\* rx is killed after state_put, with n bytes of the payload put and not all.
RxKilledPutting(k) ==
    \E call \in {RxCall(link[k])} :
        /\ rxUp
        /\ ~ FeedDiverges(rxSession.state, link[k].header)
        /\ \E n \in 0..(Len(call.put) - 1) :
              /\ n = 0 \/ call.at + n <= AssemblySize
              /\ rxSession' = [state    |-> call.state,
                               assembly |-> Overwrite(rxSession.assembly, call.at,
                                                      SubSeq(call.put, 1, n))]
        /\ rxUp' = FALSE
        /\ mishaps' = mishaps \union {"payloadLost"}
        /\ link' = RemoveAt(link, k)
        /\ UNCHANGED <<faults, txSession, tx, out, sent>>

-----------------------------------------------------------------------------
TxStep == (\E n \in 1..StdinBuf : TxRead(n)) \/ TxEof

Inputs == {n \in IF faults THEN FaultLengths ELSE Lengths : Fits(n)}

TxNext ==
    \/ TxStep
    \/ /\ faults => Len(sent) < MaxFaulty
       /\ \E length \in Inputs, sender \in Senders : TxStart(length, sender)

\* Frames that are not behind a frame of an earlier message.
InPackage == {k \in DOMAIN link : link[k].msg = link[1].msg}

\* The link keeps messages apart and may reorder the frames of one.
Next ==
    \/ TxNext \/ RxStart \/ RxEof
    \/ \E k \in InPackage : RxFrame(k) \/ RxStrays(k)
    \/ faults /\ (TxKilled \/ \E k \in InPackage : RxKilledReading(k) \/ RxKilledPutting(k))

Spec == Init /\ [][Next]_vars

(***************************************************************************)
(* Weak fairness of tx, of starting rx and of rx's reading, written out:   *)
(* a running tx steps, an rx that ended is started again, and a running rx *)
(* that has a frame to read reads one, until it has strayed.               *)
(***************************************************************************)
FairSpec ==
    /\ Spec
    /\ []<>(tx = NoProcess) \/ []<><<tx # NoProcess>>_tx
    /\ []<>(rxUp \/ Strayed)
    /\ []<>(~ rxUp \/ link = <<>>) \/ []<><<Len(link') < Len(link)>>_link

-----------------------------------------------------------------------------
Bytes == FlattenSeq([m \in DOMAIN sent |-> Message(m)])

\* Every variable holds a value of its C type, and the two fill counts of a
\* running tx, the stream's and push_cb's, are the same.
TypeOK ==
    /\ txSession \in Coordinates
    /\ tx = NoProcess \/ (tx.fill = tx.stream.fill /\ tx.fill \in 0..(MaxP - 1))
    /\ rxSession.state \in SliceStates
    /\ rxSession.assembly \in Seq((0..MaxMessages) \X Nat)
    /\ sent \in Seq(Lengths) /\ Len(sent) <= MaxMessages
    /\ rxUp \in BOOLEAN /\ mishaps \subseteq Mishaps

\* Where nothing is killed or fails and no message is empty or longer than the
\* assembly, what rx wrote is a prefix of the messages one after the other:
\* however they are read, cut and reordered on the way, no stale byte of the tx
\* block or of the assembly buffer gets out, and none is repeated or skipped.
OutputIsMessages == ~ faults /\ mishaps = {} => IsPrefix(out, Bytes)

\* And when tx has ended and the link is empty, every byte sent was written.
NothingMissing ==
    ~ faults /\ mishaps = {} /\ tx = NoProcess /\ link = <<>>
        => ToSet(Bytes) \subseteq ToSet(out)

\* payload_put leaves the assembly buffer, which is sized with a longer header
\* than the one on the wire, only for a message longer than the buffer; and
\* payload_get reads outside it only when a package was empty or rx was killed
\* with a frame in hand.
PutsInBounds ==
    /\ "putOutside" \in mishaps => \E m \in DOMAIN sent : sent[m] > AssemblySize
    /\ "readOutside" \in mishaps =>
           mishaps \intersect {"emptyPackage", "frameLost", "payloadLost"} # {}

\* Unless a package was empty or rx was killed with a frame in hand, rx writes
\* bytes of messages only and none of them twice, whatever else is killed or
\* fails: a tx before or after its last frame, a read or a write, rx while it
\* writes; also when a message is mixed up with the next one of the same number.
AtMostOnce == mishaps = {} => Fresh \notin ToSet(out) /\ IsInjective(out)

\* Where nothing goes wrong, every message started is written out in the end.
AllDelivered == []<>(faults \/ mishaps # {} \/ out = Bytes)

\* Every slice that is not a duplicate is stored (rx.c:54).
EverySliceStored == "putOutside" \notin mishaps
=============================================================================

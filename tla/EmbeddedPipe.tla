---------------------------- MODULE EmbeddedPipe ----------------------------
(***************************************************************************)
(* The embedded encoder (embedded/customdata-embedded-encode.c) sending to *)
(* the embedded decoder.  nanopb calls the encoder's stream with pieces of *)
(* the message and may fail in the middle; every full slice is sent out of *)
(* one block that the user keeps from message to message.  The link keeps  *)
(* messages apart, reorders the frames of one and may repeat them while    *)
(* the message is incomplete.                                              *)
(*                                                                         *)
(* A byte of a message is the pair <<message number, position>>, Stale one *)
(* that the user's buffers held before.                                    *)
(***************************************************************************)
EXTENDS StreamTx, EmbeddedDecode, Slicing

CONSTANTS
    Lengths,        \* encoded lengths of the messages
    MaxWrite,       \* bound: bytes nanopb writes at once
    ReadSizes,      \* bytes nanopb reads at once
    MaxMessages     \* bound: calls of mp_pb_encode

ASSUME EmbeddedAssumption ==
    /\ Lengths \subseteq Nat
    /\ ReadSizes \subseteq Nat \ {0}
    /\ MaxWrite \in Nat /\ MaxMessages \in Nat

VARIABLES
    enc,        \* the encoder instance, and whether mp_pb_encode is in progress
    block,      \* payload part of the user's data block
    link,       \* frames sent and not yet consumed
    dec,        \* the decoder instance
    messages,   \* of each call of mp_pb_encode, its length and how it ended
    decoded,    \* what pb_decode pulled, message by message
    result      \* of the last mp_pb_decode_feed: what it returned, and whether
                \* pb_decode ran in it and failed

vars == <<enc, block, link, dec, messages, decoded, result>>

Stale == <<0, 0>>

\* Messages within the limits of a package; the last one of PayloadSize 0 too.
Fits(length) ==
    length = 0 \/ SafePackage([full |-> length \div MaxP, rest |-> length % MaxP,
                               style |-> "EmptyEop"])

Message(m) == [k \in 1..messages[m].length |-> <<m, k - 1>>]
Current == Len(messages)

\* Mutant: what a failed message left unsent is counted with the next.
BeginKeepsAccumulated(e, serial) ==
    [active |-> TRUE, accumulated |-> e.accumulated, bytes_written |-> 0,
     stream |-> [cursor |-> [sender_id |-> 0, package_id |-> serial, offset |-> 0], fill |-> 0]]

\* The instance when mp_pb_encode calls pb_encode; e is what the call before left.
BeginEncode(e, serial) ==
    [active |-> TRUE, accumulated |-> 0, bytes_written |-> 0,
     stream |-> [cursor |-> [sender_id |-> 0, package_id |-> serial, offset |-> 0], fill |-> 0]]

Init ==
    /\ enc = [BeginEncode([accumulated |-> 0], 0) EXCEPT !.active = FALSE]
    /\ block = [k \in 1..MaxP |-> Stale]
    /\ link = <<>>
    /\ dec = mp_pb_decode_init(Stale)
    /\ messages = <<>> /\ decoded = <<>>
    /\ result = [ok |-> TRUE, failedNow |-> FALSE]

-----------------------------------------------------------------------------
\* mp_tx_push_pipeline: u is the accumulated count, the block and the frames
\* sent.  data_put_cb leaves room for the header; send_signal_cb sends the
\* whole block.
mp_tx_push_pipeline(u, push) ==
    LET put == Overwrite(u.block, u.accumulated, push.data)
    IN  IF push.header = NoHeader
        THEN [u EXCEPT !.block = put, !.accumulated = @ + Len(push.data)]
        ELSE [u EXCEPT !.block = put, !.accumulated = 0,
                       !.sent = Append(@, [header |-> mp_header_pack(push.header),
                                           payload |-> put, msg |-> Current,
                                           seen |-> FALSE])]

\* A call of the stream made by e, the frames going out on the link
Downstream(e, call) ==
    LET u == FoldLeft(mp_tx_push_pipeline,
                      [accumulated |-> e.accumulated, block |-> block, sent |-> link],
                      call.pushes)
    IN  /\ enc' = [e EXCEPT !.stream = call.stream, !.accumulated = u.accumulated]
        /\ block' = u.block
        /\ link' = u.sent

\* mp_pb_encode up to pb_encode; the user steps the package serial.
EncodeBegin(length) ==
    /\ ~ enc.active
    /\ Current < MaxMessages
    /\ enc' = BeginEncode(enc, Current % U8)
    /\ messages' = Append(messages, [length |-> length, end |-> "open"])
    /\ UNCHANGED <<block, link, dec, decoded, result>>

\* nanopb writes n bytes: pb_ostream_pipeline, which passes on as many as a uint16_t
\* counts.
EncodeWrite(n) ==
    /\ enc.active
    /\ enc.bytes_written + n <= messages[Current].length
    /\ Downstream([enc EXCEPT !.bytes_written = @ + n],
                  mp_tx_stream_feed(enc.stream,
                      SubSeq(Message(Current), enc.bytes_written + 1,
                             enc.bytes_written + (n % U16))))
    /\ UNCHANGED <<dec, messages, decoded, result>>

\* Mutant: an empty message is ended like any other.
FinalizesEmpty(ok, empty) == ok

\* Whether mp_pb_encode finalizes the stream.
Finalizes(ok, empty) == ok /\ ~ empty

\* pb_encode returns: ok when it has written the message, not ok at any time.
EncodeEnd(ok) ==
    LET e == [enc EXCEPT !.active = FALSE]
    IN  /\ enc.active
        /\ ok => enc.bytes_written = messages[Current].length
        /\ messages' = [messages EXCEPT ![Current].end =
                            IF ok THEN "whole"
                            ELSE IF enc.stream.cursor.offset = 0 THEN "unsent" ELSE "cut"]
        /\ IF Finalizes(ok, enc.bytes_written = 0)
           THEN Downstream(e, mp_tx_stream_finalize(enc.stream))
           ELSE enc' = e /\ UNCHANGED <<block, link>>
        /\ UNCHANGED <<dec, decoded, result>>

-----------------------------------------------------------------------------
\* Frame k reaches mp_pb_decode_feed, and once more later if again; nanopb
\* reads size bytes at once and accepts the message or not.  Copies, of frames
\* seen before, do not outlive a complete message.
Receive(k, again, size, ok) ==
    LET frame == link[k]
        call  == mp_pb_decode_feed(dec, frame, size, ok)
        left  == IF again THEN [link EXCEPT ![k].seen = TRUE] ELSE RemoveAt(link, k)
    IN  /\ k \in DOMAIN link /\ frame.msg = link[1].msg
        /\ dec' = call.inst
        /\ result' = [ok |-> call.inst.last_decode_ok, failedNow |-> call.complete /\ ~ ok]
        /\ IF call.complete
           THEN /\ decoded' = Append(decoded, call.pulled)
                /\ link' = SelectSeq(left, LAMBDA f : ~ (f.seen /\ f.msg = frame.msg))
           ELSE link' = left /\ UNCHANGED decoded
        /\ UNCHANGED <<enc, block, messages>>

EncodeStep == (\E n \in 1..MaxWrite : EncodeWrite(n)) \/ \E ok \in BOOLEAN : EncodeEnd(ok)

Encode == EncodeStep \/ \E length \in {n \in Lengths : Fits(n)} : EncodeBegin(length)

Next ==
    \/ Encode
    \/ \E k \in 1..(U8 * MaxMessages), again \in BOOLEAN, size \in ReadSizes, ok \in BOOLEAN :
           Receive(k, again, size, ok)

Spec == Init /\ [][Next]_vars

\* mp_pb_encode returns, and the link delivers what is on it.
FairSpec ==
    /\ Spec
    /\ []<>(~ enc.active) \/ []<><<enc.active>>_enc
    /\ []<>(link = <<>>) \/ []<><<Len(link') < Len(link)>>_link

-----------------------------------------------------------------------------
\* A call failed after it had sent a slice: its bits are in the decoder's one
\* state, and what the slices of later messages meet there is up to them.
CutShort == \E m \in DOMAIN messages : messages[m].end = "cut"

\* The messages that were sent whole; an empty one sends nothing.
SentWhole ==
    SelectSeq([m \in DOMAIN messages |-> m],
              LAMBDA m : messages[m].end = "whole" /\ messages[m].length > 0)

\* The instances hold values of their C types, and during a call the count of
\* the pipeline is the fill of the stream, so that no put leaves the block.
TypeOK ==
    /\ enc.stream.cursor \in Coordinates
    /\ enc.accumulated \in 0..(MaxP - 1)
    /\ enc.active => enc.accumulated = enc.stream.fill
    /\ dec.state \in SliceStates
    /\ Len(dec.buffer) = BufferSize
    /\ Current <= MaxMessages

\* What pb_decode pulls are the messages that were sent whole, byte by byte and
\* in turn: whatever pieces nanopb writes and reads them in, whatever order and
\* copies they arrive in, over what earlier messages left in the block and in
\* the buffer, and whether or not empty messages, failed calls that sent nothing
\* and messages the decoder refused came before.
DecodedAreMessages ==
    ~ CutShort =>
        /\ Len(decoded) <= Len(SentWhole)
        /\ \A j \in DOMAIN decoded : decoded[j] = Message(SentWhole[j])

\* Between messages the decoder is as after init, so that none inherits bits,
\* count or termination from another: an empty message and a call that failed
\* before its first slice leave nothing on the link.
QuietIsClean ==
    ~ enc.active /\ link = <<>> /\ ~ CutShort => dec.state = ZeroState

\* Every message sent whole is handed to pb_decode in the end.
AllDecoded == []<>(CutShort \/ Len(decoded) = Len(SentWhole))

\* "true: decoding succeeded or the package is incomplete; false: protobuf
\* failed to decode" (customdata-embedded-decode.h:53)
ResultAsDocumented == ~ result.ok => result.failedNow
=============================================================================

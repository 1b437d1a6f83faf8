# TLA+ model of MasterPilot-CustomData

The library cuts a package (an encoded protobuf message) into slices that fit a
fixed transmission unit, sends each slice behind a four-byte header, and puts
the package together again from slices that arrive in any order, more than once
or not at all. The code is small and sequential. What is hard about it is that a
receiver keeps a few narrow integers, a bitmap and a buffer between calls, and
that every arrival order, every chunking of the input, every restart of a tool
and every wrap of an 8- or 16-bit counter must leave them consistent.

Source paths below are relative to `src/` of this workspace, where the
repository lies (so the repository's `src/core` is `src/src/core`).

## 1. Inventory

| Component | Code | State it keeps | Operations |
| --- | --- | --- | --- |
| Wire header, arithmetic | `core/customdata-common.h` | none | pack and unpack a header, payload size, slice id <-> offset |
| Sending functions | `core/customdata-tx.h` | none (cursor passed by value) | advance cursor, make header, prepare slice |
| Receiving functions | `core/customdata-rx.h` | none (`mp_rx_slice_state_t` passed by value) | slice step, watermark scan, completion, delivery size |
| Receiving stream | `core/customdata-stream-rx.*` | none of its own: `state_get`, `state_put` of a coordinator | `mp_rx_stream_feed` |
| Sending stream | `core/customdata-stream-tx.*` | cursor, fill of the slice being built | `mp_tx_stream_feed`, `mp_tx_stream_finalize` |
| Tools | `tools/*.c` | session files (tx: cursor; rx: state and assembly buffer), mapped shared | `config`, `tx`, `rx` |
| C++ decoder | `cpp/customdata-protobuf-rx.*` | a slot per sender and package id, a generation per sender | `Push` |
| C# decoder | `csharp/RxCoordinator.cs`, `RxDecoder.cs` | the same | `Decode` |
| Embedded decoder | `embedded/customdata-embedded-decode.*` | one state, one buffer, result of the last package | init, feed, pull callback |
| Embedded encoder | `embedded/customdata-embedded-encode.*` | a stream and a fill count, set anew by each call; the user's data block | `mp_pb_encode` |
| C++ encoder | `cpp/customdata-protobuf-tx.*` | an atomic package counter; per `Push` a cursor, what was written and the caller's buffer | `Push`; of its stream `Next`, `BackUp`, `finalize` |
| C# encoder | `csharp/TxEncoder.cs` | a package counter, incremented atomically; per writer a cursor, a fill and a rented buffer | `CreateWriter`; of a writer `GetSpan`, `GetMemory`, `Advance`, `Dispose` |
| FFI, schemas, packaging | `core/customdata-ffi.c`, `csharp/binding-ext`, `proto`, `nix`, `cmake` | none | none of their own |

**How they interact.** Everything is a call on one thread, but that several threads
may use one C++ or C# encoder. A producer calls
`mp_tx_stream_feed`, which calls the downstream's push with data and, when a
slice is full, with its header; the frames cross a link that belongs to nobody
here (a radio, a pipe); a consumer hands each frame to `mp_rx_stream_feed`, which
asks the coordinator for the state, runs the pure step, stores the state and
calls `on_event` with the old and the new watermark; the callback stores the
payload and flushes what lies between them. The embedded encoder puts nanopb's
output stream in front of `mp_tx_stream_feed`; the embedded decoder lets nanopb
pull the message out of the user's buffer when COMPLETE comes. The C++ and C#
encoders and decoders call the pure functions themselves; what drives the
encoders is the protocol of the serialiser's output interface. The two tools are
separate processes that meet at a pipe and survive their own end in a session
file.

**What is hard.** Concurrency is in the link (reordering, copies, loss, slices of
different packages crossing), between the processes of the tools, and in the
package counter of the C++ and C# encoders. Failure is a tool killed between two
stores into a mapped file or with a frame in hand, a read or write that fails, a serialiser or callback
that fails when part of a package has been sent. There is no timeout and no retransmission: incomplete packages
are dropped only by the generation clock of the slot decoders. The numeric edges
are the 8-bit slice id, the 8-bit package id and generation, the 16-bit offset
and watermark, a termination of 0 that means "unknown", and the empty last slice
of a package whose length is a multiple of the payload size.

**What makes each part correct.**

- Header: unpacking inverts packing for every header whose fields fit.
- Receiver: its state depends on which slices arrived and not on their order;
  COMPLETE comes exactly with the last missing slice, when all bytes are flushed;
  the watermark scan ends; a complete package leaves nothing behind.
- Sender: frames depend on the bytes and not on how they were chunked; no byte
  is lost or repeated; nothing looks like the end of the package too early.
- Tools: stdout of rx is the messages, one after the other, whatever is
  reordered within a message, wherever reads are cut, and over restarts of rx;
  with failed reads and writes, a tx killed anywhere and an rx killed while it
  writes, no foreign byte and no byte twice; no access outside the assembly buffer
  for a message that fits it.
- Encoders: whatever buffers the serialiser asks for and however it hands them
  back, the frames carry the message and nothing else, cut as every receiver
  expects; messages made at the same time have different package ids.
- Embedded decoder: what nanopb pulls is the message, over whatever earlier ones
  left in the buffer, and a message leaves no bit behind.
- Slot decoders: what the observer gets is one message, whole; a message all of
  whose slices arrive is observed.

`PROJECT.json` lists the hazards one by one, at the line where each bites.

## 2. Modules

| Module | Models | Extends |
| --- | --- | --- |
| `MPCommon` | `customdata-common.h`: widths, header bytes, conversions with their truncation | |
| `MPTx` | `customdata-tx.h` | `MPCommon` |
| `MPRx` | `customdata-rx.h` | `MPCommon` |
| `Slicing` | vocabulary: what slices a package consists of (not code; the sender is checked against it) | `MPCommon` |
| `Arrivals` | vocabulary: which slices of a package a reassembly state records | `MPRx`, `Slicing` |
| `StreamTx` | `customdata-stream-tx.c` as functions: a call gives the stream it leaves and its pushes | `MPTx` |
| `StreamRx` | `customdata-stream-rx.c` as a function: a call gives what is stored and what `on_event` is told | `MPRx` |
| `TxStream` | a sending stream fed in chunks, over a downstream that collects frames (the embedded encoder's pipeline) | `StreamTx`, `Slicing` |
| `RxStream` | a receiving stream over a one-state coordinator and a link | `StreamRx`, `Arrivals` |
| `Reassembly` | abstract specification of a receiver: no bitmap, no watermark, no termination | `Slicing` |
| `Deliver` | the bytes of `payload_put` and of the flush loop of `on_event` | |
| `LoopForms` | the three loops of the code and the downstream of a sending stream, round by round, to be compared with their closed forms | `StreamTx`, `Deliver` |
| `ToolPipe` | tx and rx processes, session files, link, empty and too long inputs, kills, failed reads and writes; composes the two streams | `StreamTx`, `StreamRx`, `Slicing`, `Deliver` |
| `EmbeddedDecode` | `customdata-embedded-decode.c` as functions of the instance: feed, `on_event`, the pull callback | `StreamRx`, `Deliver` |
| `EmbeddedPipe` | `customdata-embedded-encode.c`, a link, and the embedded decoder; composes `StreamTx` and `EmbeddedDecode` | both, `Slicing` |
| `CppTxStream` | the `ZeroCopyOutputStream` of the C++ encoder as functions of the object | `MPTx` |
| `CsTxWriter` | the `IBufferWriter` of the C# encoder, likewise | `MPTx` |
| `PackageSender` | abstract specification of an encoder: no buffer, fill or cursor | `MPCommon` |
| `Encoders` | an encoder object of either language used by several threads, with their serialisers | `CppTxStream`, `CsTxWriter`, `Slicing`, `Deliver` |
| `SlotDecoder` | C++ and C# decoders with the generation clock | `MPRx`, `Slicing` |
| `MPRxProofs` | lemmas: header round trip, scan, conversions between ids and offsets | `StreamRx`, `Slicing` |
| `SliceStepProofs` | lemmas: what the pure step of a receiver does to the state of a set of slices, and to a state in which slices of several packages are mixed (`MixedState`) | `Arrivals`, `MPRxProofs` |
| `SlicingProofs` | lemmas: pieces of a package, the headers a sender makes, the rounds of `mp_tx_stream_feed` | `StreamTx`, `MPRxProofs` |
| `RxStreamProofs`, `SlotDecoderProofs` | theorems about the receivers | the component, `SliceStepProofs` |
| `TxStreamProofs`, `EncodersProofs` | theorems about the senders | the component, `SlicingProofs` |
| `ToolPipeProofs` | theorems about the tools, both streams and the link between them | `ToolPipe`, `SlicingProofs`, `SliceStepProofs` |
| `MCRxStream`, `MCTxStream`, `MCSlotDecoder` | packages of the small instances; closed forms against loops | the stream or decoder, `LoopForms` |

**Constants.** `U8` and `U16` are the numbers of values of `uint8_t` and
`uint16_t`, `TU` the transmission unit. The code has 256, 65536 and any unit that
leaves room for a payload (`WidthAssumption`). The runs scale the first two down so that
the wraps happen within a few slices; every truncation in the code is a `%` in
the model. The header keeps its real layout (4 bytes; 3 bits of sender, 1 of
eop, 12 of size) in every instance.

**State and code.** `mp_rx_slice_state_t` is a record with the fields of the
struct; its 256-bit bitmap is a set of slice ids. A header is a record, what
crosses the link is the four packed bytes. In `RxStream` `state` is what the
coordinator holds, `event` the arguments of the last `on_event`, `released` the
sum of what the callback was told to flush, and `hung` says that the call in
progress never returns. `pkg` and `got` belong to the link. In `TxStream` `stream` is
`mp_tx_stream_t`, `held` and `frames` are the downstream's. In `ToolPipe` a byte
is a pair of message and position, so that a stale byte is seen as what it is;
`tx` is the process (stream, block, fill, bytes read), `txSession` and
`rxSession` are the files, and `mishaps` is a history of what happened that rx
cannot make good: an end slice without a package, a frame that died with the rx
that had read it, the same when its slice had been recorded, a put or a read
outside the assembly buffer. In `SlotDecoder` `slots` and `meta` are the
decoder's tables (`meta` starts with any values: the C++ member is not
initialised), `flights` the link's. In `Encoders` `counter` is
`_current_package_id` and each of `writers` is the stream or writer object of one
call, with how much of its message the serialiser has produced. C++ takes the
counter before the increment and C# after it (`TakenId`), so the C# encoder starts
at 1; any start is allowed. In `EmbeddedPipe` `enc` and `dec` are the
instances, `block` the data block behind `data_put_cb`, `messages` and `decoded`
what was to be sent and what nanopb pulled, `result` what the last feed
returned.

**Atomicity.** A call of the library is one step; the header of the receiving
stream says that an instance is not used concurrently. In `ToolPipe` a read with
the feed it leads to is one step of tx, and a frame is one step of rx, unless one
of them is killed: tx between two reads (which leaves on the link what a kill between
two frames of a feed does, with shorter reads), or after its last frame and before it
saves the session (`TxEof`); rx with a frame read and nothing stored
(`RxKilledReading`), after `state_put` with any part of the payload put
(`RxKilledPutting`), or after any byte written (`RxFrame`). An access outside the
assembly buffer ends the modelled life of rx (`RxStrays`): what follows is
undefined. In `Encoders`
the increment of the counter is atomic in both languages and is one step with the
making of the stream; each call of the serialiser on a stream is a step, so the
threads interleave between any two calls. In `EmbeddedPipe` each write of nanopb
is a step, and so the decoder may run while a message is half encoded.

**Loops.** The watermark scan, the feed loop, the downstream that takes its pushes
and the flush loop appear as closed forms (the smallest stop of the scan, the k-th
push of a feed, the frames after a call, the bytes between two offsets), which the
provers can handle. `LoopForms` has the loops as in the code, as RECURSIVE
operators; `MCRxStream` and `MCTxStream` compare them with the
closed forms in every state that is reached. The pull callback of the embedded
decoder is a RECURSIVE operator itself.

**Serialisers.** protobuf and nanopb are external and modelled by what they may
ask of the code. C++: `Next` is called again only when the buffer before is used
up; at the end what is left of the last buffer is handed back by one `BackUp`,
never the whole buffer; a message is refused only before the first `Next`, since
afterwards only a failing `Next` could make `SerializeToZeroCopyStream` return
false, and that of this stream never fails. C#: any sequence of spans and
advances that stays inside the spans, an exception at any point. nanopb: writes
and reads of any size, an encoding that fails at any point, a decoding that
fails.

**Safe packages.** `SafePackage` in `Slicing` states the limits within which the
receiver works; the code does not state them. `ToolPipe` adds the empty message
and leaves it to the properties to say how far they hold. A package has at least one byte
(termination 0 means unknown), slice ids fit in 8 bits, and the first multiple of
the payload size not below the length fits in 16 bits. At the default unit of 300
this is 221 full slices, 65416 bytes; at unit 60 it is 256
slices, the empty one included.
The properties of the passing runs and the theorems are about these packages;
what happens outside is a finding (below) or a hazard.

## 3. Runs

Passing runs:

- **MCRxStream** (U8 = 7, U16 = 24, TU = 7, so payloads of 3 bytes and at most 7
  slices): every package the widths allow, all arrival orders, any number of
  copies until completion, package after package. Seven slices and offsets up to
  24 reach both limits of `SafePackage`, packages that end full, empty and short.
  Invariants `NeverHangs`, `CompleteIffAllArrived`, `StateIsArrivals`,
  `EventMatchesWatermark`; refinement `ImplementsReassembly`; liveness
  `EveryPackageCompletes`. `WatermarkFormIsLoop` runs the scan on every state
  reached with any bit added and any end known, scans that wrap and scans that
  do not end included; `FlushFormIsLoop` runs the flush of every event.
- **MCTxStream** (same widths, chunks of 0..8 bytes, packages up to 30 bytes):
  all chunkings. 30 bytes go past the wrap of the offset at 24 and past slice id
  7, chunks of 8 fill up to three slices in one call. `NothingLost`,
  `FramesAreSlices`, `NoEarlyEnd`; `FeedFormIsLoop` from every stream reached.
- **MCToolPipe** (U8 = 7, U16 = 24, payloads of 3 bytes, an assembly buffer of 7,
  reads of 1..4 bytes). Each behaviour has faults or has none, chosen at the start.
  Without: three messages of 0, 1, 3 or 5 to 8 bytes, below, at and above one and two
  slices, so that later messages overwrite longer and shorter ones, the empty
  message and one that is longer than the assembly buffer; frames of one message in any
  order, rx ended and restarted at any time the pipe is empty. `OutputIsMessages`,
  `NothingMissing`, liveness `AllDelivered`, each up to a message that is empty or
  too long. With: two messages of 1 or 8 bytes (`FaultLengths`, `MaxFaulty`), tx killed
  between frames and before it saves, reads and writes failing, before the first byte
  as well, rx killed at each of the points under Atomicity. `PutsInBounds`: a put leaves the
  buffer only for a message longer than it, a read only after an empty package or a
  frame lost with its rx. `AtMostOnce`, up to the first mishap. In two messages the
  one that went wrong and the next meet in one bitmap; more are covered by the
  theorems. One sender id: rx ignores it.
- **MCSlotDecoder** (U8 = 4: four package ids; five messages; every loss of
  slices, up to every second message lost whole): ids wrap, slots are
  found again with what an incomplete message left, `meta` starts with any
  values. `ObservedIntact`, `ObservedWhenArrived`. Packages as the C++ encoder
  cuts them. `MaxJump` is half a turn of ids, so fewer than half a turn of messages
  are lost in a row; more is among the departures.
- **MCEncoders** (two threads, a C++ or a C# encoder, messages of 0 to 12 bytes at
  payloads of 3, five package ids and any start of the counter): empty messages,
  messages below, at and above one to four slices, hints of 0 and 1, a
  serialiser that fails anywhere, a callback that throws. `DistinctIds`;
  `CarriesMessage`, also for what failed; `FramesAreSlices`, which ties
  both encoders to the packages the receiver's runs and theorems are about; the
  refinement `ImplementsSender`. More threads than package ids would share ids;
  two are enough for every pair.
- **MCEmbedded** (three messages of 0, 2, 3 or 7 bytes, writes of up to 4 bytes,
  reads of 2 or 5, U8 = 5): reads and writes end inside, at and across slices, a
  7-byte message is followed by shorter ones in the same buffers, frames are
  reordered and repeated within a message, encodings fail before or after
  their first slice, decodings fail. `DecodedAreMessages`, `QuietIsClean`,
  liveness `AllDecoded`. All three are stated up to the first encoding that
  fails after it has sent a slice: see the departures.

Runs that show where the code departs from what its documents say; each names
the line in `PROJECT.json`:

- **MCRxAllBits** (real widths, unit 60): `NeverHangs` fails. 256 full slices set every bit
  before the end is known; the 8-bit slice id starts over and the scan goes
  round for ever.
- **MCSlotEmptyEop**: `ObservedIntact` fails for packages as the C# encoder cuts
  them. A slot in which only an empty last slice arrived has `received_count` 0,
  the clock does not drop it, and the next message with that id ends at the old
  length.
- **MCSlotCrossing**: `ObservedWhenArrived` fails when slices of the messages on
  the two sides of the id wrap cross: the generation advances and the earlier
  message is dropped while it is arriving.
- **MCToolLong** (one message of 9 bytes, a package the wire format can carry, and an assembly
  buffer of 8): `EverySliceStored` fails. `rx_total_size` subtracts the 6 bytes of
  the header in memory where the payload is larger by 2, and nothing compares a
  message with the buffer; at unit 100 it has 24064 bytes for 256 slices of 96.
- **MCCsHint**: `ShortMeansEnd` fails. A hint of 2 with 1 byte of room makes the
  C# writer send a slice of 2 bytes that is not the last; receivers compute
  offsets from slice ids and put what follows in the wrong place. Serialisers
  that ask with a hint of 0 or 1 never cause it.
- **MCEmbeddedResult**: `ResultAsDocumented` fails. After a message that failed to
  decode, `mp_pb_decode_feed` returns false for every slice of the next one.

Departures that have no run here:

- A copy of a slice that arrives after COMPLETE is new, the state being zero: a
  package of one slice is delivered twice, bits of a longer one stay behind. The
  bitmap is said to intercept every duplicate
  (`doc/design-philosophy.md:107`, `:163`).
- The one-state coordinators (rx tool, embedded decoder) ignore the coordinate.
  Frames of two messages that cross, or the frames of a message whose encoding
  failed after its first slice and those of the next, share one bitmap: slices
  are taken for copies and lost, or a package completes from slices of two
  (`doc/design-philosophy.md:41` says coordinates keep packages apart).
- An rx killed between `state_put` and `payload_put` leaves a bit without a
  payload; the next rx drops the slice's copy and writes what the buffer held
  (`tools/rx.c:54`). An rx killed with a frame in hand loses it, and the next
  message is taken for the rest of that package. `ToolPipe` has both kills, and
  `AtMostOnce` says what holds up to them; no document promises more.
- tx with an empty input sends an empty end slice (`tools/tx.c:88`). A termination
  of 0 means unknown, so rx does not complete the package, moves its watermark past
  slice 0 and writes a slice of what its buffer held.
  `doc/design-philosophy.md:179` promises no garbage for an empty input,
  `tools-test.sh:147` dropped the test. The model has it: without the condition
  `mishaps = {}` TLC finds `AtMostOnce` violated by a single empty message.
- When half a turn of messages (128) or more in a row is lost, the first id heard
  afterwards may not be far enough below the last one: `gc_hook`
  (`customdata-protobuf-rx.cpp:56`) misses the wrap, and a slot left incomplete a turn
  of ids before takes the new slices for its own. With `MaxJump = 3` and
  `MaxMessages = 6` in `MCSlotDecoder` TLC finds both of its invariants
  about messages violated.
- `Push` of the C++ encoder takes any buffer not smaller than the unit
  (`customdata-protobuf-tx.hpp:47`) and fills all of it, while the cursor counts
  payloads of the unit; frames are then not "always tu" long (line 22). With
  `Buffers = {7, 9}` TLC finds `FramesAreSlices` violated.
- `stream-rx.h:67` says of COMPLETE that `old_watermark < watermark`; with an
  empty last slice that arrives last they are equal (`EventMatchesWatermark`
  states what does hold, and the flush of the users is right with it).
- `doc/design-philosophy.md:54` says that the slice serial grows by 1 with each
  slice; above a payload of 256 bytes the 16-bit offset wraps before the 8-bit
  serial and the serial falls back to 0.
- `Dispose` of a C# writer ends the package also after an exception, so a
  truncated message arrives as a complete one. `CarriesMessage` says what holds:
  it is a prefix. A callback that throws is taken not to have sent its frame; when
  it has, `Dispose` sends the same slice a second time, marked as the end
  (`TxEncoder.cs:45`).
- `pb_ostream_pipeline` passes a `size_t` count to a `uint16_t`
  (`embedded-encode.c:15`): of a write of 65536 bytes or more the remainder is
  fed and success returned. `Feed` and `EncodeWrite` do the same; the chunks of the
  runs are shorter.

Each property of a passing run has a mutant: an operator in the module, marked
"Mutant", that changes one mapped definition as a plausible bug would, and
violates the property under the run's own configuration.

**Deadlock** is checked in `MCRxStream` and `MCTxStream`. The `MCSlot`, encoder and
embedded runs end with the last message, those of the tools when rx has made an access
outside its buffer.

**Fairness.** `RxStream!FairSpec` asks of the link that it hands over each slice of
an incomplete package at some time (`WF_got(Arrive(i))`); nothing is asked of
the receiver, which runs within the call. `ToolPipe!FairSpec` asks that a running
tx goes on (it is a loop over a blocking read), that rx is started again after
it ended (the user's part) unless it has strayed outside its buffer, and that a
running rx reads when there is a frame.
`EmbeddedPipe!FairSpec` asks that a call of `mp_pb_encode` returns and that the
link delivers what is on it. Kills and failures are never required to happen.
Nothing in the code makes a lost slice arrive: with loss no package need
complete, and no liveness is claimed.

## 4. Theorems

Checked by TLAPS from `WidthAssumption` (2..256 and 2..65536 values, a unit that
leaves room for a payload) and the typing of the other constants, with no bound on
the number of packages, lengths, chunks, senders or threads, the arrival order or the copies.
The theorems about the tools rest on `ToolAssumption` as well: the unit and the
stdin buffer are ones that `cmd_config` and `tx_parse_args` accept, and a frame fits
`stdout_block`.
Where a theorem needs more, its hypothesis has a name:

| Theorem | Says | Hypotheses |
| --- | --- | --- |
| `MPRxProofs!HeaderRoundTrip` | unpacking gives back what was packed | fields that fit their bits |
| `RxStreamProofs!TypeCorrect`, `LoopEnds`, `CompletionCorrect`, `OrderIndependence`, `EventContract` | the invariants of `MCRxStream` | |
| `RxStreamProofs!Refinement` | `RxStream` implements `Reassembly` | |
| `TxStreamProofs!TypeCorrect` | `TypeOK` of a sending stream | |
| `TxStreamProofs!EveryByteOnce`, `SlicesAsSlicing` | `NothingLost`, `FramesAreSlices` | `ChunksFit` |
| `TxStreamProofs!NoEndBeforeFinalize` | `NoEarlyEnd` | `ChunksFit`, `MaxP \in PayloadSizes` |
| `EncodersProofs!TypeCorrect`, `MessageCarried`, `SlicesAsSlicing` | `TypeOK`, `CarriesMessage`, `FramesAreSlices` of an encoder | `BuffersAreUnits`, `HintsAreSmall` |
| `EncodersProofs!IdsDistinct` | `DistinctIds` | `Writers` finite, at most `U8` |
| `EncodersProofs!SendsPackages` | `Encoders` implements `PackageSender` | `BuffersAreUnits`, `HintsAreSmall` |
| `SlotDecoderProofs!TypeCorrect` | `TypeOK` of a decoder | |
| `SlotDecoderProofs!NothingMixed`, `HandedOverWhenArrived` | `ObservedIntact`, `ObservedWhenArrived` | `EverySliceCarriesData`, `GenerationsDiffer`, `JumpsAreShort` |
| `ToolPipeProofs!ToolTypes`, `PutsStayInBounds` | `TypeOK`, `PutsInBounds` of the tools, with kills and failed reads and writes, for messages that the wire format carries and empty ones (`Fits`) | |
| `ToolPipeProofs!WritesAtMostOnce` | `AtMostOnce`, with the same | (`mishaps = {}`, in the property) |
| `ToolPipeProofs!OutputIsPrefix`, `AllIsWritten` | `OutputIsMessages`, `NothingMissing` of the tools | (`~ faults` and `mishaps = {}`, in the properties) |
| `ToolPipeProofs!ToolInvariant` | the inductive invariant behind these five | |

**The hypotheses.** Each leaves out a use of the code that it does not handle.

- `MaxP \in PayloadSizes`: a payload fits the 12 bits of `slice_payload_size`. The
  library does not check it; above 4095 a full slice looks short to the receiver.
- `ChunksFit`: a `uint16_t` counts every chunk. `pb_ostream_pipeline` does not check
  it and drops bytes of a longer one. cmd_tx reads at most 65535 bytes at a time.
- `BuffersAreUnits`: `Push` is given buffers of a transmission unit, as `TxEncoder<TU>`
  does. A larger one is among the departures.
- `HintsAreSmall`: the C# serialiser asks for spans with a hint of 0 or 1.
  `MCCsHint` shows a larger one. `IdsDistinct` needs neither of the two.
- At most `U8` writers, each of which makes one message: of 257 messages two share
  an id.
- `EverySliceCarriesData`: no package ends with an empty slice, which holds of every
  package of the C++ encoder and of those of the C# encoder that do not fill
  their last slice. `MCSlotEmptyEop` shows the others.
- `GenerationsDiffer`: a slice of every message arrives (`MaxJump = 1`), or fewer
  than `U8 * U8` messages are sent. Otherwise a slot may meet its own generation
  again, 256 turns of the package id later (a hazard, at `customdata-protobuf-rx.cpp:57`).
- `JumpsAreShort`: fewer messages in a row than half a turn of ids (128) are lost.
  Nothing in the code ensures it; beyond it `gc_hook` misses a wrap (see the departures).

The instances of `MCTxStream`, `MCEncoders` and `MCSlotDecoder` satisfy them. The
properties of the tools carry their conditions themselves: `mishaps` is a variable of
the model, so what happens before the first mishap is covered whatever comes later.

**The receiving step.** `AdvanceResult` (the scan from slice g over
bits that have a gap, or an end, at h stops at h), `RecordArrival` (recording a
slice turns the state of S into the state of S with i added; it rests on the
cardinality of a set with one element added) and `OnlyTheGapIsInOrder` (the test
`offset <= watermark` singles out the first gap) are put together in
`SliceStepProofs` into what `mp_rx_calc_slice_step` does for each of copy, slice
beyond the gap, slice at the gap, last slice, of a state that records the set S
(`ArrivalsOf`). Both kinds of receivers rest on this.

**RxStream.** None of the invariants is inductive alone: that COMPLETE comes with
the last slice depends on the count being that of the data slices in the bitmap,
that the scan ends depends on the watermark being at the first gap. `IInv` is
their conjunction together with `pkg \in SafePackages`; `ReceiveIInv` and
`NextPackageIInv` are the steps of the induction. For the refinement the mapping
is the identity on `pkg`, `got`, `released` and `completions`; a copy is a
stutter, and `ReleasedIsReleasable` shows that the watermark equals what
`Reassembly` computes from the set of arrivals.

**SlotDecoder.** What a slot holds cannot be told from the slot: its bytes may be
those of a message that was lost half-way, many turns of the package id ago. `IInv`
says of each sender which message it heard last (`Heard`), that the clock stands at
that message's generation (`ClockOK`, with `GenOf(g0, n)` the generation of message n
after a start at g0, since the clock starts with any bytes), that every slot is empty or
carries the generation of a message with its id that was heard (`Holds`), and that the
slot of a message in flight records exactly its arrivals with its own bytes (`Records`).
`GenerationsApart` shows that two messages with one id have different generations;
`PreparedNext`, that the first slice of a message therefore finds its slot dropped
to zero by `gc_clock_hook`. That is where the hypotheses are needed: the hook drops
only slots with a received count above 0, which a slot that holds an empty slice
alone does not have, and only those of another generation, which the clock must
have seen come (`ComesAround`, `ClockAdvances`). `TypeCorrect` needs none of this: a step
that returns leaves a state of its type whatever the slot held (`StepTyped`), so
it has an invariant of its own (`Typed`), for any encoder and any loss.

**TxStream.** Between calls the frames are the slices before the byte at which the
stream stands, and the bytes behind them are held (`Sending`, and `Finished` after
finalize). A call is taken apart into rounds: `PartTaken` and `PushOfRound` say what
round k of `mp_tx_stream_feed` pushes, for chunks that span any number of slices.
`TypeCorrect` again has an invariant of its own, without `ChunksFit`. `NothingLost` is stated frame by frame; together with the length it is that the
concatenation of the frames and of the held bytes is the bytes fed.

**Encoders.** `WritersOK` says of each message that it has sent the full slices before
the byte where its stream or writer stands, that the cursor is the number of frames
times the payload size, truncated, and that the buffer begins with the bytes behind
(`CppOpen`, `CsOpen`), or that its frames end with a last slice and carry all it
produced (`Over`). The two languages differ in when a full slice leaves: a C++ stream
holds it until the next call, since it may turn out to be the last, a C# writer sends
it at once and ends with what is left. The invariant has to say so, as
`0 < size <= MaxP` in C++ and `fill < MaxP` unless the callback threw in C#. Every
action is shown to be an `Opens` or a `Proceeds` of one message (`NextCases`); these two
give the invariant and, through `Sends` and `SendsIsSeen`, the refinement. For `DistinctIds` the
invariant `IdsOK` counts how many ids were taken since a message took its own: at
least one and at most as many as messages were started, so that the next id is
none of theirs.

**Tools.** The five properties follow from one inductive invariant, `IInv` of
`ToolPipeProofs`; before it was proved TLC found no violation of it on small
instances. It has two parts. `BaseOK` holds whatever happens: the types, that the
frames of the link are slices of what tx was given, or ends of empty packages
(`LinkCarries`), and that every access outside the buffer has its reason (`InBounds`).
`GoodOK` holds up to the first mishap, and is what the output rests on. It cannot be
put together from the invariants of the two streams,
because after a kill slices of two messages may share the bitmap: what rx holds is
then not the arrivals of any one package, and `ArrivalsOf` does not describe it. Its parts:

- `TxOK`: a running tx has sent n whole slices of the last message, holds r bytes of
  the next in its block, and both fill counts are r. `RoundsOfFeed` and
  `TakenByRounds` take a feed apart into its pushes, `PushPart` and `PushWhole` say
  what each does to the block and to the link.
- `LinkOK`: each frame carries the bytes of its slice; messages are in order, no
  slice is there twice, and none lies behind the last one of its message.
- `TrackOK`: a slice that has been written, and behind which more of its message is
  still on the way, is on the link or its bit is set. So rx cannot complete a
  package, and clear its bits, while a slice of the same message is missing.
- `MixedState` (in `SliceStepProofs`): watermark, count and termination fit the
  bitmap, whichever messages its bits come from; the watermark is at the first gap,
  and at most one slice is an end. `EndedAt`: once an end is known, all slices up to
  it are in the bitmap or on the link, and nothing of an earlier message is.
- `PendingOK` and `OutOK`: every slice in the bitmap at or above the watermark has the
  bytes of one message in the buffer, none of them written before and none on the way
  again; what was written is delivered and distinct. As the watermark only grows until
  the package completes and only bytes below it are written, `AtMostOnce` follows;
  up to a mishap a flush reads only what was put, so no read leaves the buffer.
  That a put stays below the end of its message, and so in a buffer that is not shorter,
  does not rest on the receiver's state at all (`PutsOfLong`) and holds after every mishap.
- `CleanRx`, only where nothing can go wrong: the output is the first c messages and
  the first g slices of the next, and the bitmap is exactly what has come of that one.
  From it `OutputIsMessages`, and with the link empty `NothingMissing`.

`FrameHolds` is the induction step of rx, over copies, slices beyond the gap, slices
that move the watermark, last slices, and every number of bytes written before a
failure or a kill. `StraysHolds` is that of an access outside the buffer,
`KilledReadingHolds` and `KilledPuttingHolds` (both by `LossHolds`) those of an rx killed
with a frame in hand; `ReadHolds`, `EofHolds`, `StartHolds` and `KilledHolds` are those
of tx. After a mishap only `BaseOK` is left to show, and rx may then be in states that no
package leads to: `StepTyped` and `CallTyped` say that it keeps its types all the same.

**Refinements.** `RxStream` implements `Reassembly` and `Encoders` implements
`PackageSender`, by `INSTANCE ... WITH`, both checked by TLC and proved. In the second
mapping the next id is `TakenId` and a sender's headers are those of its frames;
buffers, fills and what the serialiser has produced are forgotten, so a write or a
`BackUp` that sends nothing is a stutter.

**Only model-checked.** Liveness (fairness is out of the prover's reach); that the
closed forms equal the loops, `WatermarkFormIsLoop`, `FlushFormIsLoop` and
`FeedFormIsLoop` (an induction over data, with RECURSIVE operators); and the invariants
of `EmbeddedPipe`, whose pull callback is a RECURSIVE operator.

## 5. Not modelled

- Protobuf encoding and decoding: external, as said under Serialisers. A complete
  package is what the decoder's user gets.
- The C++ arena, allocation, and zero-copy views into slots.
- `cmd_config` and option parsing beyond the ranges they accept; failures of open and mmap, which end
  the process before it changes anything.
- A transmission unit above 4096 with the tools (`stdout_block` has 4096 bytes
  and the unit is not checked against it): excluded by `ToolAssumption`, listed
  as a hazard.
- In the tools: what the program does after an access outside the assembly buffer; a
  session record stored in part (a state and a coordinate are stored in one step each);
  a part of a frame left in the pipe by an rx killed while it reads it (the frame is lost
  whole, and the next rx does not start in the middle of one).
- A generation that comes around (65536 packages of one sender).
- In the slot decoders: an observer that throws, which it does before the slot is
  reset (`customdata-protobuf-rx.cpp:185`, `RxDecoder.cs:52`), and a block shorter
  than its header says, whose payload is cut to it (`customdata-protobuf-rx.cpp:130`).
- Frames shorter than a header, which `mp_rx_stream_feed` ignores
  (`customdata-stream-rx.c:12`): the links here carry whole frames.
- FFI exports, bindings, schemas, packaging: no behaviour of their own.

## 6. Plan

Done in this order: `MPCommon`, `MPTx`, `MPRx`; `StreamRx`, `Slicing`, `RxStream`,
`Reassembly` and their proofs; `StreamTx`, `TxStream`; `Deliver`, `LoopForms`;
`ToolPipe`; `SlotDecoder`; `CppTxStream`, `CsTxWriter`, `PackageSender`,
`Encoders`; `EmbeddedDecode`, `EmbeddedPipe`.

Every component with behaviour of its own is modelled, and proved about are the
two streams, the slot decoders, the encoders and the tools. What is left:

- `EmbeddedPipe`: `DecodedAreMessages` and `QuietIsClean`, after the pull callback
  (`mp_pb_slice_pull`) has a closed form of its own, compared with the loop as the
  others are. The sending half is `TxStreamProofs`, the receiving one
  `SliceStepProofs`, and the reused buffer is as in `ToolPipeProofs`.

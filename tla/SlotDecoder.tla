---------------------------- MODULE SlotDecoder -----------------------------
(***************************************************************************)
(* The decoders that keep one slot per sender and package id               *)
(* (cpp/customdata-protobuf-rx.cpp, csharp/RxCoordinator.cs and            *)
(* RxDecoder.cs), with the generation clock by which a slot left           *)
(* incomplete is dropped when the package ids have come around.            *)
(*                                                                         *)
(* A sender numbers its messages; message n has package id n % U8.  The    *)
(* link may lose slices, and whole messages, and may copy slices.  The     *)
(* payload of a slice is the number of the message it belongs to.          *)
(***************************************************************************)
EXTENDS MPRx, Slicing

CONSTANTS
    Senders,        \* the senders heard by the decoder
    Shapes,         \* [full, rest, style]: how their packages are cut
    MaxJump,        \* a message is heard at least every MaxJump messages
    MaxMessages     \* bound: messages of a sender

ASSUME DecoderAssumption ==
    /\ Senders \subseteq SenderIds
    /\ Shapes \subseteq [full : 0..U8, rest : 0..(MaxP - 1), style : Styles]
    /\ \A shape \in Shapes : SafePackage(shape)
    /\ MaxJump \in Nat \ {0}
    /\ MaxMessages \in Nat

VARIABLES
    slots,      \* Coordinator::_slots
    meta,       \* Coordinator::_sender_meta
    flights,    \* of each sender, the message before the last and the last
    last        \* what the observer was given last

vars == <<slots, meta, flights, last>>

EmptySlot == [state |-> ZeroState, data |-> [i \in SliceIds |-> -1], gen |-> 0]

Nothing == [parts |-> {}, length |-> 0, of |-> -1, expected |-> 0]

Flight(n, shape, sender) ==
    [n |-> n, arrived |-> {}, observed |-> 0,
     pkg |-> [id |-> n % U8, sender |-> sender,
              full |-> shape.full, rest |-> shape.rest, style |-> shape.style]]

-----------------------------------------------------------------------------
\* The C++ class leaves _sender_meta uninitialised.
Init ==
    /\ slots = [c \in Senders \X PackageIds |-> EmptySlot]
    /\ meta \in [Senders -> [pkg : PackageIds, gen : PackageIds]]
    /\ flights \in [Senders -> {<<f, f>> : f \in {Flight(0, shape, s) : shape \in Shapes, s \in Senders}}]
    /\ \A s \in Senders : flights[s][2].pkg.sender = s
    /\ last = Nothing

\* Mutant: the generation is not truncated to uint8_t.
GenUntruncated(m, package_id) ==
    [pkg |-> package_id,
     gen |-> IF package_id + ((U8 - 1) \div 2) < m.pkg THEN m.gen + 1 ELSE m.gen]

\* Mutant: any id that is not above the last one is a new generation.
GenEverySlice(m, package_id) ==
    [pkg |-> package_id,
     gen |-> IF package_id <= m.pkg THEN (m.gen + 1) % U8 ELSE m.gen]

\* gc_hook: the ids have come around when the new one is far below the last.
gc_hook(m, package_id) ==
    [pkg |-> package_id,
     gen |-> IF package_id + ((U8 - 1) \div 2) < m.pkg THEN (m.gen + 1) % U8 ELSE m.gen]

\* Mutant: the slot is stamped but never dropped.
ClockWithoutDrop(slot, m) == [slot EXCEPT !.gen = m.gen]

\* gc_clock_hook, part of every access to a slot
gc_clock_hook(slot, m) ==
    [slot EXCEPT !.state = IF slot.state.received_count > 0 /\ slot.gen # m.gen
                           THEN ZeroState ELSE @,
                 !.gen = m.gen]

\* RxDecoder::Impl::Push, Decode: what a slot becomes, and what is observed, by an
\* observer that does not throw.  A payload is as long as its header says.
Push(slot, hdr, n) ==
    LET step == mp_rx_calc_slice_step(slot.state, hdr.slice_serial,
                                      hdr.slice_payload_size, MaxP, hdr.eop = 1)
        data == IF hdr.slice_payload_size > 0
                THEN [slot.data EXCEPT ![hdr.slice_serial] = n] ELSE slot.data
        count == mp_rx_termination_to_slice_count(step.next_state.termination, MaxP)
    IN  IF step.e = "DUPLICATE"
        THEN [slot |-> slot, complete |-> FALSE, parts |-> {}, length |-> 0]
        ELSE [slot |-> [slot EXCEPT !.data = data,
                                    !.state = IF step.e = "COMPLETE" THEN ZeroState
                                                                     ELSE step.next_state],
              complete |-> step.e = "COMPLETE",
              parts  |-> {data[i] : i \in 0..(count - 1)},
              length |-> step.next_state.termination]

\* Slice i of flight k of sender s reaches the decoder.  A Push that never comes
\* back from the watermark loop is no step.
Arrive(s, k, i) ==
    LET f    == flights[s][k]
        hdr  == mp_header_unpack(HeaderBytes(f.pkg, i))
        m    == gc_hook(meta[s], hdr.package_serial)
        c    == <<s, hdr.package_serial>>
        slot == gc_clock_hook(slots[c], m)
        call == Push(slot, hdr, f.n)
    IN  /\ i \in SlicesOf(f.pkg)
        /\ ~ StepDiverges(slot.state, hdr.slice_serial, hdr.slice_payload_size,
                          MaxP, hdr.eop = 1)
        /\ meta' = [meta EXCEPT ![s] = m]
        /\ slots' = [slots EXCEPT ![c] = call.slot]
        /\ flights' = [flights EXCEPT ![s][k] =
                          [f EXCEPT !.arrived = @ \union {i},
                                    !.observed = IF call.complete THEN @ + 1 ELSE @]]
        /\ last' = IF call.complete
                   THEN [parts |-> call.parts, length |-> call.length,
                         of |-> f.n, expected |-> Length(f.pkg)]
                   ELSE last

\* A sender goes on to a later message; what was not delivered is lost.
Begin(s, jump, shape) ==
    LET f == flights[s][2]
    IN  /\ f.arrived # {}
        /\ f.n + jump <= MaxMessages
        /\ flights' = [flights EXCEPT ![s] = << f, Flight(f.n + jump, shape, s) >>]
        /\ UNCHANGED <<slots, meta, last>>

BeginSome == \E s \in Senders, jump \in 1..MaxJump, shape \in Shapes : Begin(s, jump, shape)

\* Messages do not overtake each other and a completed one is not repeated.
Next ==
    \/ BeginSome
    \/ \E s \in Senders, i \in SliceIds : flights[s][2].observed = 0 /\ Arrive(s, 2, i)

Spec == Init /\ [][Next]_vars

\* Slices of one message may arrive after the next has begun.
CrossNext ==
    \/ BeginSome
    \/ \E s \in Senders, k \in {1, 2}, i \in SliceIds :
           /\ flights[s][k].observed = 0
           /\ k = 2 \/ flights[s][1].n < flights[s][2].n
           /\ Arrive(s, k, i)

CrossSpec == Init /\ [][CrossNext]_vars

-----------------------------------------------------------------------------
\* The tables hold values of their C types.
TypeOK ==
    /\ \A c \in Senders \X PackageIds :
           slots[c].state \in SliceStates /\ slots[c].gen \in PackageIds
    /\ meta \in [Senders -> [pkg : PackageIds, gen : PackageIds]]

\* What the observer is given are slices of one message only, all of them, and
\* as many bytes as it has: the clock has dropped whatever an earlier message
\* with the same package id left in the slot, uninitialised meta or not.  So it
\* is while the link loses fewer messages in a row than half a turn of ids: beyond
\* that gc_hook misses that the ids have come around (README, departures).
ObservedIntact ==
    last # Nothing => last.parts = {last.of} /\ last.length = last.expected

\* A message is observed exactly when its last slice arrives, and once: the
\* clock never drops a message that is still arriving, nor takes for its slices
\* those of a message a turn of ids before, with less than half a turn lost in a row.
ObservedWhenArrived ==
    \A s \in Senders : \A k \in {1, 2} :
        LET f == flights[s][k]
        IN  f.observed = (IF f.arrived = SlicesOf(f.pkg) THEN 1 ELSE 0)
=============================================================================

------------------------------ MODULE RxStream ------------------------------
(***************************************************************************)
(* A receiving stream (core/customdata-stream-rx.c) over a coordinator     *)
(* that keeps one reassembly state, as tools/rx.c and                      *)
(* embedded/customdata-embedded-decode.c do: state_get and state_put       *)
(* ignore the coordinate.  A link delivers the slices of one package at a  *)
(* time, in any order and any number of times.                             *)
(*                                                                         *)
(* pkg and got are the link's: which package is on it and which of its     *)
(* slices have been handed to mp_rx_stream_feed at least once.  The bytes  *)
(* themselves are in ToolPipe; here downstream only counts what it is      *)
(* asked to flush.                                                         *)
(***************************************************************************)
EXTENDS StreamRx, Arrivals

CONSTANT Packages       \* the packages that senders send

ASSUME PackagesAssumption == Packages \subseteq AllPackages

VARIABLES
    state,          \* the coordinator's mp_rx_slice_state_t
    pkg, got,
    released,       \* bytes flushed downstream: sum of watermark - old_watermark
    completions,    \* COMPLETE events passed downstream for pkg
    event,          \* arguments of the last on_event call
    hung            \* mp_rx_stream_feed is looping forever

vars == <<state, pkg, got, released, completions, event, hung>>

NoEvent == [e |-> "DUPLICATE", old_watermark |-> 0, watermark |-> 0]

\* Bound: what is fed after a package is complete belongs to the next.
MaxCompletions == 1

-----------------------------------------------------------------------------
InitWith(Allowed) ==
    /\ state = ZeroState
    /\ pkg \in Allowed
    /\ got = {} /\ released = 0 /\ completions = 0 /\ event = NoEvent
    /\ hung = FALSE

\* The link hands slice i to mp_rx_stream_feed.
Feed(i) ==
    LET bytes == HeaderBytes(pkg, i)
        call  == mp_rx_stream_feed(state, bytes)
    IN  /\ ~ hung
        /\ i \in SlicesOf(pkg)
        /\ got' = got \union {i}
        /\ UNCHANGED pkg
        /\ IF FeedDiverges(state, bytes)
           THEN hung' = TRUE /\ UNCHANGED <<state, released, completions, event>>
           ELSE /\ UNCHANGED hung
                /\ IF call.notify
                   THEN /\ state' = call.stored
                        /\ event' = [e |-> call.e, old_watermark |-> call.old_watermark,
                                     watermark |-> call.watermark]
                        /\ released' = released +
                               (IF call.old_watermark < call.watermark
                                THEN call.watermark - call.old_watermark ELSE 0)
                        /\ completions' = completions + (IF call.e = "COMPLETE" THEN 1 ELSE 0)
                   ELSE UNCHANGED <<state, released, completions, event>>

-----------------------------------------------------------------------------
(***************************************************************************)
(* Spec: packages within the limits of SafePackage, and a link that has    *)
(* dropped every copy of a slice by the time its package is complete: a    *)
(* copy that came later would be a new slice, COMPLETE having zeroed the   *)
(* state.                                                                  *)
(***************************************************************************)
SafePackages == {p \in Packages : SafePackage(p)}

Init == InitWith(SafePackages)

Receive(i) == completions = 0 /\ Feed(i)

\* The sender moves on once the package is complete.
NextPackage ==
    /\ ~ hung
    /\ completions > 0
    /\ pkg' \in SafePackages
    /\ got' = {} /\ released' = 0 /\ completions' = 0 /\ event' = NoEvent
    /\ UNCHANGED <<state, hung>>

Next == NextPackage \/ \E i \in SliceIds : Receive(i)

Spec == Init /\ [][Next]_vars

\* The link's part of Receive(i): slice i of an incomplete package is handed over.
Arrive(i) ==
    /\ ~ hung /\ completions = 0
    /\ i \in SlicesOf(pkg)
    /\ got' = got \union {i}

\* A link that hands over every slice at least once.
FairSpec == Spec /\ \A i \in SliceIds : WF_got(Arrive(i))

\* Any package the senders can build, safe or not, in sending order: for
\* instances at the real widths, where all orders are too many.
OrderedNext ==
    \E i \in SliceIds \ got :
        /\ completions = 0
        /\ \A j \in SlicesOf(pkg) \ got : i <= j
        /\ Feed(i)

OrderedSpec == InitWith(Packages) /\ [][OrderedNext]_vars

-----------------------------------------------------------------------------
Abstract == INSTANCE Reassembly

\* Every variable holds a value of its C type.
TypeOK ==
    /\ state \in SliceStates
    /\ pkg \in Packages
    /\ got \subseteq SlicesOf(pkg)
    /\ released \in Nat
    /\ completions \in 0..MaxCompletions
    /\ event \in [e : Events, old_watermark : Offsets, watermark : Offsets]
    /\ hung \in BOOLEAN

\* The watermark loop of mp_rx_advance_watermark ends on every slice of a safe
\* package, whatever has arrived before: wm never wraps past the bits it has
\* already passed.
NeverHangs == ~ hung

\* mp_rx_is_complete counts slices and compares the count with a termination
\* learnt from one of them; it nevertheless fires on the last missing slice
\* and on no other, in every order of arrival and with any duplicates, when
\* every byte has been flushed, and leaves a zero state to the next package.
CompleteIffAllArrived ==
    /\ completions = (IF got = SlicesOf(pkg) THEN 1 ELSE 0)
    /\ completions = 1 => state = ZeroState /\ released = Length(pkg)

\* While a package is incomplete the stored state is a function of the set of
\* slices that arrived, not of their order: the bits are the arrivals, the
\* count is the data slices among them, the termination is known exactly when
\* the eop slice is in, and the watermark is the first gap.
StateIsArrivals ==
    completions = 0 =>
        /\ ArrivalsOf(state, pkg, got)
        /\ \E g \in SliceIds :
               /\ FirstGap(pkg, got, g)
               /\ state.watermark = g * MaxP
               /\ released = g * MaxP

\* The contract of on_event (stream-rx.h:64-67) as far as it holds: an
\* OUT_OF_ORDER event flushes nothing, an IN_ORDER event something, and a
\* COMPLETE event takes the watermark to the length of the package (but does
\* not always move it: an empty eop slice that arrives last finds it there).
EventMatchesWatermark ==
    /\ event.e = "NEW_SLICE_OUT_OF_ORDER" => event.old_watermark = event.watermark
    /\ event.e = "NEW_SLICE_IN_ORDER" => event.old_watermark < event.watermark
    /\ event.e = "COMPLETE" => event.watermark = Length(pkg) /\ released = Length(pkg)

\* The detailed receiver implements Reassembly: bytes are released exactly up
\* to the first gap, each once, and completion is reported exactly once.
ImplementsReassembly == Abstract!Spec

\* On a link that hands over every slice, every package is completed.
EveryPackageCompletes == (completions = 0) ~> (completions = 1)
=============================================================================

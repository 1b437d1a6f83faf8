--------------------------- MODULE RxStreamProofs ---------------------------
(***************************************************************************)
(* RxStream, proved for every width, transmission unit and set of          *)
(* packages: its invariants, and that it implements Reassembly.            *)
(***************************************************************************)
EXTENDS RxStream, SliceStepProofs

-----------------------------------------------------------------------------
(* mp_rx_stream_feed *)

FeedTakesStep(st, p, i) ==
    LET step == StepOn(st, p, i)
        call == mp_rx_stream_feed(st, HeaderBytes(p, i))
    IN  /\ call.notify = (step.e # "DUPLICATE")
        /\ call.stored = (IF step.e = "COMPLETE" THEN ZeroState ELSE step.next_state)
        /\ call.e = step.e
        /\ call.old_watermark = st.watermark
        /\ call.watermark = step.next_state.watermark
        /\ FeedDiverges(st, HeaderBytes(p, i)) =
               StepDiverges(st, i, PayloadSize(p, i), MaxP, i = LastSlice(p))

\* The stream takes the step of the slice that was put on the wire.
LEMMA FeedOfSlice ==
    ASSUME NEW st, NEW p \in Assemblable, NEW i \in SlicesOf(p)
    PROVE  FeedTakesStep(st, p, i)
  <1> DEFINE h == HeaderOf(p, i)
  <1>1. mp_header_unpack(HeaderBytes(p, i)) = h
    BY HeaderOfSlice
  <1>2. /\ (h.eop = 1) = (i = LastSlice(p))
        /\ h.slice_serial = i /\ h.slice_payload_size = PayloadSize(p, i)
    BY DEF HeaderOf
  <1> HIDE DEF h
  <1> QED
    BY <1>1, <1>2 DEF FeedTakesStep, StepOn, mp_rx_stream_feed, FeedDiverges

-----------------------------------------------------------------------------
(* The state machine *)

(***************************************************************************)
(* The inductive invariant.  None of its parts is inductive alone: that    *)
(* the loop ends and that completion is reported at the right slice both   *)
(* need the stored state to be determined by the arrivals, and the latter  *)
(* needs the zero state that completion leaves to the next package.        *)
(***************************************************************************)
IInv ==
    /\ TypeOK
    /\ pkg \in SafePackages
    /\ NeverHangs
    /\ CompleteIffAllArrived
    /\ StateIsArrivals
    /\ EventMatchesWatermark

\* The packages of an instance within the limits are packages within the limits.
LEMMA SafeAreAssemblable == SafePackages \subseteq Assemblable
  BY PackagesAssumption DEF SafePackages, Assemblable

\* Before its first event a stream has an event of the right type.
LEMMA NoEventType == NoEvent \in [e : Events, old_watermark : Offsets, watermark : Offsets]
  <1>1. 0 \in Offsets
    BY Widths DEF Offsets
  <1> QED
    BY <1>1 DEF NoEvent, Events

\* The invariant holds when the stream has been set up and nothing has arrived.
LEMMA InitIInv == Init => IInv
  <1> SUFFICES ASSUME Init PROVE IInv
    OBVIOUS
  <1>1. /\ state = ZeroState /\ pkg \in SafePackages /\ got = {} /\ released = 0
        /\ completions = 0 /\ event = NoEvent /\ hung = FALSE
        /\ pkg \in Assemblable
    BY SafeAreAssemblable DEF Init, InitWith
  <1>2. TypeOK
    <2>1. pkg \in Packages
      BY <1>1 DEF SafePackages
    <2>2. completions \in 0..MaxCompletions
      BY <1>1 DEF MaxCompletions
    <2> QED
      BY <1>1, <2>1, <2>2, FreshPackage, NoEventType DEF TypeOK
  <1>3. CompleteIffAllArrived
    BY <1>1, FreshPackage DEF CompleteIffAllArrived
  <1>4. StateIsArrivals
    BY <1>1, FreshPackage DEF StateIsArrivals, ZeroState
  <1>5. EventMatchesWatermark
    BY <1>1 DEF EventMatchesWatermark, NoEvent
  <1> QED
    BY <1>1, <1>2, <1>3, <1>4, <1>5 DEF IInv, NeverHangs

\* The next package starts as the first one did.
LEMMA NextPackageIInv == IInv /\ NextPackage => IInv'
  <1> SUFFICES ASSUME IInv, NextPackage PROVE IInv'
    OBVIOUS
  <1>1. completions = 1
    BY DEF IInv, NextPackage, CompleteIffAllArrived
  <1>2. state = ZeroState
    BY <1>1 DEF IInv, CompleteIffAllArrived
  <1>3. /\ state' = ZeroState /\ pkg' \in SafePackages /\ got' = {} /\ released' = 0
        /\ completions' = 0 /\ event' = NoEvent /\ hung' = FALSE
        /\ pkg' \in Assemblable
    BY <1>2, SafeAreAssemblable DEF NextPackage, IInv, NeverHangs, TypeOK
  <1>4. TypeOK'
    <2>1. pkg' \in Packages
      BY <1>3 DEF SafePackages
    <2>2. completions' \in 0..MaxCompletions
      BY <1>3 DEF MaxCompletions
    <2> QED
      BY <1>3, <2>1, <2>2, FreshPackage, NoEventType DEF TypeOK
  <1>5. CompleteIffAllArrived'
    BY <1>3, FreshPackage DEF CompleteIffAllArrived
  <1>6. StateIsArrivals'
    BY <1>3, FreshPackage DEF StateIsArrivals, ZeroState
  <1>7. EventMatchesWatermark'
    BY <1>3 DEF EventMatchesWatermark, NoEvent
  <1> QED
    BY <1>3, <1>4, <1>5, <1>6, <1>7 DEF IInv, NeverHangs

\* What handing over slice i of an incomplete package does, one case per event.
LEMMA ReceiveOutcome ==
    ASSUME IInv, NEW i \in SliceIds, Receive(i)
    PROVE  /\ pkg' = pkg /\ hung' = FALSE /\ got' = got \union {i}
           /\ completions = 0 /\ i \in SlicesOf(pkg)
           /\ \E g \in SliceIds :
                /\ FirstGap(pkg, got, g) /\ released = g * MaxP
                /\ \/ i \in got /\ UNCHANGED <<state, released, completions, event>>
                   \/ /\ i \notin got /\ i # g
                      /\ state' \in SliceStates /\ ArrivalsOf(state', pkg, got')
                      /\ state'.watermark = g * MaxP
                      /\ event' = [e |-> "NEW_SLICE_OUT_OF_ORDER",
                                   old_watermark |-> g * MaxP, watermark |-> g * MaxP]
                      /\ released' = released /\ completions' = 0
                   \/ /\ i = g /\ got' = SlicesOf(pkg)
                      /\ state' = ZeroState
                      /\ event' = [e |-> "COMPLETE",
                                   old_watermark |-> g * MaxP, watermark |-> Length(pkg)]
                      /\ released' = Length(pkg) /\ completions' = 1
                   \/ /\ i = g /\ got' # SlicesOf(pkg)
                      /\ state' \in SliceStates /\ ArrivalsOf(state', pkg, got')
                      /\ completions' = 0
                      /\ \E h \in SliceIds :
                           /\ FirstGap(pkg, got', h) /\ g < h
                           /\ state'.watermark = h * MaxP /\ released' = h * MaxP
                           /\ event' = [e |-> "NEW_SLICE_IN_ORDER",
                                        old_watermark |-> g * MaxP, watermark |-> h * MaxP]
  <1> DEFINE bytes == HeaderBytes(pkg, i)
             call  == mp_rx_stream_feed(state, bytes)
             step  == StepOn(state, pkg, i)
             S1    == got \union {i}
  <1>1. /\ completions = 0 /\ hung = FALSE /\ i \in SlicesOf(pkg)
        /\ got' = S1 /\ pkg' = pkg
    BY DEF Receive, Feed, IInv, NeverHangs, TypeOK
  <1>2. pkg \in Assemblable /\ got \in SUBSET SlicesOf(pkg) /\ state \in SliceStates
    BY SafeAreAssemblable DEF IInv, TypeOK
  <1>3. PICK g \in SliceIds : /\ FirstGap(pkg, got, g)
                              /\ state.watermark = g * MaxP /\ released = g * MaxP
    BY <1>1 DEF IInv, StateIsArrivals
  <1>4. ArrivalsOf(state, pkg, got)
    BY <1>1 DEF IInv, StateIsArrivals
  <1>5. /\ call.notify = (step.e # "DUPLICATE")
        /\ call.stored = (IF step.e = "COMPLETE" THEN ZeroState ELSE step.next_state)
        /\ call.e = step.e
        /\ call.old_watermark = state.watermark
        /\ call.watermark = step.next_state.watermark
        /\ FeedDiverges(state, bytes) =
               StepDiverges(state, i, PayloadSize(pkg, i), MaxP, i = LastSlice(pkg))
    <2>1. FeedTakesStep(state, pkg, i)
      BY <1>1, <1>2, FeedOfSlice
    <2> QED
      BY <2>1 DEF FeedTakesStep
  <1>6. Outcome(state, pkg, got, g, i)
    BY <1>1, <1>2, <1>3, <1>4, StepOutcome
  <1>7. ~ FeedDiverges(state, bytes)
    BY <1>5, <1>6 DEF Outcome
  <1> HIDE DEF bytes
  <1>8. /\ hung' = hung
        /\ ~ call.notify => UNCHANGED <<state, released, completions, event>>
        /\ call.notify =>
              /\ state' = call.stored
              /\ event' = [e |-> call.e, old_watermark |-> call.old_watermark,
                           watermark |-> call.watermark]
              /\ released' = released + (IF call.old_watermark < call.watermark
                                         THEN call.watermark - call.old_watermark ELSE 0)
              /\ completions' = completions + (IF call.e = "COMPLETE" THEN 1 ELSE 0)
    BY <1>7 DEF Receive, Feed, bytes
  <1> HIDE DEF call, step
  <1>9. g \in Nat /\ g \in SlicesOf(pkg) /\ g <= LastSlice(pkg) /\ g * MaxP \in Nat
    BY <1>2, <1>3, SliceSizes, OffsetFacts DEF FirstGap
  <1>10. CASE i \in got
    <2>1. UNCHANGED <<state, released, completions, event>>
      BY <1>5, <1>6, <1>8, <1>10 DEF Outcome, step
    <2> QED
      BY <1>1, <1>3, <1>8, <1>10, <2>1
  <1>11. CASE i \notin got /\ i # g
    <2>1. /\ call.notify /\ call.e = "NEW_SLICE_OUT_OF_ORDER" /\ state' = step.next_state
          /\ call.old_watermark = g * MaxP /\ call.watermark = g * MaxP
      BY <1>3, <1>5, <1>6, <1>8, <1>11 DEF Outcome, step
    <2>2. released' = released /\ completions' = 0
      BY <1>1, <1>3, <1>8, <1>9, <2>1
    <2>3. event' = [e |-> "NEW_SLICE_OUT_OF_ORDER",
                    old_watermark |-> g * MaxP, watermark |-> g * MaxP]
      BY <1>8, <2>1
    <2>4. /\ state' \in SliceStates /\ ArrivalsOf(state', pkg, got')
          /\ state'.watermark = g * MaxP
      BY <1>1, <1>6, <1>11, <2>1 DEF Outcome, step
    <2> QED
      BY <1>1, <1>3, <1>8, <1>11, <2>2, <2>3, <2>4
  <1>12. CASE i = g /\ S1 = SlicesOf(pkg)
    <2>1. /\ call.notify /\ call.e = "COMPLETE" /\ state' = ZeroState
          /\ call.old_watermark = g * MaxP /\ call.watermark = Length(pkg)
      BY <1>3, <1>5, <1>6, <1>8, <1>12 DEF Outcome, step
    <2>2. g * MaxP <= Length(pkg) /\ Length(pkg) \in Nat
      BY <1>2, <1>9, OffsetFacts, PackageFacts
    <2>3. released' = Length(pkg) /\ completions' = 1
      BY <1>1, <1>3, <1>8, <1>9, <2>1, <2>2
    <2>4. event' = [e |-> "COMPLETE",
                    old_watermark |-> g * MaxP, watermark |-> Length(pkg)]
      BY <1>8, <2>1
    <2> QED
      BY <1>1, <1>3, <1>8, <1>12, <2>1, <2>3, <2>4
  <1>13. CASE i = g /\ S1 # SlicesOf(pkg)
    <2>1. /\ call.notify /\ call.e = "NEW_SLICE_IN_ORDER" /\ state' = step.next_state
          /\ call.old_watermark = g * MaxP /\ call.watermark = step.next_state.watermark
      BY <1>3, <1>5, <1>6, <1>8, <1>13 DEF Outcome, step
    <2>2. PICK h \in SliceIds : /\ FirstGap(pkg, S1, h) /\ g < h
                                /\ step.next_state.watermark = h * MaxP
      BY <1>6, <1>13 DEF Outcome, step
    <2>3. h \in Nat /\ h * MaxP \in Nat /\ g * MaxP < h * MaxP
      <3>1. h \in Nat
        BY <1>2, <2>2, SliceSizes DEF FirstGap
      <3>2. h * MaxP \in Nat
        BY <3>1, MaxPFacts
      <3>3. g \in Nat /\ g < h /\ MaxP \in Nat \ {0}
        BY <1>9, <2>2, MaxPFacts
      <3>4. g * MaxP < h * MaxP
        BY <3>1, <3>3, OffsetsOrdered
      <3> QED
        BY <3>1, <3>2, <3>4
    <2>4. released' = h * MaxP /\ completions' = 0
      BY <1>1, <1>3, <1>8, <1>9, <2>1, <2>2, <2>3
    <2>5. event' = [e |-> "NEW_SLICE_IN_ORDER",
                    old_watermark |-> g * MaxP, watermark |-> h * MaxP]
      BY <1>8, <2>1, <2>2
    <2>6. state' \in SliceStates /\ ArrivalsOf(state', pkg, got')
      BY <1>1, <1>6, <1>13, <2>1 DEF Outcome, step
    <2> QED
      BY <1>1, <1>3, <1>8, <1>13, <2>1, <2>2, <2>4, <2>5, <2>6
  <1> QED
    BY <1>10, <1>11, <1>12, <1>13

\* Handing over a slice keeps the invariant.
LEMMA ReceiveIInv ==
    ASSUME IInv, NEW i \in SliceIds, Receive(i)
    PROVE  IInv'
  <1>1. /\ pkg' = pkg /\ hung' = FALSE /\ got' = got \union {i}
        /\ completions = 0 /\ i \in SlicesOf(pkg)
    BY ReceiveOutcome
  <1>2. /\ pkg \in SafePackages /\ pkg \in Packages /\ pkg \in Assemblable
        /\ got \subseteq SlicesOf(pkg) /\ got # SlicesOf(pkg)
    BY <1>1, SafeAreAssemblable DEF IInv, TypeOK, CompleteIffAllArrived
  <1>3. got' \subseteq SlicesOf(pkg)
    BY <1>1, <1>2
  <1>4. 0 \in 0..MaxCompletions /\ 1 \in 0..MaxCompletions
    BY DEF MaxCompletions
  <1>5. ASSUME NEW h \in SliceIds, NEW S, FirstGap(pkg, S, h)
        PROVE  h * MaxP \in Offsets /\ h * MaxP \in Nat /\ S # SlicesOf(pkg)
    <2>1. h \in SlicesOf(pkg) /\ h \notin S
      BY <1>5 DEF FirstGap
    <2>2. h \in Nat /\ h <= LastSlice(pkg)
      BY <1>2, <2>1, SliceSizes
    <2>3. h * MaxP \in Nat /\ h * MaxP < U16
      BY <1>2, <2>2, OffsetFacts
    <2> QED
      BY <2>1, <2>3, Widths DEF Offsets
  <1>6. Length(pkg) \in Offsets /\ Length(pkg) \in Nat
    BY <1>2, PackageFacts, Widths DEF Offsets
  <1>7. PICK g \in SliceIds :
            /\ FirstGap(pkg, got, g) /\ released = g * MaxP
            /\ \/ i \in got /\ UNCHANGED <<state, released, completions, event>>
               \/ /\ i \notin got /\ i # g
                  /\ state' \in SliceStates /\ ArrivalsOf(state', pkg, got')
                  /\ state'.watermark = g * MaxP
                  /\ event' = [e |-> "NEW_SLICE_OUT_OF_ORDER",
                               old_watermark |-> g * MaxP, watermark |-> g * MaxP]
                  /\ released' = released /\ completions' = 0
               \/ /\ i = g /\ got' = SlicesOf(pkg)
                  /\ state' = ZeroState
                  /\ event' = [e |-> "COMPLETE",
                               old_watermark |-> g * MaxP, watermark |-> Length(pkg)]
                  /\ released' = Length(pkg) /\ completions' = 1
               \/ /\ i = g /\ got' # SlicesOf(pkg)
                  /\ state' \in SliceStates /\ ArrivalsOf(state', pkg, got')
                  /\ completions' = 0
                  /\ \E h \in SliceIds :
                       /\ FirstGap(pkg, got', h) /\ g < h
                       /\ state'.watermark = h * MaxP /\ released' = h * MaxP
                       /\ event' = [e |-> "NEW_SLICE_IN_ORDER",
                                    old_watermark |-> g * MaxP, watermark |-> h * MaxP]
    BY ReceiveOutcome
  <1>8. CASE i \in got /\ UNCHANGED <<state, released, completions, event>>
    <2>1. got' = got
      BY <1>1, <1>8
    <2> QED
      BY <1>1, <1>8, <2>1 DEF IInv, TypeOK, NeverHangs, CompleteIffAllArrived,
                             StateIsArrivals, EventMatchesWatermark
  <1>9. CASE /\ i \notin got /\ i # g
             /\ state' \in SliceStates /\ ArrivalsOf(state', pkg, got')
             /\ state'.watermark = g * MaxP
             /\ event' = [e |-> "NEW_SLICE_OUT_OF_ORDER",
                          old_watermark |-> g * MaxP, watermark |-> g * MaxP]
             /\ released' = released /\ completions' = 0
    <2>1. FirstGap(pkg, got', g)
      BY <1>1, <1>7, <1>9 DEF FirstGap
    <2>2. TypeOK'
      BY <1>1, <1>2, <1>3, <1>4, <1>5, <1>7, <1>9, <2>1 DEF TypeOK, Events
    <2>3. CompleteIffAllArrived'
      <3>1. got' # SlicesOf(pkg)
        BY <2>1 DEF FirstGap
      <3> QED
        BY <1>1, <1>9, <3>1 DEF CompleteIffAllArrived
    <2>4. StateIsArrivals'
      BY <1>1, <1>7, <1>9, <2>1 DEF StateIsArrivals
    <2>5. EventMatchesWatermark'
      BY <1>9 DEF EventMatchesWatermark
    <2> QED
      BY <1>1, <1>2, <2>2, <2>3, <2>4, <2>5 DEF IInv, NeverHangs
  <1>10. CASE /\ i = g /\ got' = SlicesOf(pkg)
              /\ state' = ZeroState
              /\ event' = [e |-> "COMPLETE",
                           old_watermark |-> g * MaxP, watermark |-> Length(pkg)]
              /\ released' = Length(pkg) /\ completions' = 1
    <2>1. TypeOK'
      <3>1. ZeroState \in SliceStates
        BY <1>2, FreshPackage
      <3> QED
        BY <1>1, <1>2, <1>3, <1>4, <1>5, <1>6, <1>7, <1>10, <3>1 DEF TypeOK, Events
    <2>2. CompleteIffAllArrived'
      BY <1>1, <1>10 DEF CompleteIffAllArrived
    <2>3. StateIsArrivals'
      BY <1>10 DEF StateIsArrivals
    <2>4. EventMatchesWatermark'
      BY <1>1, <1>10 DEF EventMatchesWatermark
    <2> QED
      BY <1>1, <1>2, <2>1, <2>2, <2>3, <2>4 DEF IInv, NeverHangs
  <1>11. CASE /\ i = g /\ got' # SlicesOf(pkg)
              /\ state' \in SliceStates /\ ArrivalsOf(state', pkg, got')
              /\ completions' = 0
              /\ \E h \in SliceIds :
                   /\ FirstGap(pkg, got', h) /\ g < h
                   /\ state'.watermark = h * MaxP /\ released' = h * MaxP
                   /\ event' = [e |-> "NEW_SLICE_IN_ORDER",
                                old_watermark |-> g * MaxP, watermark |-> h * MaxP]
    <2>1. PICK h \in SliceIds :
              /\ FirstGap(pkg, got', h) /\ g < h
              /\ state'.watermark = h * MaxP /\ released' = h * MaxP
              /\ event' = [e |-> "NEW_SLICE_IN_ORDER",
                           old_watermark |-> g * MaxP, watermark |-> h * MaxP]
      BY <1>11
    <2>2. TypeOK'
      BY <1>1, <1>2, <1>3, <1>4, <1>5, <1>7, <1>11, <2>1 DEF TypeOK, Events
    <2>3. CompleteIffAllArrived'
      BY <1>1, <1>11 DEF CompleteIffAllArrived
    <2>4. StateIsArrivals'
      BY <1>1, <1>11, <2>1 DEF StateIsArrivals
    <2>5. EventMatchesWatermark'
      <3>1. g \in Nat /\ h \in Nat /\ g < h /\ MaxP \in Nat \ {0}
        BY <2>1, MaxPFacts, Widths DEF SliceIds
      <3>2. g * MaxP < h * MaxP
        BY <3>1, OffsetsOrdered
      <3> QED
        BY <2>1, <3>2 DEF EventMatchesWatermark
    <2> QED
      BY <1>1, <1>2, <2>2, <2>3, <2>4, <2>5 DEF IInv, NeverHangs
  <1> QED
    BY <1>7, <1>8, <1>9, <1>10, <1>11

\* Every step of the receiver keeps the invariant.
LEMMA StepIInv == IInv /\ [Next]_vars => IInv'
  <1> SUFFICES ASSUME IInv, [Next]_vars PROVE IInv'
    OBVIOUS
  <1>1. CASE NextPackage
    BY <1>1, NextPackageIInv
  <1>2. CASE \E i \in SliceIds : Receive(i)
    BY <1>2, ReceiveIInv
  <1>3. CASE UNCHANGED vars
    BY <1>3 DEF vars, IInv, TypeOK, NeverHangs, CompleteIffAllArrived, StateIsArrivals,
                EventMatchesWatermark
  <1> QED
    BY <1>1, <1>2, <1>3 DEF Next

\* The inductive invariant holds in every state the receiver reaches.
LEMMA AlwaysIInv == Spec => []IInv
  BY InitIInv, StepIInv, PTL DEF Spec

\* Every variable of the receiver keeps its type: counts, terminations and
\* watermarks stay within their widths.
THEOREM TypeCorrect == Spec => []TypeOK
  BY AlwaysIInv, PTL DEF IInv

\* The watermark loop of mp_rx_advance_watermark ends on every slice of a safe
\* package.
THEOREM LoopEnds == Spec => []NeverHangs
  BY AlwaysIInv, PTL DEF IInv

\* COMPLETE is reported on the last missing slice and on no other.
THEOREM CompletionCorrect == Spec => []CompleteIffAllArrived
  BY AlwaysIInv, PTL DEF IInv

\* The stored state is determined by the set of slices that arrived.
THEOREM OrderIndependence == Spec => []StateIsArrivals
  BY AlwaysIInv, PTL DEF IInv

\* The watermarks passed to on_event say what has become contiguous.
THEOREM EventContract == Spec => []EventMatchesWatermark
  BY AlwaysIInv, PTL DEF IInv

-----------------------------------------------------------------------------
(* Refinement *)

\* What the detailed receiver has flushed is what the abstract one releases.
LEMMA ReleasedIsReleasable == IInv => released = Abstract!ReleasableBytes(pkg, got)
  <1> SUFFICES ASSUME IInv PROVE released = Abstract!ReleasableBytes(pkg, got)
    OBVIOUS
  <1> DEFINE n    == DataCount(pkg)
             P(k) == /\ \A j \in 0..(k - 1) : j \in got
                     /\ k = n \/ k \notin got
  <1>1. pkg \in Assemblable /\ got \subseteq SlicesOf(pkg) /\ completions \in {0, 1}
    BY SafeAreAssemblable DEF IInv, TypeOK, CompleteIffAllArrived
  <1>2. n \in Nat /\ Length(pkg) <= n * MaxP /\ Length(pkg) \in Nat /\ n * MaxP \in Nat
        /\ LastSlice(pkg) <= n /\ n - 1 <= LastSlice(pkg) /\ LastSlice(pkg) \in Nat
    BY <1>1, PackageFacts
  <1>3. ASSUME NEW k \in 0..n, P(k)
        PROVE  Abstract!GapFree(pkg, got) = k
    <2>1. Abstract!GapFree(pkg, got) = CHOOSE c \in 0..n : P(c)
      BY DEF Abstract!GapFree, Abstract!DataCount, DataCount
    <2> DEFINE c == CHOOSE c \in 0..n : P(c)
    <2>2. c \in 0..n /\ P(c)
      BY <1>3
    <2> HIDE DEF c
    <2>3. ~ c < k
      BY <1>2, <1>3, <2>2
    <2>4. ~ k < c
      BY <1>2, <1>3, <2>2
    <2>5. c = k
      BY <1>2, <2>2, <2>3, <2>4
    <2> QED
      BY <2>1, <2>5 DEF c
  <1>4. Abstract!ReleasableBytes(pkg, got) =
            LET bytes == Abstract!GapFree(pkg, got) * MaxP
            IN  IF bytes > Length(pkg) THEN Length(pkg) ELSE bytes
    BY DEF Abstract!ReleasableBytes, Abstract!Length, Length, Abstract!MaxP, MaxP,
           Abstract!mp_max_payload, mp_max_payload, Abstract!MP_HEADER_SIZE, MP_HEADER_SIZE
  <1>5. CASE completions = 0
    <2>1. PICK g \in SliceIds : FirstGap(pkg, got, g) /\ released = g * MaxP
      BY <1>5 DEF IInv, StateIsArrivals
    <2>2. g \in Nat /\ g <= LastSlice(pkg) /\ g \notin got
      BY <1>1, <2>1, SliceSizes DEF FirstGap
    <2>3. g \in 0..n
      BY <1>2, <2>2
    <2>4. P(g)
      BY <2>1, <2>2 DEF FirstGap
    <2>5. Abstract!GapFree(pkg, got) = g
      BY <1>3, <2>3, <2>4
    <2>6. g * MaxP <= Length(pkg) /\ g * MaxP \in Nat
      BY <1>1, <2>2, OffsetFacts
    <2> QED
      BY <1>2, <1>4, <2>1, <2>5, <2>6
  <1>6. CASE completions = 1
    <2>1. got = SlicesOf(pkg) /\ released = Length(pkg)
      BY <1>6 DEF IInv, CompleteIffAllArrived
    <2>2. n \in 0..n /\ P(n)
      BY <1>2, <2>1 DEF SlicesOf
    <2>3. Abstract!GapFree(pkg, got) = n
      BY <1>3, <2>2
    <2> HIDE DEF n
    <2> QED
      BY <1>2, <1>4, <2>1, <2>3
  <1> QED
    BY <1>1, <1>5, <1>6

\* The detailed receiver implements Reassembly: a new slice is one abstract
\* Receive, a duplicate a stutter.
THEOREM Refinement == Spec => ImplementsReassembly
  <1>1. Init => Abstract!Init
    BY DEF Init, InitWith, SafePackages, Abstract!Init, Abstract!SafePackage, SafePackage,
           Abstract!Length, Length, Abstract!LastSlice, LastSlice, Abstract!DataCount,
           DataCount, Abstract!MaxP, MaxP, Abstract!mp_max_payload, mp_max_payload,
           Abstract!MP_HEADER_SIZE, MP_HEADER_SIZE
  <1>2. ASSUME IInv, IInv', [Next]_vars
        PROVE  [Abstract!Next]_(Abstract!rvars)
    <2>1. CASE NextPackage
      <3>1. completions = 1
        BY <1>2, <2>1 DEF NextPackage, IInv, CompleteIffAllArrived
      <3>2. Abstract!NextPackage
        BY <2>1, <3>1 DEF NextPackage, SafePackages, Abstract!NextPackage,
           Abstract!SafePackage, SafePackage,
           Abstract!Length, Length, Abstract!LastSlice, LastSlice, Abstract!DataCount,
           DataCount, Abstract!MaxP, MaxP, Abstract!mp_max_payload, mp_max_payload,
           Abstract!MP_HEADER_SIZE, MP_HEADER_SIZE
      <3> QED
        BY <3>2 DEF Abstract!Next
    <2>2. CASE \E i \in SliceIds : Receive(i)
      <3>1. PICK i \in SliceIds : Receive(i)
        BY <2>2
      <3>2. /\ pkg' = pkg /\ got' = got \union {i}
            /\ completions = 0 /\ i \in SlicesOf(pkg)
        BY <1>2, <3>1, ReceiveOutcome
      <3>3. CASE i \in got
        <4>1. UNCHANGED <<released, completions>>
          <5>1. PICK g \in SliceIds : FirstGap(pkg, got, g)
            BY <1>2, <3>2 DEF IInv, StateIsArrivals
          <5>2. g \notin got
            BY <5>1 DEF FirstGap
          <5> QED
            BY <1>2, <3>1, <3>3, ReceiveOutcome DEF FirstGap
        <4> QED
          BY <3>2, <3>3, <4>1 DEF Abstract!rvars
      <3>4. CASE i \notin got
        <4>1. released' = Abstract!ReleasableBytes(pkg', got')
          <5>1. (IInv => released = Abstract!ReleasableBytes(pkg, got))'
            BY ReleasedIsReleasable, PTL
          <5> QED
            BY <1>2, <5>1
        <4>2. completions' = IF got' = SlicesOf(pkg) THEN 1 ELSE 0
          BY <1>2, <3>2 DEF IInv, CompleteIffAllArrived
        <4>3. Abstract!SlicesOf(pkg) = SlicesOf(pkg)
          BY DEF Abstract!SlicesOf, SlicesOf, Abstract!LastSlice, LastSlice
        <4>4. Abstract!Receive(i)
          BY <3>2, <3>4, <4>1, <4>2, <4>3 DEF Abstract!Receive
        <4> QED
          BY <4>4 DEF Abstract!Next, Abstract!SliceIds, SliceIds
      <3> QED
        BY <3>3, <3>4
    <2>3. CASE UNCHANGED vars
      BY <2>3 DEF vars, Abstract!rvars
    <2> QED
      BY <1>2, <2>1, <2>2, <2>3 DEF Next
  <1> QED
    BY <1>1, <1>2, AlwaysIInv, PTL DEF Spec, ImplementsReassembly, Abstract!Spec
=============================================================================

-------------------------- MODULE SliceStepProofs ---------------------------
(***************************************************************************)
(* The pure step of the receiver on a package within the limits, for every *)
(* width, transmission unit and package: what one slice does to a state    *)
(* that records some of the slices of the package.  Every receiver of the  *)
(* repository takes this step, whatever table it keeps its states in.      *)
(***************************************************************************)
EXTENDS Arrivals, MPRxProofs, FiniteSetTheorems

-----------------------------------------------------------------------------
(* What SafePackage says about the slices of a package *)

\* Counts and lengths are natural numbers within their widths.
LEMMA PackageFacts ==
    ASSUME NEW p \in Assemblable
    PROVE  /\ p.full \in Nat /\ p.rest \in Nat /\ p.rest < MaxP
           /\ DataCount(p) \in Nat /\ LastSlice(p) \in Nat /\ Length(p) \in Nat
           /\ LastSlice(p) < U8
           /\ LastSlice(p) = DataCount(p) \/ LastSlice(p) = DataCount(p) - 1
           /\ LastSlice(p) = DataCount(p) => p.rest = 0 /\ DataCount(p) = p.full
           /\ 0 < Length(p) /\ 0 < DataCount(p)
           /\ Length(p) <= DataCount(p) * MaxP
           /\ DataCount(p) * MaxP \in Nat /\ DataCount(p) * MaxP < U16
           /\ p.full <= DataCount(p) /\ DataCount(p) <= p.full + 1
           /\ MaxP <= 4095
           /\ p.id \in PackageIds /\ p.sender \in SenderIds
  <1>1. p \in AllPackages /\ SafePackage(p)
    BY DEF Assemblable
  <1>2. /\ p.full \in Nat /\ p.rest \in Nat /\ p.rest < MaxP
        /\ p.id \in PackageIds /\ p.sender \in SenderIds
    BY <1>1, MaxPFacts, Widths DEF AllPackages
  <1>3. p.full * MaxP \in Nat /\ Length(p) \in Nat /\ DataCount(p) \in Nat
    BY <1>2, MaxPFacts DEF Length, DataCount
  <1>4. p.full = 0 => p.full * MaxP = 0
    BY MaxPFacts
  <1>5. 0 < Length(p)
    BY <1>1 DEF SafePackage
  <1>6. 0 < DataCount(p) /\ (p.rest = 0 => 0 < p.full)
    BY <1>2, <1>3, <1>4, <1>5 DEF Length, DataCount
  <1>7. LastSlice(p) \in Nat /\ LastSlice(p) < U8
    BY <1>1, <1>2, <1>6 DEF LastSlice, SafePackage
  <1>8. (p.full + 1) * MaxP = p.full * MaxP + MaxP
    BY <1>2, MaxPFacts
  <1>9. Length(p) <= DataCount(p) * MaxP
    BY <1>2, <1>3, <1>8, MaxPFacts DEF Length, DataCount
  <1>10. DataCount(p) * MaxP \in Nat /\ DataCount(p) * MaxP < U16 /\ MaxP <= 4095
    BY <1>1, <1>3, MaxPFacts DEF SafePackage
  <1>11. /\ LastSlice(p) = DataCount(p) \/ LastSlice(p) = DataCount(p) - 1
         /\ LastSlice(p) = DataCount(p) => p.rest = 0 /\ DataCount(p) = p.full
         /\ p.full <= DataCount(p) /\ DataCount(p) <= p.full + 1
    BY <1>2 DEF LastSlice, DataCount
  <1> QED
    BY <1>2, <1>3, <1>5, <1>6, <1>7, <1>9, <1>10, <1>11

\* Offsets of data slices lie inside the package, and no slice's offset is
\* truncated.
LEMMA OffsetFacts ==
    ASSUME NEW p \in Assemblable, NEW j \in Nat
    PROVE  /\ j * MaxP \in Nat
           /\ j < DataCount(p) => j * MaxP < Length(p)
           /\ j <= LastSlice(p) => j * MaxP <= Length(p) /\ j * MaxP < U16
           /\ j <= LastSlice(p) => mp_slice_idx_to_offset(j, MaxP) = j * MaxP
  <1>1. j * MaxP \in Nat
    BY MaxPFacts
  <1>2. ASSUME j < DataCount(p)
        PROVE  j * MaxP < Length(p)
    <2>1. CASE j < p.full
      <3>1. j * MaxP + MaxP <= p.full * MaxP
        BY <2>1, PackageFacts, MaxPFacts, MultiplesGrow
      <3>2. p.full * MaxP \in Nat /\ Length(p) = p.full * MaxP + p.rest
        BY PackageFacts, MaxPFacts DEF Length
      <3> QED
        BY <1>1, <3>1, <3>2, PackageFacts, MaxPFacts
    <2>2. CASE j = p.full
      <3>1. p.rest > 0
        BY <1>2, <2>2, PackageFacts DEF DataCount
      <3> QED
        BY <1>1, <2>2, <3>1, PackageFacts DEF Length
    <2> QED
      BY <1>2, <2>1, <2>2, PackageFacts
  <1>3. ASSUME j <= LastSlice(p)
        PROVE  j * MaxP <= Length(p) /\ j * MaxP < U16
    <2>1. CASE j < DataCount(p)
      BY <1>1, <1>2, <2>1, PackageFacts, Widths
    <2>2. CASE j = DataCount(p)
      <3>1. p.rest = 0 /\ j = p.full
        BY <1>3, <2>2, PackageFacts
      <3>2. Length(p) = j * MaxP
        BY <1>1, <3>1 DEF Length
      <3>3. j * MaxP < U16
        BY <2>2, PackageFacts
      <3> QED
        BY <1>1, <3>2, <3>3
    <2> QED
      BY <1>3, <2>1, <2>2, PackageFacts
  <1>4. ASSUME j <= LastSlice(p)
        PROVE  mp_slice_idx_to_offset(j, MaxP) = j * MaxP
    <2>1. (j * MaxP) % U16 = j * MaxP
      BY <1>1, <1>3, <1>4, Widths, NoTruncation
    <2> QED
      BY <2>1 DEF mp_slice_idx_to_offset
  <1> QED
    BY <1>1, <1>2, <1>3, <1>4

\* mp_rx_termination_to_slice_count recovers the number of data slices.
LEMMA SliceCount ==
    ASSUME NEW p \in Assemblable
    PROVE  mp_rx_termination_to_slice_count(Length(p), MaxP) = DataCount(p)
  <1> DEFINE n == DataCount(p)
  <1>1. n \in Nat /\ 0 < n /\ n - 1 \in Nat
    BY PackageFacts
  <1>2. (n - 1) * MaxP \in Nat /\ (n - 1) * MaxP < Length(p)
    BY <1>1, OffsetFacts
  <1>3. n * MaxP = (n - 1) * MaxP + MaxP
    BY <1>1, MaxPFacts
  <1>4. PICK r \in Nat : r < MaxP /\ Length(p) + MaxP - 1 = n * MaxP + r
    <2>1. Length(p) <= n * MaxP /\ Length(p) \in Nat /\ n * MaxP \in Nat
      BY PackageFacts
    <2> DEFINE r == Length(p) - 1 - (n - 1) * MaxP
    <2> HIDE DEF n
    <2>2. r \in Nat /\ r < MaxP
      BY <1>2, <1>3, <2>1, MaxPFacts
    <2>3. Length(p) + MaxP - 1 = n * MaxP + r
      BY <1>2, <1>3, <2>1, MaxPFacts
    <2> QED
      BY <2>2, <2>3
  <1>5. (n * MaxP + r) \div MaxP = n
    BY <1>1, <1>4, MaxPFacts, SliceOfPosition
  <1>6. n < U16
    <2>1. n <= n * MaxP
      BY <1>1, MaxPFacts, SlicesFit
    <2> QED
      BY <2>1, <1>1, PackageFacts, Widths
  <1>7. n % U16 = n
    BY <1>1, <1>6, Widths, NoTruncation
  <1> QED
    BY <1>4, <1>5, <1>7 DEF mp_rx_termination_to_slice_count

\* The sizes slices carry: only the last slice may be short, and only an empty
\* last slice carries no data.
LEMMA SliceSizes ==
    ASSUME NEW p \in Assemblable, NEW i \in SlicesOf(p)
    PROVE  /\ i \in Nat /\ i <= LastSlice(p) /\ i \in SliceIds
           /\ PayloadSize(p, i) \in Nat /\ PayloadSize(p, i) <= MaxP
           /\ PayloadSize(p, i) < MaxP => i = LastSlice(p)
           /\ (PayloadSize(p, i) = 0 /\ i = LastSlice(p)) <=> i = DataCount(p)
           /\ i = LastSlice(p) => i * MaxP + PayloadSize(p, i) = Length(p)
  <1>1. i \in Nat /\ i <= LastSlice(p) /\ i \in SliceIds
    BY PackageFacts, Widths DEF SlicesOf, SliceIds
  <1>2. PayloadSize(p, i) \in Nat /\ PayloadSize(p, i) <= MaxP
    BY <1>1, PackageFacts, MaxPFacts DEF PayloadSize
  <1>3. LastSlice(p) <= p.full
    BY PackageFacts DEF LastSlice
  <1>4. PayloadSize(p, i) < MaxP => i = LastSlice(p)
    BY <1>1, <1>3, PackageFacts, MaxPFacts DEF PayloadSize
  <1>5. (PayloadSize(p, i) = 0 /\ i = LastSlice(p)) <=> i = DataCount(p)
    BY <1>1, PackageFacts, MaxPFacts DEF PayloadSize, LastSlice, DataCount
  <1>6. ASSUME i = LastSlice(p)
        PROVE  i * MaxP + PayloadSize(p, i) = Length(p)
    <2>1. CASE i = p.full
      BY <2>1, PackageFacts, MaxPFacts DEF PayloadSize, Length
    <2>2. CASE i = p.full - 1 /\ p.rest = 0
      <3>1. p.full * MaxP = i * MaxP + MaxP
        BY <2>2, <1>1, PackageFacts, MaxPFacts
      <3>2. PayloadSize(p, i) = MaxP
        BY <2>2, PackageFacts DEF PayloadSize
      <3>3. p.full * MaxP \in Nat
        BY PackageFacts, MaxPFacts
      <3> QED
        BY <2>2, <3>1, <3>2, <3>3 DEF Length
    <2> QED
      BY <1>6, <2>1, <2>2 DEF LastSlice
  <1> QED
    BY <1>1, <1>2, <1>4, <1>5, <1>6

\* A payload no longer than the largest fits the 12 bits of the header.
LEMMA SizeFits ==
    ASSUME NEW x \in Nat, NEW m \in Nat, x <= m, m <= 4095
    PROVE  x \in PayloadSizes
  BY DEF PayloadSizes

\* The header of slice i of package p, before it is packed.
HeaderOf(p, i) ==
    [package_serial |-> p.id, slice_serial |-> i, sender_id |-> p.sender,
     eop |-> IF i = LastSlice(p) THEN 1 ELSE 0,
     slice_payload_size |-> PayloadSize(p, i)]

\* A receiver reads back from the wire what was put in the header of slice i.
LEMMA HeaderOfSlice ==
    ASSUME NEW p \in Assemblable, NEW i \in SlicesOf(p)
    PROVE  mp_header_unpack(HeaderBytes(p, i)) = HeaderOf(p, i)
  <1>1. HeaderOf(p, i) \in Headers
    <2>1. PayloadSize(p, i) \in PayloadSizes
      <3>1. PayloadSize(p, i) \in Nat /\ PayloadSize(p, i) <= MaxP
        BY SliceSizes
      <3>2. MaxP \in Nat /\ MaxP <= 4095
        BY PackageFacts, MaxPFacts
      <3> QED
        BY <3>1, <3>2, SizeFits
    <2>2. i \in SliceIds /\ p.id \in PackageIds /\ p.sender \in SenderIds
      BY SliceSizes, PackageFacts
    <2> QED
      BY <2>1, <2>2 DEF Headers, HeaderOf
  <1>2. HeaderBytes(p, i) = mp_header_pack(HeaderOf(p, i))
    BY DEF HeaderBytes, HeaderOf
  <1> QED
    BY <1>1, <1>2, HeaderRoundTrip

\* The pure step on slice i of package p.
StepOn(st, p, i) ==
    mp_rx_calc_slice_step(st, i, PayloadSize(p, i), MaxP, i = LastSlice(p))

-----------------------------------------------------------------------------
(* The pure step on one new slice *)

\* The number of data slices among those that arrived never exceeds the data
\* slices there are, and reaches it when none is missing.
LEMMA DataSlicesCounted ==
    ASSUME NEW p \in Assemblable, NEW S \in SUBSET SlicesOf(p)
    PROVE  LET D == {j \in S : j < DataCount(p)}
           IN  /\ IsFiniteSet(D)
               /\ Cardinality(D) \in Nat
               /\ Cardinality(D) <= DataCount(p)
               /\ Cardinality(D) = DataCount(p) <=> 0..(DataCount(p) - 1) \subseteq S
  <1> DEFINE D == {j \in S : j < DataCount(p)}
             A == 0..(DataCount(p) - 1)
  <1>1. D \subseteq A
    <2>1. SlicesOf(p) \subseteq Nat /\ DataCount(p) \in Nat
      BY PackageFacts DEF SlicesOf
    <2> QED
      BY <2>1
  <1>2. IsFiniteSet(A) /\ Cardinality(A) = DataCount(p)
    <2>1. PICK k \in Int : k = DataCount(p) - 1 /\ k >= 0
      BY PackageFacts
    <2>2. IsFiniteSet(0..k) /\ Cardinality(0..k) = k + 1
      <3>1. /\ IsFiniteSet(0..k)
            /\ Cardinality(0..k) = (IF 0 > k THEN 0 ELSE k - 0 + 1)
        BY FS_Interval
      <3> QED
        BY <2>1, <3>1
    <2> QED
      BY <2>1, <2>2, PackageFacts
  <1>3. /\ IsFiniteSet(D) /\ Cardinality(D) <= DataCount(p)
        /\ Cardinality(D) = DataCount(p) => D = A
    BY <1>1, <1>2, FS_Subset
  <1>4. Cardinality(D) \in Nat
    BY <1>3, FS_CardinalityType
  <1>5. A \subseteq S => D = A
    BY <1>1, PackageFacts
  <1>6. D = A => A \subseteq S
    OBVIOUS
  <1> HIDE DEF A, D
  <1>7. Cardinality(D) = DataCount(p) <=> A \subseteq S
    BY <1>2, <1>3, <1>5, <1>6
  <1> QED
    BY <1>3, <1>4, <1>7 DEF A, D

\* Recording a new slice records exactly that slice.
LEMMA RecordArrival ==
    ASSUME NEW p \in Assemblable, NEW S \in SUBSET SlicesOf(p), NEW st \in SliceStates,
           ArrivalsOf(st, p, S), NEW i \in SlicesOf(p) \ S
    PROVE  LET rec == RecordSlice(st, i, PayloadSize(p, i), MaxP, i = LastSlice(p))
           IN  /\ rec \in SliceStates
               /\ ArrivalsOf(rec, p, S \union {i})
               /\ rec.watermark = st.watermark
  <1> DEFINE z   == PayloadSize(p, i)
             eop == i = LastSlice(p)
             rec == RecordSlice(st, i, z, MaxP, eop)
             D   == {j \in S : j < DataCount(p)}
             E   == {j \in S \union {i} : j < DataCount(p)}
             T   == IF LastSlice(p) \in S \union {i} THEN Length(p) ELSE 0
  <1>1. /\ i \in Nat /\ i <= LastSlice(p) /\ i \in SliceIds /\ i \in SlicesOf(p)
        /\ z \in Nat
        /\ z < MaxP => eop
        /\ (z = 0 /\ eop) <=> i = DataCount(p)
        /\ eop => i * MaxP + z = Length(p)
    BY SliceSizes
  <1>2. /\ st.bitmap = S /\ st.received_count = Cardinality(D)
        /\ st.termination = (IF LastSlice(p) \in S THEN Length(p) ELSE 0)
    BY DEF ArrivalsOf
  <1>3. (IF z < MaxP \/ eop THEN mp_rx_calc_termination(i, z, MaxP) ELSE st.termination) = T
    <2>1. CASE eop
      <3>1. mp_slice_idx_to_offset(i, MaxP) = i * MaxP
        BY <1>1, OffsetFacts
      <3>2. Length(p) % U16 = Length(p)
        BY PackageFacts, Widths, NoTruncation
      <3>3. mp_rx_calc_termination(i, z, MaxP) = Length(p)
        BY <1>1, <2>1, <3>1, <3>2 DEF mp_rx_calc_termination
      <3> QED
        BY <2>1, <3>3
    <2>2. CASE ~ eop
      BY <1>1, <1>2, <2>2
    <2> QED
      BY <2>1, <2>2
  <1>4. /\ IsFiniteSet(D) /\ Cardinality(D) \in Nat
        /\ Cardinality(E) = (IF z = 0 /\ eop THEN Cardinality(D) ELSE Cardinality(D) + 1)
        /\ Cardinality(E) <= DataCount(p) /\ Cardinality(E) \in Nat
    <2>1. S \union {i} \in SUBSET SlicesOf(p)
      BY <1>1
    <2>2. IsFiniteSet(D) /\ Cardinality(D) \in Nat
      BY DataSlicesCounted
    <2>3. Cardinality(E) \in Nat /\ Cardinality(E) <= DataCount(p)
      BY <2>1, DataSlicesCounted
    <2>5. CASE i = DataCount(p)
      <3>1. E = D
        BY <2>5, PackageFacts
      <3> QED
        BY <1>1, <2>2, <2>3, <2>5, <3>1
    <2>6. CASE i # DataCount(p)
      <3>1. i < DataCount(p)
        BY <1>1, <2>6, PackageFacts
      <3>2. E = D \union {i} /\ i \notin D
        BY <3>1
      <3>3. Cardinality(E) = Cardinality(D) + 1
        BY <2>2, <3>2, FS_AddElement
      <3> QED
        BY <1>1, <2>2, <2>3, <2>6, <3>3
    <2> QED
      BY <2>5, <2>6
  <1>5. DataCount(p) < U16
    <2>1. DataCount(p) <= DataCount(p) * MaxP
      BY PackageFacts, MaxPFacts, SlicesFit
    <2> QED
      BY <2>1, PackageFacts, Widths
  <1>6. (IF z = 0 /\ eop THEN st.received_count ELSE (st.received_count + 1) % U16)
            = Cardinality(E)
    <2>1. Cardinality(E) % U16 = Cardinality(E)
      BY <1>4, <1>5, PackageFacts, Widths, NoTruncation
    <2> QED
      BY <1>2, <1>4, <2>1
  <1>7. rec = [bitmap |-> S \union {i}, received_count |-> Cardinality(E),
               termination |-> T, watermark |-> st.watermark]
    BY <1>2, <1>3, <1>6 DEF RecordSlice
  <1>8. /\ T \in Offsets /\ Cardinality(E) \in Offsets /\ S \union {i} \in SUBSET SliceIds
    <2>1. T \in Offsets
      BY PackageFacts, Widths DEF Offsets
    <2>2. Cardinality(E) \in Offsets
      BY <1>4, <1>5, PackageFacts, Widths DEF Offsets
    <2>3. S \subseteq SliceIds
      BY SliceSizes
    <2> QED
      BY <1>1, <2>1, <2>2, <2>3
  <1> HIDE DEF rec, T, E
  <1>9. /\ rec.bitmap = S \union {i} /\ rec.termination = T
        /\ rec.received_count = Cardinality(E) /\ rec.watermark = st.watermark
    BY <1>7 DEF SliceStates
  <1>10. rec \in SliceStates
    BY <1>7, <1>8 DEF SliceStates
  <1> QED
    BY <1>9, <1>10 DEF ArrivalsOf, rec, T, E

\* Of the slices that arrived, the first gap is the only one that moves the
\* watermark.
LEMMA OnlyTheGapIsInOrder ==
    ASSUME NEW p \in Assemblable, NEW S \in SUBSET SlicesOf(p), NEW st,
           NEW g \in SliceIds, FirstGap(p, S, g), st.watermark = g * MaxP,
           NEW i \in SlicesOf(p) \ S
    PROVE  InOrder(st, i, MaxP) <=> i = g
  <1>1. /\ i \in Nat /\ i <= LastSlice(p) /\ i \in SlicesOf(p)
        /\ g \in Nat /\ g \in SlicesOf(p)
    BY SliceSizes DEF FirstGap
  <1>2. mp_slice_idx_to_offset(i, MaxP) = i * MaxP
    BY <1>1, OffsetFacts
  <1>3. ~ i < g
    BY <1>1 DEF FirstGap
  <1>4. g < i => g * MaxP < i * MaxP
    BY <1>1, MaxPFacts, OffsetsOrdered
  <1>5. g * MaxP \in Nat /\ i * MaxP \in Nat
    BY <1>1, MaxPFacts
  <1> QED
    BY <1>1, <1>2, <1>3, <1>4, <1>5 DEF InOrder

\* If slices are missing, there is a first one.
LEMMA GapExists ==
    ASSUME NEW p \in Assemblable, NEW S \in SUBSET SlicesOf(p), S # SlicesOf(p)
    PROVE  \E g \in SliceIds : FirstGap(p, S, g)
  <1>1. SlicesOf(p) \ S \subseteq Nat /\ SlicesOf(p) \ S # {}
    BY SliceSizes
  <1>2. PICK g \in SlicesOf(p) \ S : \A y \in SlicesOf(p) \ S : g <= y
    BY <1>1, LeastElement
  <1>3. g \in Nat /\ g \in SliceIds /\ g <= LastSlice(p)
    BY SliceSizes
  <1>4. ASSUME NEW j \in 0..(g - 1)
        PROVE  j \in S
    <2>1. j \in SlicesOf(p) /\ j < g
      BY <1>3, PackageFacts DEF SlicesOf
    <2> QED
      BY <1>2, <1>3, <2>1
  <1> QED
    BY <1>2, <1>3, <1>4 DEF FirstGap

\* Moving the watermark changes nothing else.
LEMMA WatermarkMoved ==
    ASSUME NEW st \in SliceStates, NEW m
    PROVE  LET w     == mp_rx_advance_watermark(st, m)
               moved == MoveWatermark(st, m)
           IN  /\ w \in Offsets => moved \in SliceStates
               /\ moved.watermark = w
               /\ moved.bitmap = st.bitmap /\ moved.termination = st.termination
               /\ moved.received_count = st.received_count
  BY DEF SliceStates, MoveWatermark

\* What the slice that fills the first gap g does to the state.
GapFilled(st, p, S, g) ==
    LET rec == RecordSlice(st, g, PayloadSize(p, g), MaxP, g = LastSlice(p))
        adv == MoveWatermark(rec, MaxP)
        S1  == S \union {g}
    IN  /\ AdvanceReturns(rec, MaxP)
        /\ S1 = SlicesOf(p) => /\ mp_rx_advance_watermark(rec, MaxP) = Length(p)
                               /\ mp_rx_is_complete(adv, MaxP)
        /\ S1 # SlicesOf(p) =>
              /\ ~ mp_rx_is_complete(adv, MaxP)
              /\ \E h \in SliceIds :
                    /\ FirstGap(p, S1, h) /\ g < h
                    /\ mp_rx_advance_watermark(rec, MaxP) = h * MaxP

\* The slice that fills the first gap: the watermark loop ends, at the length of
\* the package if nothing is missing any more and at the next gap otherwise,
\* and the completeness test tells the two apart.
LEMMA FillGap ==
    ASSUME NEW p \in Assemblable, NEW S \in SUBSET SlicesOf(p), NEW st \in SliceStates,
           ArrivalsOf(st, p, S), NEW g \in SliceIds, FirstGap(p, S, g),
           st.watermark = g * MaxP
    PROVE  GapFilled(st, p, S, g)
  <1> DEFINE rec == RecordSlice(st, g, PayloadSize(p, g), MaxP, g = LastSlice(p))
             adv == MoveWatermark(rec, MaxP)
             S1  == S \union {g}
             n   == DataCount(p)
             D   == {j \in S1 : j < n}
  <1>1. g \in SlicesOf(p) /\ g \notin S /\ g \in Nat /\ g <= LastSlice(p) /\ g <= n
    BY SliceSizes, PackageFacts DEF FirstGap
  <1>2. S1 \in SUBSET SlicesOf(p)
    BY <1>1
  <1>3. rec \in SliceStates /\ ArrivalsOf(rec, p, S1) /\ rec.watermark = g * MaxP
    BY <1>1, RecordArrival
  <1> HIDE DEF rec
  <1>4. /\ rec.bitmap = S1 /\ rec.received_count = Cardinality(D)
        /\ rec.termination = (IF LastSlice(p) \in S1 THEN Length(p) ELSE 0)
    BY <1>3 DEF ArrivalsOf
  <1>5. adv.termination = rec.termination /\ adv.received_count = rec.received_count
    BY <1>3, WatermarkMoved
  <1>6. /\ Cardinality(D) \in Nat /\ Cardinality(D) <= n
        /\ Cardinality(D) = n <=> 0..(n - 1) \subseteq S1
    BY <1>2, DataSlicesCounted
  <1>7. n \in Nat /\ n * MaxP < U16 /\ n * MaxP \in Nat /\ Length(p) <= n * MaxP
        /\ Length(p) \in Nat /\ 0 < Length(p) /\ LastSlice(p) \in SlicesOf(p)
        /\ LastSlice(p) <= n /\ n - 1 <= LastSlice(p) /\ LastSlice(p) \in Nat
    BY PackageFacts DEF SlicesOf
  <1>8. mp_rx_is_complete(adv, MaxP) <=>
            LastSlice(p) \in S1 /\ 0..(n - 1) \subseteq S1
    <2>1. CASE LastSlice(p) \in S1
      <3>1. adv.termination = Length(p)
        BY <1>4, <1>5, <2>1
      <3>2. mp_rx_termination_to_slice_count(adv.termination, MaxP) = n
        BY <3>1, SliceCount
      <3> QED
        BY <1>4, <1>5, <1>6, <1>7, <2>1, <3>1, <3>2 DEF mp_rx_is_complete
    <2>2. CASE LastSlice(p) \notin S1
      <3>1. adv.termination = 0
        BY <1>4, <1>5, <2>2
      <3> QED
        BY <2>2, <3>1 DEF mp_rx_is_complete
    <2> QED
      BY <2>1, <2>2
  <1>9. ASSUME S1 = SlicesOf(p)
        PROVE  /\ AdvanceReturns(rec, MaxP)
               /\ mp_rx_advance_watermark(rec, MaxP) = Length(p)
               /\ mp_rx_is_complete(adv, MaxP)
    <2>1. rec.termination = Length(p)
      BY <1>4, <1>7, <1>9
    <2>2. ASSUME NEW j \in g..(n - 1)
          PROVE  j \in rec.bitmap /\ j * MaxP < rec.termination
      <3>1. j \in Nat /\ j < n /\ j <= LastSlice(p)
        BY <1>1, <1>7
      <3>2. j \in SlicesOf(p)
        BY <1>7, <3>1 DEF SlicesOf
      <3> QED
        BY <1>4, <1>9, <2>1, <3>1, <3>2, OffsetFacts
    <2>3. rec.termination > 0 /\ n * MaxP >= rec.termination
      BY <1>7, <2>1
    <2> HIDE DEF n
    <2>4. /\ AdvanceReturns(rec, MaxP)
          /\ mp_rx_advance_watermark(rec, MaxP) =
                 IF rec.termination > 0 /\ n * MaxP > rec.termination
                 THEN rec.termination ELSE n * MaxP
      <3>1. Reaches(rec, MaxP, g, n)
        BY <1>1, <1>3, <1>7, <2>2, <2>3 DEF Reaches
      <3> QED
        BY <1>1, <1>3, <1>7, <3>1, MaxPFacts, AdvanceResult
    <2>5. mp_rx_advance_watermark(rec, MaxP) = Length(p)
      BY <1>7, <2>1, <2>3, <2>4
    <2>6. 0..(n - 1) \subseteq S1
      BY <1>7, <1>9 DEF SlicesOf
    <2> QED
      BY <1>7, <1>8, <1>9, <2>4, <2>5, <2>6
  <1>10. ASSUME S1 # SlicesOf(p)
         PROVE  /\ AdvanceReturns(rec, MaxP)
                /\ ~ mp_rx_is_complete(adv, MaxP)
                /\ \E h \in SliceIds :
                      /\ FirstGap(p, S1, h) /\ g < h
                      /\ mp_rx_advance_watermark(rec, MaxP) = h * MaxP
    <2>1. PICK h \in SliceIds : FirstGap(p, S1, h)
      BY <1>2, <1>10, GapExists
    <2>2. /\ h \in SlicesOf(p) /\ h \notin S1 /\ h \in Nat /\ h <= LastSlice(p)
          /\ \A j \in 0..(h - 1) : j \in S1
      BY <2>1, SliceSizes DEF FirstGap
    <2>3. g < h
      <3>1. h # g
        BY <2>2
      <3>2. ~ h < g
        BY <1>1, <2>2 DEF FirstGap
      <3> QED
        BY <1>1, <2>2, <3>1, <3>2
    <2>4. h * MaxP < U16 /\ h * MaxP <= Length(p) /\ h * MaxP \in Nat
      BY <2>2, OffsetFacts
    <2>5. ASSUME NEW j \in g..(h - 1)
          PROVE  j \in rec.bitmap /\ (rec.termination > 0 => j * MaxP < rec.termination)
      <3>1. j \in Nat /\ j \in 0..(h - 1) /\ j < n
        BY <1>1, <1>7, <2>2
      <3>2. j * MaxP < Length(p)
        BY <3>1, OffsetFacts
      <3> QED
        BY <1>4, <2>2, <3>1, <3>2
    <2>6. h < U8 /\ h \notin rec.bitmap
      BY <1>4, <2>2, PackageFacts, Widths
    <2>7. /\ AdvanceReturns(rec, MaxP)
          /\ mp_rx_advance_watermark(rec, MaxP) =
                 IF rec.termination > 0 /\ h * MaxP > rec.termination
                 THEN rec.termination ELSE h * MaxP
      <3>1. Reaches(rec, MaxP, g, h)
        BY <1>1, <1>3, <2>2, <2>3, <2>4, <2>5, <2>6 DEF Reaches
      <3>2. rec \in SliceStates /\ MaxP \in Nat \ {0} /\ g \in Nat /\ h \in Nat
        BY <1>1, <1>3, <2>2, MaxPFacts
      <3> QED
        BY <3>1, <3>2, AdvanceResult, Zenon
    <2>8. ~ (rec.termination > 0 /\ h * MaxP > rec.termination)
      BY <1>4, <1>7, <2>4
    <2>9. mp_rx_advance_watermark(rec, MaxP) = h * MaxP
      BY <2>7, <2>8
    <2>10. ~ (LastSlice(p) \in S1 /\ 0..(n - 1) \subseteq S1)
      BY <1>7, <2>2
    <2> QED
      BY <1>8, <2>1, <2>3, <2>7, <2>9, <2>10
  <1> QED
    BY <1>9, <1>10 DEF rec, GapFilled

\* What the pure step does with slice i of a package of which S has arrived and
\* g is the first gap, one case per event.
Outcome(st, p, S, g, i) ==
    LET step == StepOn(st, p, i)
        next == step.next_state
        S1   == S \union {i}
    IN  /\ ~ StepDiverges(st, i, PayloadSize(p, i), MaxP, i = LastSlice(p))
        /\ i \in S => step.e = "DUPLICATE"
        /\ i \notin S /\ i # g =>
              /\ step.e = "NEW_SLICE_OUT_OF_ORDER"
              /\ next \in SliceStates /\ ArrivalsOf(next, p, S1)
              /\ next.watermark = g * MaxP
        /\ i = g /\ S1 = SlicesOf(p) =>
              /\ step.e = "COMPLETE" /\ next.watermark = Length(p)
              /\ next \in SliceStates /\ ArrivalsOf(next, p, S1)
        /\ i = g /\ S1 # SlicesOf(p) =>
              /\ step.e = "NEW_SLICE_IN_ORDER"
              /\ next \in SliceStates /\ ArrivalsOf(next, p, S1)
              /\ \E h \in SliceIds :
                    FirstGap(p, S1, h) /\ g < h /\ next.watermark = h * MaxP

\* mp_rx_calc_slice_step on any slice of an incomplete safe package does what
\* Outcome says: nothing for a copy, no flush before the gap, the next gap or
\* the end of the package for the slice that fills it.
LEMMA StepOutcome ==
    ASSUME NEW p \in Assemblable, NEW S \in SUBSET SlicesOf(p), NEW st \in SliceStates,
           ArrivalsOf(st, p, S), NEW g \in SliceIds, FirstGap(p, S, g),
           st.watermark = g * MaxP, NEW i \in SlicesOf(p)
    PROVE  Outcome(st, p, S, g, i)
  <1> USE DEF Outcome, StepOn
  <1> DEFINE z    == PayloadSize(p, i)
             eop  == i = LastSlice(p)
             rec  == RecordSlice(st, i, z, MaxP, eop)
             adv  == MoveWatermark(rec, MaxP)
             step == mp_rx_calc_slice_step(st, i, z, MaxP, eop)
             S1   == S \union {i}
  <1>1. st.bitmap = S /\ g \in SlicesOf(p) /\ g \notin S
    BY DEF ArrivalsOf, FirstGap
  <1>2. CASE i \in S
    <2>1. step = [e |-> "DUPLICATE", next_state |-> st]
      BY <1>1, <1>2 DEF mp_rx_calc_slice_step
    <2>2. ~ StepDiverges(st, i, z, MaxP, eop)
      BY <1>1, <1>2 DEF StepDiverges
    <2> QED
      BY <1>1, <1>2, <2>1, <2>2
  <1>3. CASE i \notin S /\ i # g
    <2>1. ~ InOrder(st, i, MaxP)
      BY <1>3, OnlyTheGapIsInOrder
    <2>2. step = [e |-> "NEW_SLICE_OUT_OF_ORDER", next_state |-> rec]
      BY <1>1, <1>3, <2>1 DEF mp_rx_calc_slice_step
    <2>3. rec \in SliceStates /\ ArrivalsOf(rec, p, S1) /\ rec.watermark = g * MaxP
      BY <1>3, RecordArrival
    <2>4. ~ StepDiverges(st, i, z, MaxP, eop)
      BY <2>1 DEF StepDiverges
    <2> QED
      BY <1>3, <2>2, <2>3, <2>4
  <1>4. CASE i = g
    <2>1. InOrder(st, i, MaxP) /\ i \notin S
      BY <1>1, <1>4, OnlyTheGapIsInOrder
    <2>2. step = [e |-> IF mp_rx_is_complete(adv, MaxP)
                        THEN "COMPLETE" ELSE "NEW_SLICE_IN_ORDER",
                  next_state |-> adv]
      BY <1>1, <2>1 DEF mp_rx_calc_slice_step
    <2>3. rec \in SliceStates /\ ArrivalsOf(rec, p, S1)
      BY <2>1, RecordArrival
    <2> DEFINE w == mp_rx_advance_watermark(rec, MaxP)
    <2>4. /\ AdvanceReturns(rec, MaxP)
          /\ S1 = SlicesOf(p) => w = Length(p) /\ mp_rx_is_complete(adv, MaxP)
          /\ S1 # SlicesOf(p) =>
                /\ ~ mp_rx_is_complete(adv, MaxP)
                /\ \E h \in SliceIds : FirstGap(p, S1, h) /\ g < h /\ w = h * MaxP
      <3> DEFINE recg == RecordSlice(st, g, PayloadSize(p, g), MaxP, g = LastSlice(p))
                 Sg   == S \union {g}
      <3>1. /\ AdvanceReturns(recg, MaxP)
            /\ Sg = SlicesOf(p) => /\ mp_rx_advance_watermark(recg, MaxP) = Length(p)
                                   /\ mp_rx_is_complete(MoveWatermark(recg, MaxP), MaxP)
            /\ Sg # SlicesOf(p) =>
                  /\ ~ mp_rx_is_complete(MoveWatermark(recg, MaxP), MaxP)
                  /\ \E h \in SliceIds :
                        /\ FirstGap(p, Sg, h) /\ g < h
                        /\ mp_rx_advance_watermark(recg, MaxP) = h * MaxP
        <4>1. GapFilled(st, p, S, g)
          BY <1>4, FillGap
        <4> QED
          BY <4>1 DEF GapFilled
      <3>2. recg = rec /\ Sg = S1
        BY <1>4
      <3> HIDE DEF recg, rec, Sg, S1
      <3> QED
        BY <3>1, <3>2
    <2>5. ~ StepDiverges(st, i, z, MaxP, eop)
      BY <2>4 DEF StepDiverges
    <2>6. step.next_state = adv
      BY <2>2
    <2>7. w \in Offsets
      <3>1. CASE S1 = SlicesOf(p)
        BY <2>4, <3>1, PackageFacts, Widths DEF Offsets
      <3>2. CASE S1 # SlicesOf(p)
        <4>1. PICK h \in SliceIds : FirstGap(p, S1, h) /\ w = h * MaxP
          BY <2>4, <3>2
        <4>2. h \in Nat /\ h <= LastSlice(p)
          BY <4>1, SliceSizes DEF FirstGap
        <4>3. h * MaxP \in Nat /\ h * MaxP < U16
          BY <4>2, OffsetFacts
        <4> QED
          BY <4>1, <4>3, Widths DEF Offsets
      <3> QED
        BY <3>1, <3>2
    <2> HIDE DEF rec, w
    <2>8. /\ adv \in SliceStates /\ adv.watermark = w /\ adv.bitmap = rec.bitmap
          /\ adv.termination = rec.termination /\ adv.received_count = rec.received_count
      BY <2>3, <2>7, WatermarkMoved DEF w
    <2> HIDE DEF adv
    <2>9. ArrivalsOf(adv, p, S1)
      BY <2>3, <2>8 DEF ArrivalsOf
    <2>10. CASE S1 = SlicesOf(p)
      <3>1. step.e = "COMPLETE" /\ step.next_state.watermark = Length(p)
        BY <2>2, <2>4, <2>6, <2>8, <2>10
      <3> QED
        BY <1>4, <2>1, <2>5, <2>6, <2>8, <2>9, <2>10, <3>1
    <2>11. CASE S1 # SlicesOf(p)
      <3>1. step.e = "NEW_SLICE_IN_ORDER"
        BY <2>2, <2>4, <2>11
      <3>2. \E h \in SliceIds :
                FirstGap(p, S1, h) /\ g < h /\ step.next_state.watermark = h * MaxP
        BY <2>4, <2>6, <2>8, <2>11
      <3> QED
        BY <1>4, <2>1, <2>5, <2>6, <2>8, <2>9, <2>11, <3>1, <3>2
    <2> QED
      BY <2>10, <2>11
  <1> QED
    BY <1>2, <1>3, <1>4

\* A package none of whose slices has arrived, over a zero state.
LEMMA FreshPackage ==
    ASSUME NEW p \in Assemblable
    PROVE  /\ ArrivalsOf(ZeroState, p, {})
           /\ 0 \in SliceIds /\ FirstGap(p, {}, 0) /\ 0 * MaxP = 0
           /\ {} # SlicesOf(p)
           /\ ZeroState \in SliceStates
  <1>1. {j \in {} : j < DataCount(p)} = {}
    OBVIOUS
  <1>2. ArrivalsOf(ZeroState, p, {})
    BY <1>1, FS_EmptySet DEF ArrivalsOf, ZeroState
  <1>3. 0 \in SlicesOf(p) /\ 0 \in SliceIds
    BY PackageFacts, Widths DEF SlicesOf, SliceIds
  <1>4. FirstGap(p, {}, 0)
    BY <1>3 DEF FirstGap
  <1>5. 0 \in Offsets
    BY Widths DEF Offsets
  <1> QED
    BY <1>2, <1>3, <1>4, <1>5, MaxPFacts DEF ZeroState, SliceStates

-----------------------------------------------------------------------------
(***************************************************************************)
(* States that hold slices of several packages.  A sender that is killed   *)
(* leaves slices of a package that never ends; its successor's go into the *)
(* same state.                                                             *)
(***************************************************************************)

\* The end of the package is not known.
NoEnd == U8

\* How many bytes of slice i are there if slice e ends the package with r bytes.
Held(i, e, r) == IF i = e THEN r ELSE MaxP

\* The slices with bytes among those of a bitmap
Filled(B, e, r) == {i \in B : i # e \/ r # 0}

\* Slice g is the first that is missing, slice e, if it is not NoEnd, lies
\* behind it and ended the package with r bytes, and every slice with bytes is
\* counted.
MixedState(st, g, e, r) ==
    /\ st \in SliceStates
    /\ st.watermark = g * MaxP /\ g \notin st.bitmap /\ \A j \in 0..(g - 1) : j \in st.bitmap
    /\ \A i \in st.bitmap : i # e => i + 1 < U8
    /\ \A i \in Filled(st.bitmap, e, r) : (i + 1) * MaxP < U16
    /\ st.received_count = Cardinality(Filled(st.bitmap, e, r))
    /\ IF e = NoEnd THEN st.termination = 0
       ELSE g < e /\ e \in st.bitmap /\ st.termination = e * MaxP + r

\* What a sender puts in a slice, x being its eop bit and e the end that is
\* known before it arrives.
SliceSent(i, z, x, e) ==
    /\ i \in SliceIds /\ z \in 0..MaxP /\ x \in 0..1
    /\ x = 1 => e = NoEnd /\ z < MaxP /\ 0 < i * MaxP + z
    /\ x = 0 => z = MaxP /\ i + 1 < U8
    /\ i * MaxP + z < U16
    /\ 0 < z => (i + 1) * MaxP < U16

\* No more slices with bytes than a uint16_t counts.
LEMMA FilledCount ==
    ASSUME NEW B \in SUBSET SliceIds, NEW e, NEW r,
           \A i \in Filled(B, e, r) : (i + 1) * MaxP < U16
    PROVE  /\ IsFiniteSet(Filled(B, e, r))
           /\ Cardinality(Filled(B, e, r)) \in Nat
           /\ Cardinality(Filled(B, e, r)) < U16
  <1> DEFINE F == Filled(B, e, r)
             k == U16 - 2
  <1>1. F \subseteq 0..k
    <2> SUFFICES ASSUME NEW i \in F PROVE i \in 0..k
      OBVIOUS
    <2>1. i \in Nat /\ (i + 1) * MaxP < U16
      BY DEF Filled, SliceIds
    <2>2. i + 1 <= (i + 1) * MaxP /\ (i + 1) * MaxP \in Nat
      <3>1. PICK c \in Nat : c = i + 1
        BY <2>1
      <3>2. MaxP \in Nat \ {0}
        BY MaxPFacts
      <3>3. c <= c * MaxP
        BY ONLY <3>2, c \in Nat, SlicesFit
      <3>4. c * MaxP \in Nat
        BY <3>2
      <3> QED BY <3>1, <3>3, <3>4
    <2> QED BY <2>1, <2>2, Widths
  <1>2. k \in Int /\ 0 <= k
    BY Widths
  <1>3. IsFiniteSet(0..k) /\ Cardinality(0..k) = k + 1
    <2>1. /\ IsFiniteSet(0..k)
          /\ Cardinality(0..k) = (IF 0 > k THEN 0 ELSE k - 0 + 1)
      BY <1>2, FS_Interval
    <2> QED BY <1>2, <2>1
  <1> HIDE DEF F, k
  <1>4. IsFiniteSet(F) /\ Cardinality(F) <= Cardinality(0..k)
    BY <1>1, <1>3, FS_Subset
  <1>5. Cardinality(F) \in Nat
    BY <1>4, FS_CardinalityType
  <1>6. Cardinality(F) < U16
    BY <1>2, <1>3, <1>4, <1>5, Widths DEF k
  <1> QED BY <1>4, <1>5, <1>6 DEF F

\* The state in which a new slice has been recorded but the watermark not moved
RecordedAs(rec, st, i, e, r) ==
    /\ rec \in SliceStates
    /\ rec.bitmap = st.bitmap \union {i}
    /\ rec.watermark = st.watermark
    /\ \A j \in rec.bitmap : j # e => j + 1 < U8
    /\ \A j \in Filled(rec.bitmap, e, r) : (j + 1) * MaxP < U16
    /\ rec.received_count = Cardinality(Filled(rec.bitmap, e, r))
    /\ rec.termination = (IF e = NoEnd THEN 0 ELSE e * MaxP + r)
    /\ e # NoEnd => /\ e \in rec.bitmap /\ e \in SliceIds
                    /\ 0 < e * MaxP + r /\ e * MaxP + r < U16

\* Recording a slice of whatever package keeps the count and sets the end.
LEMMA RecordMixed ==
    ASSUME NEW st, NEW g \in SliceIds, NEW e \in 0..U8, NEW r \in 0..(MaxP - 1),
           MixedState(st, g, e, r),
           NEW i, NEW z, NEW x, SliceSent(i, z, x, e), i \notin st.bitmap,
           NEW e1, e1 = (IF x = 1 THEN i ELSE e), NEW r1, r1 = (IF x = 1 THEN z ELSE r)
    PROVE  RecordedAs(RecordSlice(st, i, z, MaxP, x = 1), st, i, e1, r1)
  <1> DEFINE rec == RecordSlice(st, i, z, MaxP, x = 1)
             B1  == st.bitmap \union {i}
             F   == Filled(st.bitmap, e, r)
             F1  == Filled(B1, e1, r1)
             T1  == IF e1 = NoEnd THEN 0 ELSE e1 * MaxP + r1
  <1>0. /\ st \in SliceStates /\ st.bitmap \in SUBSET SliceIds
        /\ MaxP \in Nat /\ 0 < MaxP /\ U8 \in Nat /\ U16 \in Nat
        /\ st.termination = (IF e = NoEnd THEN 0 ELSE e * MaxP + r)
        /\ e # NoEnd => e \in st.bitmap /\ g < e
        /\ st.received_count = Cardinality(F)
    BY MaxPFacts, Widths DEF MixedState, SliceStates
  <1>1. /\ i \in SliceIds /\ i \in Nat /\ i < U8 /\ z \in Nat /\ i * MaxP \in Nat
        /\ i * MaxP < U16 /\ i * MaxP + z < U16
    BY <1>0 DEF SliceSent, SliceIds
  <1>2. (IF z < MaxP \/ x = 1 THEN mp_rx_calc_termination(i, z, MaxP) ELSE st.termination) = T1
    <2>1. CASE x = 1
      <3>a. U16 \in Nat /\ i * MaxP \in Nat /\ i * MaxP + z \in Nat
            /\ i * MaxP < U16 /\ i * MaxP + z < U16
        BY ONLY <1>0, <1>1
      <3>1. mp_slice_idx_to_offset(i, MaxP) = i * MaxP
        BY ONLY <3>a, NoTruncation DEF mp_slice_idx_to_offset
      <3>2. (i * MaxP + z) % U16 = i * MaxP + z
        BY ONLY <3>a, NoTruncation
      <3>3. mp_rx_calc_termination(i, z, MaxP) = i * MaxP + z
        BY <3>1, <3>2 DEF mp_rx_calc_termination
      <3>4. e1 = i /\ r1 = z /\ e1 # NoEnd
        BY <1>0, <1>1, <2>1 DEF NoEnd
      <3> QED BY <2>1, <3>3, <3>4
    <2>2. CASE x # 1
      <3>1. z = MaxP /\ e1 = e /\ r1 = r
        BY <2>2 DEF SliceSent
      <3> QED BY <1>0, <2>2, <3>1
    <2> QED BY <2>1, <2>2
  <1>3. /\ \A j \in B1 : j # e1 => j + 1 < U8
        /\ \A j \in F1 : (j + 1) * MaxP < U16
    <2>1. CASE x = 1
      <3>1. e1 = i /\ r1 = z /\ e = NoEnd
        BY <2>1 DEF SliceSent
      <3>2. \A j \in st.bitmap : j # e
        BY <1>0, <3>1 DEF NoEnd, SliceIds
      <3>3. \A j \in st.bitmap : j + 1 < U8 /\ (j + 1) * MaxP < U16
        BY <3>2 DEF MixedState, Filled
      <3>4. z # 0 => (i + 1) * MaxP < U16
        BY <1>1 DEF SliceSent
      <3> QED BY <3>1, <3>3, <3>4 DEF Filled
    <2>2. CASE x # 1
      <3>1. z = MaxP /\ e1 = e /\ r1 = r /\ i + 1 < U8 /\ (i + 1) * MaxP < U16
        BY <1>0, <2>2 DEF SliceSent
      <3> QED BY <3>1 DEF MixedState, Filled
    <2> QED BY <2>1, <2>2
  <1>4. F1 = (IF z = 0 /\ x = 1 THEN F ELSE F \union {i})
    <2>1. CASE x = 1
      <3>1. e1 = i /\ r1 = z /\ e = NoEnd
        BY <2>1 DEF SliceSent
      <3>2. F = st.bitmap
        BY <1>0, <3>1 DEF Filled, NoEnd, SliceIds
      <3>3. F1 = {j \in B1 : j # i \/ z # 0}
        BY <3>1 DEF Filled
      <3> QED BY <2>1, <3>2, <3>3
    <2>2. CASE x # 1
      <3>1. z = MaxP /\ e1 = e /\ r1 = r
        BY <2>2 DEF SliceSent
      <3>2. i # e
        BY <1>0, <1>1 DEF NoEnd
      <3> QED BY <1>0, <2>2, <3>1, <3>2 DEF Filled
    <2> QED BY <2>1, <2>2
  <1>5. B1 \in SUBSET SliceIds /\ i \notin F
    BY <1>0, <1>1 DEF Filled
  <1>6. IsFiniteSet(F) /\ Cardinality(F) \in Nat
    BY <1>0, FilledCount DEF MixedState
  <1>7. Cardinality(F1) \in Nat /\ Cardinality(F1) < U16
    BY <1>3, <1>5, FilledCount
  <1> HIDE DEF F, F1
  <1>8. (IF z = 0 /\ x = 1 THEN st.received_count ELSE (st.received_count + 1) % U16)
            = Cardinality(F1)
    <2>1. CASE z = 0 /\ x = 1
      BY <1>0, <1>4, <2>1
    <2>2. CASE ~ (z = 0 /\ x = 1)
      <3>1. F1 = F \union {i}
        BY <1>4, <2>2
      <3>2. Cardinality(F1) = Cardinality(F) + 1
        BY <1>5, <1>6, <3>1, FS_AddElement
      <3>3. Cardinality(F1) % U16 = Cardinality(F1)
        BY <1>0, <1>7, NoTruncation
      <3> QED BY <1>0, <2>2, <3>2, <3>3
    <2> QED BY <2>1, <2>2
  <1>9. rec = [bitmap |-> B1, received_count |-> Cardinality(F1),
               termination |-> T1, watermark |-> st.watermark]
    BY <1>2, <1>8 DEF RecordSlice
  <1>10. e1 # NoEnd => /\ e1 \in B1 /\ e1 \in SliceIds
                       /\ 0 < e1 * MaxP + r1 /\ e1 * MaxP + r1 < U16
    <2>1. CASE x = 1
      <3>1. e1 = i /\ r1 = z
        BY <2>1
      <3> QED BY <1>1, <2>1, <3>1 DEF SliceSent
    <2>2. CASE x # 1
      <3>1. e1 = e /\ r1 = r
        BY <2>2
      <3> SUFFICES ASSUME e # NoEnd
                   PROVE  e \in B1 /\ e \in SliceIds /\ 0 < e * MaxP + r /\ e * MaxP + r < U16
        BY <3>1
      <3>2. e \in st.bitmap /\ e \in SliceIds /\ e \in Nat /\ g \in Nat /\ g < e /\ r \in Nat
        BY <1>0 DEF SliceIds
      <3>3. e * MaxP + r < U16
        BY <1>0 DEF SliceStates, Offsets
      <3>4. g * MaxP + MaxP <= e * MaxP /\ g * MaxP \in Nat /\ e * MaxP \in Nat
        BY <1>0, <3>2, MultiplesGrow
      <3> QED BY <1>0, <3>2, <3>3, <3>4
    <2> QED BY <2>1, <2>2
  <1>11. T1 \in Offsets /\ Cardinality(F1) \in Offsets
    <2>1. T1 \in Nat /\ T1 < U16
      <3>1. CASE e1 = NoEnd
        BY <3>1, Widths
      <3>2. CASE e1 # NoEnd
        <4>1. e1 \in Nat /\ r1 \in Nat
          BY <1>1, <1>10, <3>2 DEF SliceIds
        <4>2. e1 * MaxP + r1 \in Nat
          BY <1>0, <4>1
        <4> QED BY <1>10, <3>2, <4>2
      <3> QED BY <3>1, <3>2
    <2> QED BY <1>0, <1>7, <2>1 DEF Offsets
  <1> HIDE DEF rec, B1, T1
  <1>12. /\ rec.bitmap = B1 /\ rec.termination = T1
         /\ rec.received_count = Cardinality(F1) /\ rec.watermark = st.watermark
    BY <1>9
  <1>13. rec \in SliceStates
    <2>1. st.watermark \in Offsets
      BY <1>0 DEF SliceStates
    <2> QED BY <1>5, <1>9, <1>11, <2>1 DEF SliceStates
  <1>14. RecordedAs(rec, st, i, e1, r1)
    BY <1>3, <1>10, <1>12, <1>13 DEF RecordedAs, B1, F1, T1
  <1> QED BY <1>14 DEF rec

\* A recorded state of which the slices up to the end are all there
Full(rec, e) == \A j \in 0..e : j \in rec.bitmap

\* The number of slices with bytes up to the end
DataSlices(e, r) == IF r = 0 THEN e ELSE e + 1

\* The end as a number of slices
LEMMA EndOfData ==
    ASSUME NEW e \in SliceIds, NEW r \in 0..(MaxP - 1), 0 < e * MaxP + r,
           e * MaxP + r < U16, r # 0 => (e + 1) * MaxP < U16
    PROVE  /\ DataSlices(e, r) \in Nat /\ DataSlices(e, r) * MaxP \in Nat
           /\ DataSlices(e, r) * MaxP < U16
           /\ e * MaxP + r <= DataSlices(e, r) * MaxP
           /\ mp_rx_termination_to_slice_count(e * MaxP + r, MaxP) = DataSlices(e, r)
  <1> DEFINE M == MaxP
             n == DataSlices(e, r)
  <1>0. /\ M \in Nat \ {0} /\ e \in Nat /\ r \in Nat /\ r < M /\ U16 \in Nat
        /\ e * M \in Nat /\ (e + 1) * M = e * M + M
    BY MaxPFacts, Widths DEF SliceIds
  <1>1. /\ n \in Nat /\ n * M \in Nat /\ n * M < U16 /\ e * M + r <= n * M
    <2>1. CASE r = 0
      BY <1>0, <2>1 DEF DataSlices
    <2>2. CASE r # 0
      BY <1>0, <2>2 DEF DataSlices
    <2> QED BY <2>1, <2>2
  <1>2. \E t \in Nat : t < M /\ e * M + r + M - 1 = n * M + t
    <2>1. CASE r = 0
      <3>1. M - 1 \in Nat /\ e * M + r + M - 1 = n * M + (M - 1)
        BY <1>0, <2>1 DEF DataSlices
      <3> QED BY <1>0, <3>1
    <2>2. CASE r # 0
      <3>1. r - 1 \in Nat /\ r - 1 < M /\ e * M + r + M - 1 = n * M + (r - 1)
        BY <1>0, <2>2 DEF DataSlices
      <3> QED BY <3>1
    <2> QED BY <2>1, <2>2
  <1>3. PICK t \in Nat : t < M /\ e * M + r + M - 1 = n * M + t
    BY <1>2
  <1> HIDE DEF M, n
  <1>4. (n * M + t) \div M = n
    BY <1>0, <1>1, <1>3, SliceOfPosition
  <1>5. n % U16 = n
    <2>1. n <= n * M
      BY <1>0, <1>1, SlicesFit
    <2> QED BY <1>0, <1>1, <2>1, NoTruncation
  <1>6. mp_rx_termination_to_slice_count(e * M + r, M) = n
    BY <1>3, <1>4, <1>5 DEF mp_rx_termination_to_slice_count
  <1> QED BY <1>1, <1>6 DEF M, n

\* The test for completeness of a recorded state: it succeeds when no slice up
\* to the end is missing, and if no slice behind the end is there then only so.
LEMMA CompleteMixed ==
    ASSUME NEW rec, NEW st, NEW i, NEW e \in 0..U8, NEW r \in 0..(MaxP - 1),
           RecordedAs(rec, st, i, e, r),
           NEW adv, adv.termination = rec.termination,
           adv.received_count = rec.received_count
    PROVE  /\ mp_rx_is_complete(adv, MaxP) => e # NoEnd
           /\ e # NoEnd /\ Full(rec, e) => mp_rx_is_complete(adv, MaxP)
           /\ mp_rx_is_complete(adv, MaxP) /\ rec.bitmap \subseteq 0..e => Full(rec, e)
  <1> DEFINE F == Filled(rec.bitmap, e, r)
             n == DataSlices(e, r)
  <1>0. /\ rec \in SliceStates /\ rec.bitmap \in SUBSET SliceIds
        /\ \A j \in F : (j + 1) * MaxP < U16
        /\ rec.received_count = Cardinality(F)
        /\ rec.termination = (IF e = NoEnd THEN 0 ELSE e * MaxP + r)
        /\ e # NoEnd => /\ e \in rec.bitmap /\ e \in SliceIds
                        /\ 0 < e * MaxP + r /\ e * MaxP + r < U16
    BY DEF RecordedAs, SliceStates
  <1>1. mp_rx_is_complete(adv, MaxP) => e # NoEnd
    BY <1>0 DEF mp_rx_is_complete
  <1> SUFFICES ASSUME e # NoEnd
               PROVE  /\ Full(rec, e) => mp_rx_is_complete(adv, MaxP)
                      /\ mp_rx_is_complete(adv, MaxP) /\ rec.bitmap \subseteq 0..e
                             => Full(rec, e)
    BY <1>1
  <1>2. /\ e \in rec.bitmap /\ e \in SliceIds /\ e \in Nat /\ r \in Nat /\ n \in Nat
        /\ adv.termination = e * MaxP + r /\ 0 < adv.termination
        /\ r # 0 => (e + 1) * MaxP < U16
    BY <1>0 DEF Filled, SliceIds, DataSlices
  <1>3. mp_rx_termination_to_slice_count(adv.termination, MaxP) = n
    BY <1>0, <1>2, EndOfData
  <1>4. IsFiniteSet(F) /\ Cardinality(F) \in Nat
    BY <1>0, FilledCount
  <1>5. mp_rx_is_complete(adv, MaxP) <=> Cardinality(F) >= n
    BY <1>0, <1>2, <1>3 DEF mp_rx_is_complete
  <1>6. IsFiniteSet(0..(n - 1)) /\ Cardinality(0..(n - 1)) = n
    <2>1. PICK k \in Int : k = n - 1
      BY <1>2
    <2>2. /\ IsFiniteSet(0..k)
          /\ Cardinality(0..k) = (IF 0 > k THEN 0 ELSE k - 0 + 1)
      BY FS_Interval
    <2> QED BY <1>2, <2>1, <2>2
  <1>7. ASSUME Full(rec, e) PROVE mp_rx_is_complete(adv, MaxP)
    <2>1. 0..(n - 1) \subseteq F
      BY <1>2, <1>7 DEF Full, Filled, DataSlices
    <2> HIDE DEF F, n
    <2>2. Cardinality(0..(n - 1)) <= Cardinality(F)
      BY <1>4, <2>1, FS_Subset
    <2> QED BY <1>2, <1>4, <1>5, <1>6, <2>2
  <1>8. ASSUME mp_rx_is_complete(adv, MaxP), rec.bitmap \subseteq 0..e PROVE Full(rec, e)
    <2>1. F \subseteq 0..(n - 1)
      BY <1>2, <1>8 DEF Filled, DataSlices
    <2>2. Cardinality(F) >= n
      BY <1>5, <1>8
    <2> HIDE DEF F, n
    <2>3. Cardinality(F) <= Cardinality(0..(n - 1))
          /\ (Cardinality(0..(n - 1)) = Cardinality(F) => 0..(n - 1) = F)
      BY <1>6, <2>1, FS_Subset
    <2>4. F = 0..(n - 1)
      BY <1>2, <1>4, <1>6, <2>2, <2>3
    <2> QED BY <1>2, <2>4 DEF F, n, Full, Filled, DataSlices
  <1> QED BY <1>7, <1>8

\* How far the watermark of a recorded state st moves from its first gap g.
AdvancedTo(rec, st, g, e, r) ==
    LET adv == MoveWatermark(rec, MaxP)
        w   == mp_rx_advance_watermark(rec, MaxP)
    IN  /\ AdvanceReturns(rec, MaxP)
        /\ \/ /\ e # NoEnd /\ Full(rec, e) /\ w = e * MaxP + r
           \/ \E b \in SliceIds :
                 /\ g < b /\ b \notin rec.bitmap /\ \A j \in 0..(b - 1) : j \in rec.bitmap
                 /\ w = b * MaxP /\ b * MaxP < U16
                 /\ e # NoEnd => b < e

\* The watermark loop ends, at the next gap or, when none is left before the
\* end of the package, at the end.
LEMMA AdvanceMixed ==
    ASSUME NEW st, NEW g \in SliceIds, NEW rec, NEW e \in 0..U8, NEW r \in 0..(MaxP - 1),
           RecordedAs(rec, st, g, e, r), st.watermark = g * MaxP,
           \A j \in 0..(g - 1) : j \in st.bitmap,
           e # NoEnd => g <= e
    PROVE  AdvancedTo(rec, st, g, e, r)
  <1> DEFINE M == MaxP
             n == DataSlices(e, r)
             w == mp_rx_advance_watermark(rec, MaxP)
  <1>0. /\ rec \in SliceStates /\ rec.bitmap \in SUBSET SliceIds /\ g \in rec.bitmap
        /\ rec.watermark = g * MaxP
        /\ \A j \in 0..g : j \in rec.bitmap
        /\ \A j \in rec.bitmap : j # e => j + 1 < U8 /\ (j + 1) * MaxP < U16
        /\ rec.termination = (IF e = NoEnd THEN 0 ELSE e * MaxP + r)
        /\ e # NoEnd => /\ e \in rec.bitmap /\ e \in SliceIds
                        /\ 0 < e * MaxP + r /\ e * MaxP + r < U16
                        /\ r # 0 => (e + 1) * MaxP < U16
        /\ g \in Nat /\ r \in Nat /\ r < MaxP
    BY MaxPFacts DEF RecordedAs, SliceStates, SliceIds, Filled
  <1>1. MaxP \in Nat \ {0} /\ U8 \in Nat /\ U16 \in Nat
    BY MaxPFacts, Widths
  <1>2. PICK b \in Nat : /\ b \notin rec.bitmap
                         /\ \A j \in 0..(b - 1) : j \in rec.bitmap
    <2> DEFINE T == {j \in Nat : j \notin rec.bitmap}
    <2>1. U8 \in T
      BY <1>0, <1>1 DEF SliceIds
    <2>2. PICK b \in T : \A y \in T : b <= y
      <3>1. T \subseteq Nat /\ T # {}
        BY <2>1
      <3> HIDE DEF T
      <3> QED BY <3>1, LeastElement
    <2>3. \A j \in 0..(b - 1) : j \in rec.bitmap
      BY <2>2
    <2> QED BY <2>2, <2>3
  <1>3. g < b
    BY <1>0, <1>2
  <1>4. CASE e # NoEnd /\ e < b
    <2>1. Full(rec, e)
      BY <1>0, <1>2, <1>4 DEF Full, SliceIds
    <2>2. /\ n \in Nat /\ n * MaxP \in Nat /\ n * MaxP < U16 /\ e * MaxP + r <= n * MaxP
      BY <1>0, <1>4, EndOfData
    <2>3. g <= n /\ e \in Nat
      BY <1>0, <1>4 DEF DataSlices, SliceIds
    <2>4. ASSUME NEW j \in g..(n - 1)
          PROVE  j \in rec.bitmap /\ j * MaxP < rec.termination
      <3>1. j \in Nat /\ j <= e /\ (j = e => r # 0)
        BY <1>0, <2>2, <2>3 DEF DataSlices
      <3>2. j \in rec.bitmap
        BY <2>1, <2>3, <3>1 DEF Full
      <3>3. CASE j = e
        BY <1>0, <1>1, <1>4, <2>3, <3>1, <3>3
      <3>4. CASE j < e
        <4>1. j * MaxP + MaxP <= e * MaxP
          BY <1>1, <2>3, <3>1, <3>4, MultiplesGrow
        <4>2. j * MaxP \in Nat /\ e * MaxP \in Nat
          BY <1>1, <2>3, <3>1
        <4> QED BY <1>0, <1>1, <1>4, <3>2, <4>1, <4>2
      <3> QED BY <2>3, <3>1, <3>2, <3>3, <3>4
    <2>5. rec.termination > 0 /\ n * MaxP >= rec.termination /\ rec.termination \in Nat
      BY <1>0, <1>4, <2>2 DEF SliceStates, Offsets
    <2> HIDE DEF n
    <2>6. Reaches(rec, MaxP, g, n)
      BY <1>0, <2>2, <2>3, <2>4, <2>5 DEF Reaches
    <2>7. /\ AdvanceReturns(rec, MaxP)
          /\ mp_rx_advance_watermark(rec, MaxP) =
                 IF rec.termination > 0 /\ n * MaxP > rec.termination
                 THEN rec.termination ELSE n * MaxP
      BY <1>0, <1>1, <2>2, <2>6, AdvanceResult
    <2>8. w = e * MaxP + r
      BY <1>0, <1>4, <2>2, <2>5, <2>7
    <2> QED BY <1>4, <2>1, <2>7, <2>8 DEF AdvancedTo
  <1>5. CASE ~ (e # NoEnd /\ e < b)
    <2>1. e # NoEnd => b < e /\ e \in Nat
      <3>1. e # NoEnd => e \in Nat /\ e \in rec.bitmap
        BY <1>0 DEF SliceIds
      <3> QED BY <1>2, <1>5, <3>1
    <2>2. b \in SliceIds /\ b * MaxP < U16
      <3>1. b - 1 \in 0..(b - 1) /\ b - 1 \in rec.bitmap /\ b - 1 \in Nat
        BY <1>0, <1>2, <1>3
      <3>2. b - 1 # e
        <4>1. CASE e = NoEnd
          BY <1>0, <3>1, <4>1 DEF NoEnd, SliceIds
        <4>2. CASE e # NoEnd
          BY <2>1, <4>2
        <4> QED BY <4>1, <4>2
      <3>3. (b - 1) + 1 < U8 /\ ((b - 1) + 1) * MaxP < U16
        BY <1>0, <3>1, <3>2
      <3>4. (b - 1) + 1 = b
        OBVIOUS
      <3> QED BY <1>1, <3>3, <3>4 DEF SliceIds
    <2>3. ASSUME NEW j \in g..(b - 1)
          PROVE  j \in rec.bitmap /\ (rec.termination > 0 => j * MaxP < rec.termination)
      <3>1. j \in Nat /\ j \in 0..(b - 1) /\ j \in rec.bitmap
        BY <1>0, <1>2
      <3>2. ASSUME rec.termination > 0 PROVE j * MaxP < rec.termination
        <4>1. e # NoEnd /\ j < e /\ e \in Nat
          BY <1>0, <2>1, <3>1, <3>2
        <4>2. j * MaxP + MaxP <= e * MaxP
          BY <1>1, <3>1, <4>1, MultiplesGrow
        <4>3. j * MaxP \in Nat /\ e * MaxP \in Nat
          BY <1>1, <3>1, <4>1
        <4> QED BY <1>0, <1>1, <4>1, <4>2, <4>3
      <3> QED BY <3>1, <3>2
    <2>4. Reaches(rec, MaxP, g, b)
      <3>1. g <= b /\ b < U8 /\ b \in Nat
        BY <1>0, <1>1, <1>3, <2>2 DEF SliceIds
      <3>2. \/ rec.termination > 0 /\ b * MaxP >= rec.termination
            \/ b < U8 /\ b \notin rec.bitmap
        BY <1>2, <3>1
      <3> QED BY <1>0, <2>2, <2>3, <3>1, <3>2 DEF Reaches
    <2>5. /\ AdvanceReturns(rec, MaxP)
          /\ mp_rx_advance_watermark(rec, MaxP) =
                 IF rec.termination > 0 /\ b * MaxP > rec.termination
                 THEN rec.termination ELSE b * MaxP
      BY <1>0, <1>1, <1>2, <2>4, AdvanceResult
    <2>6. ~ (rec.termination > 0 /\ b * MaxP > rec.termination)
      <3>1. CASE e = NoEnd
        BY <1>0, <3>1
      <3>2. CASE e # NoEnd
        <4>1. b * MaxP + MaxP <= e * MaxP
          BY <1>1, <2>1, <3>2, MultiplesGrow
        <4>2. b * MaxP \in Nat /\ e * MaxP \in Nat
          BY <1>1, <2>1, <3>2
        <4> QED BY <1>0, <1>1, <3>2, <4>1, <4>2
      <3> QED BY <3>1, <3>2
    <2>7. w = b * MaxP
      BY <2>5, <2>6
    <2> QED BY <1>2, <1>3, <2>1, <2>2, <2>5, <2>7 DEF AdvancedTo
  <1> QED BY <1>4, <1>5

\* Every byte from slice g up to the watermark W is there.
Covers(B, e, r, g, W) ==
    \A j \in Nat, b \in 0..(MaxP - 1) :
        g <= j /\ j * MaxP + b < W => j \in B /\ b < Held(j, e, r)

\* What a step does with a slice i of whatever package, when e and r tell the
\* end that is known behind it.
MixedOutcome(st, g, e, r, i, step) ==
    LET next == step.next_state
        B    == st.bitmap \union {i}
    IN  CASE i \in st.bitmap -> step.e = "DUPLICATE"
          [] i \notin st.bitmap /\ i # g ->
                /\ step.e = "NEW_SLICE_OUT_OF_ORDER" /\ next.bitmap = B
                /\ MixedState(next, g, e, r)
          [] OTHER ->
                /\ next.watermark \in Nat /\ g * MaxP <= next.watermark
                /\ Covers(B, e, r, g, next.watermark)
                /\ \/ /\ step.e = "NEW_SLICE_IN_ORDER" /\ next.bitmap = B
                      /\ \E h \in SliceIds : g < h /\ MixedState(next, h, e, r)
                   \/ /\ step.e = "COMPLETE" /\ e # NoEnd
                      /\ B \subseteq 0..e =>
                            0..e \subseteq B /\ next.watermark = e * MaxP + r

\* What the watermark moves over is there.
LEMMA AdvanceCovers ==
    ASSUME NEW st, NEW g \in SliceIds, NEW rec, NEW e \in 0..U8, NEW r \in 0..(MaxP - 1),
           RecordedAs(rec, st, g, e, r), AdvancedTo(rec, st, g, e, r), e # NoEnd => g <= e
    PROVE  LET w == mp_rx_advance_watermark(rec, MaxP)
           IN  w \in Offsets /\ g * MaxP <= w /\ Covers(rec.bitmap, e, r, g, w)
  <1> DEFINE w == mp_rx_advance_watermark(rec, MaxP)
  <1>0. /\ MaxP \in Nat \ {0} /\ U16 \in Nat /\ U8 \in Nat
        /\ g \in Nat /\ r \in Nat /\ r < MaxP /\ g * MaxP \in Nat
        /\ rec.bitmap \in SUBSET SliceIds
    BY MaxPFacts, Widths DEF SliceIds, RecordedAs, SliceStates
  <1> SUFFICES w \in Offsets /\ g * MaxP <= w /\ Covers(rec.bitmap, e, r, g, w)
    OBVIOUS
  <1>1. CASE e # NoEnd /\ Full(rec, e) /\ w = e * MaxP + r
    <2>1. e \in Nat /\ e * MaxP \in Nat /\ e * MaxP + r < U16 /\ g <= e
      BY <1>0, <1>1 DEF RecordedAs, SliceIds
    <2>2. g * MaxP <= e * MaxP
      <3>1. CASE g = e
        BY <1>0, <3>1
      <3>2. CASE g < e
        <4>1. g * MaxP + MaxP <= e * MaxP
          BY <1>0, <2>1, <3>2, MultiplesGrow
        <4> QED BY <1>0, <2>1, <4>1
      <3> QED BY <1>0, <2>1, <3>1, <3>2
    <2>3. ASSUME NEW j \in Nat, NEW b \in 0..(MaxP - 1), g <= j, j * MaxP + b < w
          PROVE  j \in rec.bitmap /\ b < Held(j, e, r)
      <3>0. j * MaxP \in Nat /\ b \in Nat /\ b < MaxP
        BY <1>0
      <3>1. j <= e
        <4>1. ASSUME e < j PROVE FALSE
          <5>1. e * MaxP + MaxP <= j * MaxP
            BY <1>0, <2>1, <4>1, MultiplesGrow
          <5> QED BY <1>0, <1>1, <2>1, <2>3, <3>0, <5>1
        <4> QED BY <2>1, <4>1
      <3>2. j \in rec.bitmap
        BY <1>1, <2>1, <3>1 DEF Full
      <3>3. j = e => b < r
        BY <1>0, <1>1, <2>1, <2>3, <3>0
      <3> QED BY <3>0, <3>2, <3>3 DEF Held
    <2> QED BY <1>0, <1>1, <2>1, <2>2, <2>3 DEF Covers, Offsets
  <1>2. ASSUME NEW c \in SliceIds, g < c, \A j \in 0..(c - 1) : j \in rec.bitmap,
               w = c * MaxP, c * MaxP < U16, e # NoEnd => c < e
        PROVE  w \in Offsets /\ g * MaxP <= w /\ Covers(rec.bitmap, e, r, g, w)
    <2>1. c \in Nat /\ c * MaxP \in Nat /\ g * MaxP + MaxP <= c * MaxP
      <3>1. c \in Nat
        BY DEF SliceIds
      <3> QED BY <1>0, <1>2, <3>1, MultiplesGrow
    <2>2. ASSUME NEW j \in Nat, NEW b \in 0..(MaxP - 1), g <= j, j * MaxP + b < w
          PROVE  j \in rec.bitmap /\ b < Held(j, e, r)
      <3>0. j * MaxP \in Nat /\ b \in Nat /\ b < MaxP
        BY <1>0
      <3>1. j < c
        <4>1. ASSUME c < j PROVE FALSE
          <5>1. c * MaxP + MaxP <= j * MaxP
            BY <1>0, <2>1, <4>1, MultiplesGrow
          <5> QED BY <1>0, <1>2, <2>1, <2>2, <3>0, <5>1
        <4>2. j # c
          BY <1>2, <2>1, <2>2, <3>0
        <4> QED BY <2>1, <4>1, <4>2
      <3>2. j \in rec.bitmap
        BY <1>2, <2>1, <3>1
      <3>3. j # e
        <4>1. CASE e = NoEnd
          BY <1>0, <3>2, <4>1 DEF NoEnd, SliceIds
        <4>2. CASE e # NoEnd
          BY <1>0, <1>2, <2>1, <3>1, <4>2
        <4> QED BY <4>1, <4>2
      <3> QED BY <3>0, <3>2, <3>3 DEF Held
    <2> QED BY <1>0, <1>2, <2>1, <2>2 DEF Covers, Offsets
  <1> HIDE DEF w
  <1>3. \/ e # NoEnd /\ Full(rec, e) /\ w = e * MaxP + r
        \/ \E c \in SliceIds :
              /\ g < c /\ c \notin rec.bitmap /\ \A j \in 0..(c - 1) : j \in rec.bitmap
              /\ w = c * MaxP /\ c * MaxP < U16
              /\ e # NoEnd => c < e
    BY DEF AdvancedTo, w
  <1> QED BY <1>1, <1>2, <1>3

\* Every slice that a sender puts on the link, of whatever package, leaves a
\* state of this kind or completes the package that has ended.
LEMMA MixedStep ==
    ASSUME NEW st, NEW g \in SliceIds, NEW e \in 0..U8, NEW r \in 0..(MaxP - 1),
           MixedState(st, g, e, r),
           NEW i, NEW z, NEW x, SliceSent(i, z, x, e),
           NEW e1, e1 = (IF x = 1 THEN i ELSE e), NEW r1, r1 = (IF x = 1 THEN z ELSE r)
    PROVE  MixedOutcome(st, g, e1, r1, i, mp_rx_calc_slice_step(st, i, z, MaxP, x = 1))
  <1> DEFINE rec  == RecordSlice(st, i, z, MaxP, x = 1)
             adv  == MoveWatermark(rec, MaxP)
             step == mp_rx_calc_slice_step(st, i, z, MaxP, x = 1)
             B    == st.bitmap \union {i}
  <1>0. /\ MaxP \in Nat \ {0} /\ U16 \in Nat /\ U8 \in Nat /\ g \in Nat /\ g * MaxP \in Nat
        /\ i \in SliceIds /\ i \in Nat /\ i < U8 /\ i * MaxP \in Nat /\ i * MaxP < U16
        /\ z \in Nat
        /\ st \in SliceStates /\ st.watermark = g * MaxP /\ g \notin st.bitmap
        /\ \A j \in 0..(g - 1) : j \in st.bitmap
    <2>1. i \in SliceIds /\ z \in 0..MaxP /\ i * MaxP + z < U16
      BY DEF SliceSent
    <2>2. MaxP \in Nat \ {0} /\ U16 \in Nat /\ U8 \in Nat /\ g \in Nat /\ i \in Nat /\ i < U8
      BY <2>1, MaxPFacts, Widths DEF SliceIds
    <2>3. g * MaxP \in Nat /\ i * MaxP \in Nat /\ z \in Nat /\ i * MaxP < U16
      BY <2>1, <2>2
    <2> QED BY <2>1, <2>2, <2>3 DEF MixedState
  <1>1. e1 \in 0..U8 /\ r1 \in 0..(MaxP - 1)
    <2>1. x = 1 => z < MaxP
      BY DEF SliceSent
    <2> QED BY <1>0, <2>1
  <1>2. InOrder(st, i, MaxP) <=> i * MaxP <= g * MaxP
    <2>1. mp_slice_idx_to_offset(i, MaxP) = i * MaxP
      BY <1>0, NoTruncation DEF mp_slice_idx_to_offset
    <2> QED BY <1>0, <2>1 DEF InOrder
  <1>3. CASE i \in st.bitmap
    <2>1. step = [e |-> "DUPLICATE", next_state |-> st]
      BY <1>3 DEF mp_rx_calc_slice_step
    <2> QED BY <1>3, <2>1 DEF MixedOutcome
  <1>4. i \notin st.bitmap => RecordedAs(rec, st, i, e1, r1)
    BY RecordMixed
  <1>5. CASE i \notin st.bitmap /\ i # g
    <2>1. g < i
      BY <1>0, <1>5
    <2>2. ~ InOrder(st, i, MaxP)
      <3>1. g * MaxP < i * MaxP
        BY <1>0, <2>1, OffsetsOrdered
      <3> QED BY <1>0, <1>2, <3>1
    <2>3. step = [e |-> "NEW_SLICE_OUT_OF_ORDER", next_state |-> rec]
      BY <1>5, <2>2 DEF mp_rx_calc_slice_step
    <2> HIDE DEF rec
    <2>4. RecordedAs(rec, st, i, e1, r1)
      BY <1>4, <1>5
    <2>5. e1 # NoEnd => g < e1
      BY <2>1 DEF MixedState
    <2>6. MixedState(rec, g, e1, r1)
      <3>1. rec \in SliceStates /\ rec.bitmap = B /\ rec.watermark = g * MaxP
        BY <1>0, <2>4 DEF RecordedAs
      <3>2. g \notin rec.bitmap /\ \A j \in 0..(g - 1) : j \in rec.bitmap
        BY <1>0, <1>5, <3>1
      <3> QED BY <2>4, <2>5, <3>1, <3>2 DEF RecordedAs, MixedState
    <2>7. rec.bitmap = B
      BY <2>4 DEF RecordedAs
    <2> QED BY <1>5, <2>3, <2>6, <2>7 DEF MixedOutcome
  <1>6. CASE i = g
    <2>1. InOrder(st, i, MaxP) /\ i \notin st.bitmap
      BY <1>0, <1>2, <1>6
    <2>2. step = [e |-> IF mp_rx_is_complete(adv, MaxP)
                        THEN "COMPLETE" ELSE "NEW_SLICE_IN_ORDER",
                  next_state |-> adv]
      BY <2>1 DEF mp_rx_calc_slice_step
    <2> HIDE DEF rec
    <2>3. RecordedAs(rec, st, g, e1, r1)
      BY <1>4, <1>6, <2>1
    <2>4. e1 # NoEnd => g <= e1
      BY <1>0, <1>6 DEF MixedState
    <2> DEFINE w == mp_rx_advance_watermark(rec, MaxP)
    <2>5. AdvancedTo(rec, st, g, e1, r1)
      BY <1>0, <1>1, <2>3, <2>4, AdvanceMixed
    <2>6. w \in Offsets /\ g * MaxP <= w /\ Covers(rec.bitmap, e1, r1, g, w)
      BY <1>1, <2>3, <2>4, <2>5, AdvanceCovers
    <2>7. rec \in SliceStates /\ rec.bitmap = B
      BY <1>6, <2>3 DEF RecordedAs
    <2>8. /\ \/ e1 # NoEnd /\ Full(rec, e1) /\ w = e1 * MaxP + r1
             \/ \E b \in SliceIds :
                   /\ g < b /\ b \notin rec.bitmap /\ \A j \in 0..(b - 1) : j \in rec.bitmap
                   /\ w = b * MaxP /\ b * MaxP < U16
                   /\ e1 # NoEnd => b < e1
      BY <2>5 DEF AdvancedTo
    <2> HIDE DEF w
    <2>9. /\ adv \in SliceStates /\ adv.watermark = w /\ adv.bitmap = B
          /\ adv.termination = rec.termination /\ adv.received_count = rec.received_count
      BY <2>6, <2>7, WatermarkMoved DEF w
    <2> HIDE DEF adv
    <2>10. /\ mp_rx_is_complete(adv, MaxP) => e1 # NoEnd
           /\ e1 # NoEnd /\ Full(rec, e1) => mp_rx_is_complete(adv, MaxP)
           /\ mp_rx_is_complete(adv, MaxP) /\ rec.bitmap \subseteq 0..e1 => Full(rec, e1)
      BY <1>1, <2>3, <2>9, CompleteMixed
    <2>11. w \in Nat
      BY <1>0, <2>6 DEF Offsets
    <2>12. CASE mp_rx_is_complete(adv, MaxP)
      <3>1. step.e = "COMPLETE" /\ step.next_state = adv
        BY <2>2, <2>12
      <3>2. B \subseteq 0..e1 => 0..e1 \subseteq B /\ w = e1 * MaxP + r1
        <4> SUFFICES ASSUME B \subseteq 0..e1
                     PROVE  0..e1 \subseteq B /\ w = e1 * MaxP + r1
          OBVIOUS
        <4>1. Full(rec, e1)
          BY <2>7, <2>10, <2>12
        <4>2. 0..e1 \subseteq rec.bitmap
          BY <4>1 DEF Full
        <4>3. w = e1 * MaxP + r1
          <5> SUFFICES ASSUME NEW b \in SliceIds, b \notin rec.bitmap, e1 # NoEnd => b < e1
                       PROVE  FALSE
            BY <2>8
          <5>1. b \in 0..e1
            BY <2>10, <2>12, <1>1 DEF SliceIds
          <5> QED BY <4>2, <5>1
        <4> QED BY <2>7, <4>2, <4>3
      <3> HIDE DEF step, B
      <3>3. e1 # NoEnd
        BY <2>10, <2>12
      <3>4. /\ step.next_state.watermark \in Nat /\ g * MaxP <= step.next_state.watermark
            /\ Covers(B, e1, r1, g, step.next_state.watermark)
        BY <2>6, <2>7, <2>9, <2>11, <3>1
      <3>5. MixedOutcome(st, g, e1, r1, i, step)
        BY <1>6, <2>1, <2>9, <3>1, <3>2, <3>3, <3>4 DEF MixedOutcome, B
      <3> QED BY <3>5 DEF step
    <2>13. CASE ~ mp_rx_is_complete(adv, MaxP)
      <3>1. step.e = "NEW_SLICE_IN_ORDER" /\ step.next_state = adv
        BY <2>2, <2>13
      <3>2. PICK b \in SliceIds :
                   /\ g < b /\ b \notin rec.bitmap /\ \A j \in 0..(b - 1) : j \in rec.bitmap
                   /\ w = b * MaxP
                   /\ e1 # NoEnd => b < e1
        BY <2>8, <2>10, <2>13
      <3> HIDE DEF step, B
      <3>3. MixedState(adv, b, e1, r1)
        <4>1. adv.bitmap = rec.bitmap
          BY <2>7, <2>9
        <4>2. /\ \A j \in adv.bitmap : j # e1 => j + 1 < U8
              /\ \A j \in Filled(adv.bitmap, e1, r1) : (j + 1) * MaxP < U16
              /\ adv.received_count = Cardinality(Filled(adv.bitmap, e1, r1))
              /\ adv.termination = (IF e1 = NoEnd THEN 0 ELSE e1 * MaxP + r1)
              /\ e1 # NoEnd => e1 \in adv.bitmap
          BY <2>3, <2>9, <4>1 DEF RecordedAs
        <4>3. /\ adv.watermark = b * MaxP /\ b \notin adv.bitmap
              /\ \A j \in 0..(b - 1) : j \in adv.bitmap
          BY <2>9, <3>2, <4>1
        <4> QED BY <2>9, <3>2, <4>2, <4>3 DEF MixedState
      <3>4. /\ step.next_state.watermark \in Nat /\ g * MaxP <= step.next_state.watermark
            /\ Covers(B, e1, r1, g, step.next_state.watermark)
        BY <2>6, <2>7, <2>9, <2>11, <3>1
      <3>5. MixedOutcome(st, g, e1, r1, i, step)
        BY <1>6, <2>1, <2>9, <3>1, <3>2, <3>3, <3>4 DEF MixedOutcome, B
      <3> QED BY <3>5 DEF step
    <2> QED BY <2>12, <2>13
  <1> QED BY <1>3, <1>5, <1>6

\* The watermark loop, where it returns, leaves a watermark of its type.
LEMMA AdvanceTyped ==
    ASSUME NEW st \in SliceStates, AdvanceReturns(st, MaxP)
    PROVE  mp_rx_advance_watermark(st, MaxP) \in Offsets
  <1> DEFINE T == {k \in 0..U16 : StopsAt(st, MaxP, k)}
             First(k) == /\ StopsAt(st, MaxP, k)
                         /\ \A j \in 0..(k - 1) : ~ StopsAt(st, MaxP, j)
             rounds == CHOOSE k \in 0..U16 : First(k)
             wm == WatermarkAt(st, MaxP, rounds)
  <1>1. /\ MaxP \in Nat \ {0} /\ U16 \in Nat /\ 0 < U16
        /\ st.watermark \in Nat /\ st.termination \in Offsets
    BY MaxPFacts, Widths DEF SliceStates, Offsets
  <1>2. \E k \in 0..U16 : First(k)
    <2>1. T # {} /\ T \subseteq Nat
      BY <1>1 DEF AdvanceReturns
    <2>2. PICK k \in T : \A y \in T : k <= y
      <3> HIDE DEF T
      <3> QED BY <2>1, LeastElement
    <2>3. ASSUME NEW j \in 0..(k - 1) PROVE ~ StopsAt(st, MaxP, j)
      <3>1. j \in 0..U16 /\ ~ (k <= j)
        BY <1>1, <2>2
      <3> QED BY <2>2, <3>1
    <2> QED BY <2>2, <2>3
  <1> HIDE DEF First
  <1>3. rounds \in 0..U16
    BY <1>2
  <1> HIDE DEF rounds
  <1>4. wm \in Offsets
    <2>1. st.watermark + rounds * MaxP \in Nat
      BY <1>1, <1>3
    <2>2. (st.watermark + rounds * MaxP) % U16 \in 0..(U16 - 1)
      BY <1>1, <2>1
    <2> QED BY <2>2 DEF WatermarkAt, Offsets
  <1>5. mp_rx_advance_watermark(st, MaxP) =
            IF st.termination > 0 /\ wm > st.termination THEN st.termination ELSE wm
    BY DEF mp_rx_advance_watermark, rounds, First
  <1> HIDE DEF wm
  <1> QED BY <1>1, <1>4, <1>5

\* A step that returns leaves a state of its type, whatever the state before it and
\* whatever the header says.
LEMMA StepTyped ==
    ASSUME NEW st \in SliceStates, NEW i \in SliceIds, NEW z \in Nat, NEW last \in BOOLEAN,
           ~ StepDiverges(st, i, z, MaxP, last),
           NEW step, step = mp_rx_calc_slice_step(st, i, z, MaxP, last)
    PROVE  step.next_state \in SliceStates
  <1> DEFINE rec == RecordSlice(st, i, z, MaxP, last)
             adv == MoveWatermark(rec, MaxP)
  <1>1. \A n \in Nat : n % U16 \in Offsets
    BY Widths DEF Offsets
  <1>2. /\ st.bitmap \in SUBSET SliceIds /\ st.received_count \in Nat
        /\ st.received_count \in Offsets /\ st.termination \in Offsets /\ st.watermark \in Offsets
    BY Widths DEF SliceStates, Offsets
  <1>3. rec \in SliceStates
    <2>1. mp_rx_calc_termination(i, z, MaxP) \in Offsets
      <3>1. i * MaxP \in Nat
        BY MaxPFacts, Widths DEF SliceIds
      <3>2. mp_slice_idx_to_offset(i, MaxP) \in Nat
        BY <1>1, <3>1, Widths DEF mp_slice_idx_to_offset, Offsets
      <3> QED BY <1>1, <3>2 DEF mp_rx_calc_termination
    <2>2. (st.received_count + 1) % U16 \in Offsets
      BY <1>1, <1>2
    <2>3. st.bitmap \union {i} \in SUBSET SliceIds
      BY <1>2
    <2> QED BY <1>2, <2>1, <2>2, <2>3 DEF RecordSlice, SliceStates
  <1> HIDE DEF rec
  <1>4. CASE i \in st.bitmap
    <2>1. step.next_state = st
      BY <1>4 DEF mp_rx_calc_slice_step
    <2> QED BY <2>1
  <1>5. CASE i \notin st.bitmap /\ ~ InOrder(st, i, MaxP)
    <2>1. step.next_state = rec
      BY <1>5 DEF mp_rx_calc_slice_step, rec
    <2> QED BY <1>3, <2>1
  <1>6. CASE i \notin st.bitmap /\ InOrder(st, i, MaxP)
    <2>1. AdvanceReturns(rec, MaxP)
      BY <1>6 DEF StepDiverges, rec
    <2>2. mp_rx_advance_watermark(rec, MaxP) \in Offsets
      BY <1>3, <2>1, AdvanceTyped
    <2>3. adv \in SliceStates
      BY <1>3, <2>2 DEF MoveWatermark, SliceStates
    <2>4. step.next_state = adv
      BY <1>6 DEF mp_rx_calc_slice_step, rec
    <2> QED BY <2>3, <2>4
  <1> QED BY <1>4, <1>5, <1>6
=============================================================================

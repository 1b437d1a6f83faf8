------------------------- MODULE SlotDecoderProofs --------------------------
(***************************************************************************)
(* SlotDecoder, proved for every width, transmission unit, set of senders  *)
(* and number of messages: a message is observed when its last slice       *)
(* arrives and consists of its own slices only, whatever the slots and the *)
(* uninitialised clock held before.                                        *)
(***************************************************************************)
EXTENDS SlotDecoder, SliceStepProofs

\* The C++ and C# encoders cut packages this way unless a message fills its
\* last slice and the C# writer ends it with an empty one.
EverySliceCarriesData ==
    \A shape \in Shapes : shape.rest # 0 \/ shape.style = "FullEop"

\* A slot is not left untouched until its generation, a uint8_t, has come
\* around: some slice of every message arrives, or the messages are too few.
GenerationsDiffer == MaxJump = 1 \/ MaxMessages < U8 * U8

\* Fewer messages in a row than half a turn of ids are lost.  The code has nothing
\* that ensures it; beyond it gc_hook misses that the ids have come around.
JumpsAreShort == MaxJump <= U8 \div 2

-----------------------------------------------------------------------------
(* The inductive invariant *)

SlotType == [state : SliceStates, data : [SliceIds -> Int], gen : PackageIds]

MetaType == [pkg : PackageIds, gen : PackageIds]

\* The packages that senders send.
Sent == {p \in Assemblable : p.rest # 0 \/ p.style = "FullEop"}

FlightType == [n : 0..MaxMessages, arrived : SUBSET SliceIds, observed : 0..1, pkg : Sent]

TablesOK ==
    /\ slots \in [Senders \X PackageIds -> SlotType]
    /\ meta \in [Senders -> MetaType]
    /\ flights \in [Senders -> FlightType \X FlightType]

\* A flight carries its own package id, and is observed when all has arrived.
FlightOK(f) ==
    /\ f.pkg.id = f.n % U8
    /\ f.arrived \subseteq SlicesOf(f.pkg)
    /\ f.observed = (IF f.arrived = SlicesOf(f.pkg) THEN 1 ELSE 0)

\* The message of sender s of which a slice arrived last, -1 before the first.
Heard(s) ==
    IF flights[s][2].arrived # {} THEN flights[s][2].n
    ELSE IF flights[s][1].arrived # {} THEN flights[s][1].n
    ELSE -1

\* A message that is not heard yet follows the last one that was.
FlightsFollow(s) ==
    flights[s][2].arrived = {} /\ flights[s][1].arrived # {} =>
        flights[s][1].n < flights[s][2].n /\ flights[s][2].n <= flights[s][1].n + MaxJump

\* The generation of message n, g0 being that of message 0.
GenOf(g0, n) == (g0 + n \div U8) % U8

\* What slot id of a sender may hold when h is the last message heard: nothing,
\* or slices of an earlier message with that id, stamped with its generation.
Holds(slot, id, g0, h) ==
    \/ slot.state = ZeroState
    \/ /\ slot.state.received_count > 0
       /\ \E m \in 0..h : /\ m % U8 = id
                          /\ slot.gen = GenOf(g0, m)
                          /\ MaxJump = 1 => h < m + U8

\* The clock of sender s tells the generation of the last message heard.
ClockOK(s) ==
    \E g0 \in PackageIds :
        /\ Heard(s) >= 0 =>
              meta[s].pkg = Heard(s) % U8 /\ meta[s].gen = GenOf(g0, Heard(s))
        /\ \A id \in PackageIds : Holds(slots[<<s, id>>], id, g0, Heard(s))

\* A slot records exactly the slices S of message n, whose package is p.
Records(slot, p, S, n) ==
    /\ ArrivalsOf(slot.state, p, S)
    /\ \E g \in SliceIds : FirstGap(p, S, g) /\ slot.state.watermark = g * MaxP
    /\ \A i \in S : slot.data[i] = n

\* The slot of a message in flight records its arrivals.
InFlight(s) ==
    LET f == flights[s][2]
        slot == slots[<<s, f.pkg.id>>]
    IN  f.arrived # {} /\ f.observed = 0 =>
            slot.gen = meta[s].gen /\ Records(slot, f.pkg, f.arrived, f.n)

(***************************************************************************)
(* That a message in flight is recorded needs the slot it starts from to   *)
(* be zero or dropped by the clock, hence what every slot may hold and     *)
(* what the clock tells.                                                   *)
(***************************************************************************)
SenderOK(s) ==
    /\ FlightOK(flights[s][1]) /\ FlightOK(flights[s][2])
    /\ FlightsFollow(s)
    /\ ClockOK(s)
    /\ InFlight(s)

IInv ==
    /\ TablesOK
    /\ \A s \in Senders : SenderOK(s)
    /\ ObservedIntact

-----------------------------------------------------------------------------
(* Ids and generations *)

\* Division with remainder.
LEMMA DivMod ==
    ASSUME NEW x \in Nat, NEW n \in Nat \ {0}
    PROVE  /\ x \div n \in Nat /\ x % n \in 0..(n - 1)
           /\ x = (x \div n) * n + (x % n)
           /\ x \div n <= x
  OBVIOUS

\* A number determines its quotient and remainder.
LEMMA DivModUnique ==
    ASSUME NEW q \in Int, NEW r \in Nat, NEW n \in Nat \ {0}, r < n
    PROVE  (q * n + r) % n = r
  OBVIOUS

\* A number and the next with the same remainder.
LEMMA OneTurn ==
    ASSUME NEW x \in Nat, NEW n \in Nat \ {0}
    PROVE  (x + n) % n = x % n
  <1> DEFINE q == x \div n
             r == x % n
  <1>1. q \in Nat /\ r \in 0..(n - 1) /\ x = q * n + r
    BY DivMod
  <1> HIDE DEF q, r
  <1>2. (q + 1) * n + r = x + n /\ q + 1 \in Int
    BY <1>1
  <1>3. ((q + 1) * n + r) % n = r
    BY <1>1, <1>2, DivModUnique
  <1> QED
    BY <1>2, <1>3 DEF r

\* Two numbers less than n apart have different remainders.
LEMMA RemaindersDiffer ==
    ASSUME NEW x \in Nat, NEW y \in Nat, NEW n \in Nat \ {0}, x < y, y < x + n
    PROVE  x % n # y % n
  <1> DEFINE q == x \div n
             r == y \div n
  <1>1. /\ q \in Nat /\ r \in Nat
        /\ x = q * n + (x % n) /\ y = r * n + (y % n)
        /\ x % n \in 0..(n - 1) /\ y % n \in 0..(n - 1)
    BY DivMod
  <1> HIDE DEF q, r
  <1>2. CASE q < r
    BY <1>1, <1>2, MultiplesGrow
  <1>3. CASE r < q
    BY <1>1, <1>3, MultiplesGrow
  <1>4. CASE q = r
    BY <1>1, <1>4
  <1> QED
    BY <1>1, <1>2, <1>3, <1>4

\* Counting on after a truncation truncates to the same.
LEMMA TruncateThenAdd ==
    ASSUME NEW x \in Nat, NEW n \in Nat \ {0}
    PROVE  ((x % n) + 1) % n = (x + 1) % n
  <1> DEFINE q == x \div n
             r == x % n
  <1>1. q \in Nat /\ r \in 0..(n - 1) /\ x = q * n + r
    BY DivMod
  <1> HIDE DEF q, r
  <1>2. CASE r + 1 < n
    <2>1. (q * n + (r + 1)) % n = r + 1
      BY <1>1, <1>2, DivModUnique
    <2>2. (r + 1) % n = r + 1
      BY <1>1, <1>2, NoTruncation
    <2>3. q * n + (r + 1) = x + 1
      BY <1>1
    <2> QED
      BY <2>1, <2>2, <2>3 DEF r
  <1>3. CASE r + 1 = n
    <2>1. ((q + 1) * n + 0) % n = 0
      BY <1>1, DivModUnique
    <2>2. (1 * n + 0) % n = 0
      BY DivModUnique
    <2>3. (q + 1) * n + 0 = x + 1 /\ 1 * n + 0 = r + 1
      BY <1>1, <1>3
    <2>4. (x + 1) % n = 0 /\ (r + 1) % n = 0
      BY <2>1, <2>2, <2>3
    <2> QED
      BY <2>4 DEF r
  <1> QED
    BY <1>1, <1>2, <1>3

\* A generation is a uint8_t.
LEMMA GenType ==
    ASSUME NEW g0 \in PackageIds, NEW n \in Nat
    PROVE  GenOf(g0, n) \in PackageIds
  <1>1. U8 \in Nat \ {0} /\ g0 \in Nat
    BY Widths DEF PackageIds
  <1>2. n \div U8 \in Nat
    BY <1>1, DivMod
  <1>3. g0 + n \div U8 \in Nat
    BY <1>1, <1>2
  <1>4. (g0 + n \div U8) % U8 \in 0..(U8 - 1)
    BY <1>1, <1>3
  <1> QED
    BY <1>4 DEF GenOf, PackageIds

\* gc_hook's test tells whether the ids have come around between message h and
\* a later one, when no more than half of them were passed over.
LEMMA ComesAround ==
    ASSUME NEW h \in Nat, NEW n \in Nat, h < n, n <= h + U8 \div 2
    PROVE  IF (n % U8) + ((U8 - 1) \div 2) < h % U8
           THEN n \div U8 = h \div U8 + 1
           ELSE n \div U8 = h \div U8
  <1> DEFINE q == h \div U8
             r == n \div U8
             a == h % U8
             b == n % U8
  <1>1. /\ q \in Nat /\ r \in Nat /\ a \in 0..(U8 - 1) /\ b \in 0..(U8 - 1)
        /\ h = q * U8 + a /\ n = r * U8 + b
    <2>1. U8 \in Nat \ {0}
      BY Widths
    <2>2. q \in Nat /\ a \in 0..(U8 - 1) /\ h = q * U8 + a
      BY <2>1, DivMod
    <2>3. r \in Nat /\ b \in 0..(U8 - 1) /\ n = r * U8 + b
      BY <2>1, DivMod
    <2> QED
      BY <2>2, <2>3
  <1>2. /\ U8 \div 2 \in Nat /\ (U8 - 1) \div 2 \in Nat
        /\ U8 \div 2 + (U8 - 1) \div 2 = U8 - 1
    BY Widths
  <1> HIDE DEF q, r, a, b
  <1>3. ~ r < q
    BY <1>1, MultiplesGrow, Widths
  <1>4. ~ q + 1 < r
    <2>1. q + 1 < r => (q + 1) * U8 + U8 <= r * U8
      BY <1>1, MultiplesGrow, Widths
    <2>2. (q + 1) * U8 = q * U8 + U8
      BY <1>1, Widths
    <2> QED
      BY <1>1, <1>2, <2>1, <2>2, Widths
  <1>5. CASE r = q
    <2>1. a < b
      BY <1>1, <1>5, Widths
    <2> QED
      BY <1>1, <1>2, <1>5, <2>1 DEF q, r, a, b
  <1>6. CASE r = q + 1
    <2>1. r * U8 = q * U8 + U8
      BY <1>1, <1>6, Widths
    <2>2. b + ((U8 - 1) \div 2) < a
      BY <1>1, <1>2, <2>1, Widths
    <2> QED
      BY <1>6, <2>2 DEF q, r, a, b
  <1> QED
    BY <1>1, <1>3, <1>4, <1>5, <1>6

\* The clock that was right about message h is right about a later message n.
LEMMA ClockAdvances ==
    ASSUME NEW g0 \in PackageIds, NEW h \in Nat, NEW n \in Nat, h < n, n <= h + U8 \div 2,
           NEW m, m.pkg = h % U8, m.gen = GenOf(g0, h)
    PROVE  gc_hook(m, n % U8) = [pkg |-> n % U8, gen |-> GenOf(g0, n)]
  <1>1. h \div U8 \in Nat /\ g0 \in Nat /\ U8 \in Nat \ {0}
    <2>1. U8 \in Nat \ {0} /\ g0 \in Nat
      BY Widths DEF PackageIds
    <2> QED
      BY <2>1, DivMod
  <1>2. (GenOf(g0, h) + 1) % U8 = (g0 + h \div U8 + 1) % U8
    <2>1. g0 + h \div U8 \in Nat
      BY <1>1
    <2> QED
      BY <1>1, <2>1, TruncateThenAdd DEF GenOf
  <1>3. CASE (n % U8) + ((U8 - 1) \div 2) < h % U8
    <2>1. n \div U8 = h \div U8 + 1
      BY <1>3, ComesAround
    <2>2. g0 + (h \div U8 + 1) = g0 + h \div U8 + 1
      BY <1>1
    <2> QED
      BY <1>2, <1>3, <2>1, <2>2 DEF gc_hook, GenOf
  <1>4. CASE ~ ((n % U8) + ((U8 - 1) \div 2) < h % U8)
    <2>1. n \div U8 = h \div U8
      BY <1>4, ComesAround
    <2> QED
      BY <1>4, <2>1 DEF gc_hook, GenOf
  <1> QED
    BY <1>3, <1>4

\* The slices of one message do not move its sender's clock.
LEMMA ClockStays ==
    ASSUME NEW m \in MetaType
    PROVE  gc_hook(m, m.pkg) = m
  <1>1. m.pkg \in Nat /\ (U8 - 1) \div 2 \in Nat
    BY Widths DEF MetaType, PackageIds
  <1>2. ~ (m.pkg + ((U8 - 1) \div 2) < m.pkg)
    BY <1>1
  <1> QED
    BY <1>2 DEF gc_hook, MetaType

\* Two messages with one package id have different generations.
LEMMA GenerationsApart ==
    ASSUME GenerationsDiffer, NEW g0 \in PackageIds, NEW m \in Nat, NEW n \in Nat,
           m < n, n <= MaxMessages, m % U8 = n % U8, MaxJump = 1 => n <= m + U8
    PROVE  GenOf(g0, m) # GenOf(g0, n)
  <1> DEFINE q == m \div U8
             r == n \div U8
             a == m % U8
  <1>1. /\ q \in Nat /\ r \in Nat /\ a \in Nat
        /\ m = q * U8 + a /\ n = r * U8 + a
    <2>1. U8 \in Nat \ {0}
      BY Widths
    <2>2. q \in Nat /\ a \in 0..(U8 - 1) /\ m = q * U8 + a
      BY <2>1, DivMod
    <2>3. r \in Nat /\ n = r * U8 + (n % U8)
      BY <2>1, DivMod
    <2> QED
      BY <2>2, <2>3
  <1>2. g0 \in Nat /\ U8 \in Nat \ {0} /\ MaxMessages \in Nat
    BY Widths, DecoderAssumption DEF PackageIds
  <1> HIDE DEF q, r, a
  <1>3. q < r
    <2>1. CASE r < q
      BY <1>1, <1>2, <2>1, MultiplesGrow
    <2>2. CASE r = q
      BY <1>1, <2>2
    <2> QED
      BY <1>1, <2>1, <2>2
  <1>4. r < q + U8
    <2>1. CASE MaxJump = 1
      <3>1. ~ q + 1 < r
        <4>1. q + 1 < r => (q + 1) * U8 + U8 <= r * U8
          BY <1>1, <1>2, MultiplesGrow
        <4>2. (q + 1) * U8 = q * U8 + U8
          BY <1>1, <1>2
        <4> QED
          BY <1>1, <1>2, <2>1, <4>1, <4>2
      <3> QED
        BY <1>1, <1>2, <3>1, Widths
    <2>2. CASE MaxMessages < U8 * U8
      <3>1. ~ U8 <= r
        <4>1. U8 < r => U8 * U8 + U8 <= r * U8
          BY <1>1, <1>2, MultiplesGrow
        <4>2. r * U8 \in Nat /\ U8 * U8 \in Nat
          BY <1>1, <1>2
        <4> QED
          BY <1>1, <1>2, <2>2, <4>1, <4>2
      <3> QED
        BY <1>1, <1>2, <3>1
    <2> QED
      BY <2>1, <2>2 DEF GenerationsDiffer
  <1>5. (g0 + q) % U8 # (g0 + r) % U8
    <2> DEFINE x == g0 + q
               y == g0 + r
    <2>1. x \in Nat /\ y \in Nat /\ x < y /\ y < x + U8
      BY <1>1, <1>2, <1>3, <1>4
    <2> HIDE DEF x, y
    <2>2. x % U8 # y % U8
      BY <1>2, <2>1, RemaindersDiffer
    <2> QED
      BY <2>2 DEF x, y
  <1> QED
    BY <1>5 DEF GenOf, q, r

\* Whatever the clock says at one message, some generation of message 0 explains it.
LEMMA GenerationReached ==
    ASSUME NEW x \in PackageIds, NEW q \in Nat
    PROVE  \E g \in PackageIds : (g + q) % U8 = x
  <1> DEFINE d == x - q
             g == d % U8
             k == d \div U8
             l == 0 - k
  <1>1. U8 \in Nat \ {0} /\ x \in 0..(U8 - 1)
    BY Widths DEF PackageIds
  <1>2. d \in Int
    BY <1>1
  <1> HIDE DEF d
  <1>3. g \in 0..(U8 - 1) /\ k \in Int /\ d = k * U8 + g
    BY <1>1, <1>2
  <1> HIDE DEF g, k
  <1>4. l \in Int /\ g + q = l * U8 + x
    <2>1. l * U8 = 0 - k * U8
      BY <1>1, <1>3
    <2>2. k * U8 \in Int
      BY <1>1, <1>3
    <2> QED
      BY <1>1, <1>3, <2>1, <2>2 DEF d
  <1> HIDE DEF l
  <1>5. (l * U8 + x) % U8 = x
    BY <1>1, <1>4, DivModUnique
  <1> QED
    BY <1>1, <1>3, <1>4, <1>5 DEF PackageIds

-----------------------------------------------------------------------------
(* One slice in one slot *)

\* All the slices of a sent package carry data.
LEMMA SentFacts ==
    ASSUME NEW p \in Sent
    PROVE  /\ p \in Assemblable
           /\ DataCount(p) \in Nat \ {0}
           /\ SlicesOf(p) = 0..(DataCount(p) - 1)
  <1>1. p \in Assemblable /\ (p.rest # 0 \/ p.style = "FullEop")
    BY DEF Sent
  <1>2. LastSlice(p) = DataCount(p) - 1
    BY <1>1, PackageFacts DEF LastSlice, DataCount
  <1> QED
    BY <1>1, <1>2, PackageFacts DEF SlicesOf

\* A state that records a slice of a sent package counts it.
LEMMA CountedWhenRecorded ==
    ASSUME NEW p \in Sent, NEW S \in SUBSET SlicesOf(p), S # {}, NEW st, ArrivalsOf(st, p, S)
    PROVE  st.received_count > 0
  <1> DEFINE D == {j \in S : j < DataCount(p)}
  <1>1. D # {}
    <2>1. \A j \in SlicesOf(p) : j < DataCount(p)
      BY SentFacts
    <2> QED
      BY <2>1
  <1>2. IsFiniteSet(D) /\ Cardinality(D) \in Nat
    BY SentFacts, DataSlicesCounted
  <1>3. Cardinality(D) # 0
    BY <1>1, <1>2, FS_EmptySet
  <1> QED
    BY <1>2, <1>3 DEF ArrivalsOf

\* What Push makes of a slot that records the slices S of message n, when slice i
\* of its package p comes.
Pushed(slot, p, S, n, i) ==
    LET call == Push(slot, HeaderOf(p, i), n)
        S1   == S \union {i}
    IN  /\ call.slot \in SlotType /\ call.slot.gen = slot.gen
        /\ call.complete = (S1 = SlicesOf(p))
        /\ S1 # SlicesOf(p) =>
              call.slot.state.received_count > 0 /\ Records(call.slot, p, S1, n)
        /\ S1 = SlicesOf(p) =>
              call.slot.state = ZeroState /\ call.parts = {n} /\ call.length = Length(p)

\* RxDecoder::Impl::Push records the slice and its data, and hands the message
\* over, whole and made of its own slices, on the last of them.
LEMMA PushOutcome ==
    ASSUME NEW p \in Sent, NEW S \in SUBSET SlicesOf(p), NEW slot \in SlotType, NEW n \in Int,
           Records(slot, p, S, n), NEW i \in SlicesOf(p)
    PROVE  Pushed(slot, p, S, n, i)
  <1> DEFINE step == StepOn(slot.state, p, i)
             next == step.next_state
             hdr  == HeaderOf(p, i)
             call == Push(slot, hdr, n)
             S1   == S \union {i}
             data == [slot.data EXCEPT ![i] = n]
  <1>1. /\ p \in Assemblable /\ slot.state \in SliceStates /\ slot.gen \in PackageIds
        /\ slot.data \in [SliceIds -> Int] /\ ArrivalsOf(slot.state, p, S)
    BY SentFacts DEF SlotType, Records
  <1>2. PICK g \in SliceIds : FirstGap(p, S, g) /\ slot.state.watermark = g * MaxP
    BY DEF Records
  <1>3. Outcome(slot.state, p, S, g, i)
    BY <1>1, <1>2, StepOutcome
  <1>4. /\ hdr.slice_serial = i /\ hdr.slice_payload_size = PayloadSize(p, i)
        /\ (hdr.eop = 1) = (i = LastSlice(p))
    BY DEF HeaderOf
  <1>5. i \in SliceIds /\ PayloadSize(p, i) > 0 /\ PayloadSize(p, i) \in Nat
    <2>1. /\ i \in SliceIds /\ PayloadSize(p, i) \in Nat /\ PayloadSize(p, i) <= MaxP
          /\ PayloadSize(p, i) < MaxP => i = LastSlice(p)
          /\ (PayloadSize(p, i) = 0 /\ i = LastSlice(p)) <=> i = DataCount(p)
      BY <1>1, SliceSizes
    <2>2. i # DataCount(p)
      BY SentFacts
    <2>3. MaxP \in Nat /\ 0 < MaxP
      <3>1. MaxP \in Nat \ {0}
        BY MaxPFacts
      <3> QED
        BY <3>1
    <2>4. PayloadSize(p, i) # 0
      BY <2>1, <2>2, <2>3
    <2> QED
      BY <2>1, <2>4
  <1>6. step = mp_rx_calc_slice_step(slot.state, hdr.slice_serial,
                                     hdr.slice_payload_size, MaxP, hdr.eop = 1)
    BY <1>4 DEF StepOn
  <1> HIDE DEF hdr, step
  <1>7. call = IF step.e = "DUPLICATE"
               THEN [slot |-> slot, complete |-> FALSE, parts |-> {}, length |-> 0]
               ELSE [slot |-> [slot EXCEPT !.data = data,
                                           !.state = IF step.e = "COMPLETE" THEN ZeroState
                                                                            ELSE next],
                     complete |-> step.e = "COMPLETE",
                     parts |-> {data[j] : j \in
                         0..(mp_rx_termination_to_slice_count(next.termination, MaxP) - 1)},
                     length |-> next.termination]
    BY <1>4, <1>5, <1>6 DEF Push
  <1>8. data \in [SliceIds -> Int] /\ \A j \in S1 : data[j] = n
    <2>1. \A j \in S : j \in SliceIds /\ slot.data[j] = n
      BY <1>1, SliceSizes DEF Records
    <2> QED
      BY <1>1, <1>5, <2>1
  <1>9. ASSUME NEW st \in SliceStates
        PROVE  LET new == [slot EXCEPT !.data = data, !.state = st]
               IN  /\ new \in SlotType /\ new.gen = slot.gen
                   /\ new.state = st /\ new.data = data
    BY <1>8 DEF SlotType
  <1> HIDE DEF data, call
  <1>10. CASE i \in S
    <2>1. step.e = "DUPLICATE" /\ S1 = S /\ S # SlicesOf(p) /\ S # {}
      BY <1>2, <1>3, <1>10 DEF Outcome, step, FirstGap
    <2>2. call.slot = slot /\ call.complete = FALSE
      BY <1>7, <2>1
    <2>3. slot.state.received_count > 0
      BY <1>1, <2>1, CountedWhenRecorded
    <2> QED
      BY <2>1, <2>2, <2>3 DEF Pushed, call, hdr
  <1>11. CASE S1 = SlicesOf(p) /\ i \notin S
    <2>1. i = g
      BY <1>2, <1>11 DEF FirstGap
    <2>2. step.e = "COMPLETE" /\ ArrivalsOf(next, p, S1)
      BY <1>3, <1>11, <2>1 DEF Outcome, step
    <2>3. next.termination = Length(p)
      <3>1. LastSlice(p) \in S1
        BY <1>1, <1>11, PackageFacts DEF SlicesOf
      <3> QED
        BY <2>2, <3>1 DEF ArrivalsOf
    <2>4. {data[j] : j \in 0..(mp_rx_termination_to_slice_count(next.termination, MaxP) - 1)}
              = {n}
      <3>1. mp_rx_termination_to_slice_count(next.termination, MaxP) = DataCount(p)
        BY <1>1, <2>3, SliceCount
      <3>2. S1 = 0..(DataCount(p) - 1) /\ 0 \in S1
        BY <1>11, SentFacts
      <3> QED
        BY <1>8, <3>1, <3>2
    <2>5. ZeroState \in SliceStates
      BY <1>1, FreshPackage
    <2>6. call.slot = [slot EXCEPT !.data = data, !.state = ZeroState]
      BY <1>7, <2>2
    <2>7. call.slot \in SlotType /\ call.slot.gen = slot.gen /\ call.slot.state = ZeroState
      BY <1>9, <2>5, <2>6
    <2>8. call.complete = TRUE /\ call.parts = {n} /\ call.length = Length(p)
      BY <1>7, <2>2, <2>3, <2>4
    <2> QED
      BY <1>11, <2>7, <2>8 DEF Pushed, call, hdr
  <1>12. CASE S1 # SlicesOf(p) /\ i \notin S
    <2>1. /\ step.e # "DUPLICATE" /\ step.e # "COMPLETE"
          /\ next \in SliceStates /\ ArrivalsOf(next, p, S1)
          /\ \E h \in SliceIds : FirstGap(p, S1, h) /\ next.watermark = h * MaxP
      <3>1. CASE i = g
        BY <1>3, <1>12, <3>1 DEF Outcome, step
      <3>2. CASE i # g
        <4>1. FirstGap(p, S1, g)
          BY <1>2, <3>2 DEF FirstGap
        <4> QED
          BY <1>3, <1>12, <3>2, <4>1 DEF Outcome, step
      <3> QED
        BY <3>1, <3>2
    <2>2. call.slot = [slot EXCEPT !.data = data, !.state = next] /\ call.complete = FALSE
      BY <1>7, <2>1
    <2>3. /\ call.slot \in SlotType /\ call.slot.gen = slot.gen
          /\ call.slot.state = next /\ call.slot.data = data
      BY <1>9, <2>1, <2>2
    <2>4. Records(call.slot, p, S1, n)
      BY <1>8, <2>1, <2>3 DEF Records
    <2>5. call.slot.state.received_count > 0
      <3>1. S1 \in SUBSET SlicesOf(p) /\ S1 # {}
        OBVIOUS
      <3> QED
        BY <2>1, <2>3, <3>1, CountedWhenRecorded
    <2> QED
      BY <1>12, <2>2, <2>3, <2>4, <2>5 DEF Pushed, call, hdr
  <1> QED
    BY <1>10, <1>11, <1>12

-----------------------------------------------------------------------------
(* The state machine *)

\* What the invariant says of the message in flight.
LEMMA CurrentFlight ==
    ASSUME IInv, NEW s \in Senders
    PROVE  LET f == flights[s][2]
           IN  /\ flights[s][1] \in FlightType /\ f \in FlightType
               /\ f.n \in Nat /\ f.n <= MaxMessages /\ f.pkg \in Sent
               /\ f.arrived \in SUBSET SlicesOf(f.pkg)
               /\ f.pkg.id = f.n % U8 /\ f.pkg.id \in PackageIds
               /\ f.observed = 0 => f.arrived # SlicesOf(f.pkg)
               /\ slots[<<s, f.pkg.id>>] \in SlotType /\ meta[s] \in MetaType
               /\ flights[s][1].n \in Nat
  <1> DEFINE f == flights[s][2]
  <1>1. flights[s][1] \in FlightType /\ f \in FlightType
    BY DEF IInv, TablesOK
  <1>2. FlightOK(f)
    BY DEF IInv, SenderOK
  <1>3. MaxMessages \in Nat
    BY DecoderAssumption
  <1>4. f.pkg.id \in PackageIds
    <2>1. f.pkg \in Assemblable
      BY <1>1, SentFacts DEF FlightType
    <2> QED
      BY <2>1, PackageFacts
  <1>5. slots[<<s, f.pkg.id>>] \in SlotType /\ meta[s] \in MetaType
    BY <1>4 DEF IInv, TablesOK
  <1> QED
    BY <1>1, <1>2, <1>3, <1>4, <1>5 DEF FlightOK, FlightType

\* The slot in which slice i of a message goes, after gc_clock_hook, and the
\* other slots of the sender.
Prepared(s, m) ==
    LET f   == flights[s][2]
        old == gc_clock_hook(slots[<<s, f.pkg.id>>], m)
    IN  /\ old \in SlotType /\ old.gen = m.gen /\ Records(old, f.pkg, f.arrived, f.n)
        /\ \E g1 \in PackageIds :
              /\ m.gen = GenOf(g1, f.n)
              /\ \A id \in PackageIds \ {f.pkg.id} : Holds(slots[<<s, id>>], id, g1, f.n)

\* What gc_clock_hook makes of a slot.
LEMMA ClockHook ==
    ASSUME NEW slot \in SlotType, NEW m \in MetaType
    PROVE  LET old  == gc_clock_hook(slot, m)
               drop == slot.state.received_count > 0 /\ slot.gen # m.gen
           IN  /\ old \in SlotType /\ old.gen = m.gen /\ old.data = slot.data
               /\ old.state = IF drop THEN ZeroState ELSE slot.state
  <1>1. ZeroState \in SliceStates
    <2>1. {} \in SUBSET SliceIds /\ 0 \in Offsets
      BY Widths DEF Offsets
    <2> QED
      BY <2>1 DEF ZeroState, SliceStates
  <1> QED
    BY <1>1 DEF gc_clock_hook, SlotType, MetaType

\* A slot with a zero state records that nothing of a message has arrived.
LEMMA ZeroRecords ==
    ASSUME NEW p \in Sent, NEW slot, slot.state = ZeroState, NEW n
    PROVE  Records(slot, p, {}, n)
  <1>1. /\ ArrivalsOf(ZeroState, p, {}) /\ 0 \in SliceIds
        /\ FirstGap(p, {}, 0) /\ 0 * MaxP = 0
    BY SentFacts, FreshPackage
  <1> QED
    BY <1>1 DEF Records, ZeroState

\* A later slice of a message finds its slot as the earlier ones left it.
LEMMA PreparedInFlight ==
    ASSUME IInv, NEW s \in Senders, flights[s][2].observed = 0, flights[s][2].arrived # {}
    PROVE  LET m == gc_hook(meta[s], flights[s][2].pkg.id)
           IN  m = meta[s] /\ Prepared(s, m)
  <1> DEFINE f    == flights[s][2]
             id   == f.pkg.id
             slot == slots[<<s, id>>]
             m    == gc_hook(meta[s], id)
             old  == gc_clock_hook(slot, m)
  <1>1. /\ f.n \in Nat /\ f.pkg.id = f.n % U8 /\ slot \in SlotType /\ meta[s] \in MetaType
    BY CurrentFlight
  <1>2. PICK g0 \in PackageIds :
            /\ meta[s].pkg = f.n % U8 /\ meta[s].gen = GenOf(g0, f.n)
            /\ \A j \in PackageIds : Holds(slots[<<s, j>>], j, g0, f.n)
    BY <1>1 DEF IInv, SenderOK, ClockOK, Heard
  <1>3. m = meta[s]
    BY <1>1, <1>2, ClockStays
  <1>4. slot.gen = m.gen /\ Records(slot, f.pkg, f.arrived, f.n)
    BY <1>3 DEF IInv, SenderOK, InFlight
  <1>5. old \in SlotType /\ old.gen = m.gen /\ old.data = slot.data /\ old.state = slot.state
    BY <1>1, <1>3, <1>4, ClockHook
  <1>6. Records(old, f.pkg, f.arrived, f.n)
    BY <1>4, <1>5 DEF Records
  <1> QED
    BY <1>2, <1>3, <1>5, <1>6 DEF Prepared

\* The first slice that is ever heard of a sender finds all its slots zero.
LEMMA PreparedFirst ==
    ASSUME IInv, NEW s \in Senders,
           flights[s][2].arrived = {}, flights[s][1].arrived = {}
    PROVE  Prepared(s, gc_hook(meta[s], flights[s][2].pkg.id))
  <1> DEFINE f    == flights[s][2]
             id   == f.pkg.id
             slot == slots[<<s, id>>]
             m    == gc_hook(meta[s], id)
             old  == gc_clock_hook(slot, m)
  <1>1. /\ f.n \in Nat /\ f.pkg \in Sent /\ id \in PackageIds
        /\ slot \in SlotType /\ meta[s] \in MetaType
    BY CurrentFlight
  <1>2. \A j \in PackageIds : slots[<<s, j>>].state = ZeroState
    BY DEF IInv, SenderOK, ClockOK, Heard, Holds
  <1>3. U8 \in Nat \ {0}
    BY Widths
  <1>4. m \in MetaType
    <2>1. (meta[s].gen + 1) % U8 \in PackageIds
      BY <1>1, <1>3 DEF MetaType, PackageIds
    <2> QED
      BY <1>1, <2>1 DEF gc_hook, MetaType
  <1>5. \E g1 \in PackageIds : m.gen = GenOf(g1, f.n)
    <2>1. f.n \div U8 \in Nat /\ m.gen \in PackageIds
      BY <1>1, <1>3, <1>4, DivMod DEF MetaType
    <2> QED
      BY <2>1, GenerationReached DEF GenOf
  <1>6. old \in SlotType /\ old.gen = m.gen /\ old.state = ZeroState
    BY <1>1, <1>2, <1>4, ClockHook
  <1>7. Records(old, f.pkg, f.arrived, f.n)
    BY <1>1, <1>6, ZeroRecords
  <1> QED
    BY <1>2, <1>5, <1>6, <1>7 DEF Prepared, Holds

\* The first slice of a later message finds its slot zero: what an earlier message
\* left in it has another generation, and is dropped.
LEMMA PreparedNext ==
    ASSUME IInv, GenerationsDiffer, JumpsAreShort, NEW s \in Senders,
           flights[s][2].arrived = {}, flights[s][1].arrived # {}
    PROVE  Prepared(s, gc_hook(meta[s], flights[s][2].pkg.id))
  <1> DEFINE f    == flights[s][2]
             h    == flights[s][1].n
             id   == f.pkg.id
             slot == slots[<<s, id>>]
             m    == gc_hook(meta[s], id)
             old  == gc_clock_hook(slot, m)
  <1>1. /\ f.n \in Nat /\ h \in Nat /\ f.pkg \in Sent /\ id \in PackageIds
        /\ id = f.n % U8 /\ f.n <= MaxMessages
        /\ slot \in SlotType /\ meta[s] \in MetaType
    BY CurrentFlight
  <1>2. PICK g0 \in PackageIds :
            /\ meta[s].pkg = h % U8 /\ meta[s].gen = GenOf(g0, h)
            /\ \A j \in PackageIds : Holds(slots[<<s, j>>], j, g0, h)
    BY <1>1 DEF IInv, SenderOK, ClockOK, Heard
  <1>3. h < f.n /\ f.n <= h + MaxJump
    BY DEF IInv, SenderOK, FlightsFollow
  <1>4. U8 \in Nat \ {0} /\ MaxJump \in Nat /\ MaxJump <= U8 \div 2 /\ U8 \div 2 \in Nat
    BY Widths, DecoderAssumption DEF JumpsAreShort
  <1>5. m = [pkg |-> f.n % U8, gen |-> GenOf(g0, f.n)]
    <2>1. f.n <= h + U8 \div 2
      BY <1>1, <1>3, <1>4
    <2>2. gc_hook(meta[s], f.n % U8) = [pkg |-> f.n % U8, gen |-> GenOf(g0, f.n)]
      <3> DEFINE n == f.n
                 old_meta == meta[s]
      <3>1. n \in Nat /\ h \in Nat /\ h < n /\ n <= h + U8 \div 2
            /\ old_meta.pkg = h % U8 /\ old_meta.gen = GenOf(g0, h)
        BY <1>1, <1>2, <1>3, <2>1
      <3> HIDE DEF n, old_meta, h
      <3>2. gc_hook(old_meta, n % U8) = [pkg |-> n % U8, gen |-> GenOf(g0, n)]
        BY <3>1, ClockAdvances
      <3> QED BY <3>2 DEF n, old_meta
    <2> QED
      BY <1>1, <2>2
  <1>6. m \in MetaType /\ m.gen = GenOf(g0, f.n)
    <2>1. GenOf(g0, f.n) \in PackageIds
      BY <1>1, GenType
    <2> QED
      BY <1>1, <1>5, <2>1 DEF MetaType
  <1> HIDE DEF m
  <1>7. ASSUME NEW j \in PackageIds \ {id}
        PROVE  Holds(slots[<<s, j>>], j, g0, f.n)
    <2>1. CASE slots[<<s, j>>].state = ZeroState
      BY <2>1 DEF Holds
    <2>2. CASE slots[<<s, j>>].state # ZeroState
      <3>1. /\ slots[<<s, j>>].state.received_count > 0
            /\ \E k \in 0..h : /\ k % U8 = j /\ slots[<<s, j>>].gen = GenOf(g0, k)
                               /\ MaxJump = 1 => h < k + U8
        BY <1>2, <2>2 DEF Holds
      <3>2. PICK k \in 0..h : /\ k % U8 = j /\ slots[<<s, j>>].gen = GenOf(g0, k)
                              /\ MaxJump = 1 => h < k + U8
        BY <3>1
      <3>3. f.n # k + U8
        <4>1. CASE f.n = k + U8
          <5>1. (k + U8) % U8 = k % U8
            <6>1. k \in Nat
              BY <1>1, <3>2
            <6> QED
              BY <1>4, <6>1, OneTurn
          <5> QED
            BY <1>1, <1>7, <3>2, <4>1, <5>1
        <4> QED
          BY <4>1
      <3>4. k \in 0..f.n /\ (MaxJump = 1 => f.n < k + U8)
        BY <1>1, <1>3, <1>4, <3>2, <3>3
      <3> QED
        BY <3>1, <3>2, <3>4 DEF Holds
    <2> QED
      BY <2>1, <2>2
  <1>8. slot.state = ZeroState \/ (slot.state.received_count > 0 /\ slot.gen # m.gen)
    <2>1. CASE slot.state # ZeroState
      <3>1. slot.state.received_count > 0
        BY <1>1, <1>2, <2>1 DEF Holds
      <3>2. PICK k \in 0..h : /\ k % U8 = id /\ slot.gen = GenOf(g0, k)
                              /\ MaxJump = 1 => h < k + U8
        BY <1>1, <1>2, <2>1 DEF Holds
      <3>3. k \in Nat /\ k < f.n /\ (MaxJump = 1 => f.n <= k + U8)
        BY <1>1, <1>3, <1>4, <3>2
      <3>4. GenOf(g0, k) # GenOf(g0, f.n)
        BY <1>1, <3>2, <3>3, GenerationsApart
      <3> QED
        BY <1>6, <3>1, <3>2, <3>4
    <2> QED
      BY <2>1
  <1>9. old \in SlotType /\ old.gen = m.gen /\ old.state = ZeroState
    BY <1>1, <1>6, <1>8, ClockHook
  <1>10. Records(old, f.pkg, f.arrived, f.n)
    BY <1>1, <1>9, ZeroRecords
  <1> QED
    BY <1>6, <1>7, <1>9, <1>10 DEF Prepared, m

\* What slice i of the message in flight does.
Arrived(s, i) ==
    LET f  == flights[s][2]
        m  == gc_hook(meta[s], f.pkg.id)
        c  == <<s, f.pkg.id>>
        S1 == f.arrived \union {i}
        call == Push(gc_clock_hook(slots[c], m), HeaderOf(f.pkg, i), f.n)
    IN  /\ i \in SlicesOf(f.pkg)
        /\ meta' = [meta EXCEPT ![s] = m]
        /\ slots' = [slots EXCEPT ![c] = call.slot]
        /\ flights' = [flights EXCEPT ![s] = <<flights[s][1],
               [f EXCEPT !.arrived = S1, !.observed = IF S1 = SlicesOf(f.pkg) THEN 1 ELSE 0]>>]
        /\ last' = IF S1 = SlicesOf(f.pkg)
                   THEN [parts |-> {f.n}, length |-> Length(f.pkg),
                         of |-> f.n, expected |-> Length(f.pkg)]
                   ELSE last
        /\ m \in MetaType /\ m.pkg = f.pkg.id
        /\ Prepared(s, m)
        /\ Pushed(gc_clock_hook(slots[c], m), f.pkg, f.arrived, f.n, i)

\* A slice that arrives takes the step of its slot, prepared by the clock.
LEMMA ArriveOutcome ==
    ASSUME IInv, GenerationsDiffer, JumpsAreShort, NEW s \in Senders, flights[s][2].observed = 0,
           NEW i \in SliceIds, Arrive(s, 2, i)
    PROVE  Arrived(s, i)
  <1> DEFINE f    == flights[s][2]
             m    == gc_hook(meta[s], f.pkg.id)
             c    == <<s, f.pkg.id>>
             old  == gc_clock_hook(slots[c], m)
             hdr  == mp_header_unpack(HeaderBytes(f.pkg, i))
             call == Push(old, HeaderOf(f.pkg, i), f.n)
             S1   == f.arrived \union {i}
  <1>1. /\ flights[s][1] \in FlightType /\ f \in FlightType
        /\ f.n \in Nat /\ f.pkg \in Sent /\ f.arrived \in SUBSET SlicesOf(f.pkg)
        /\ f.pkg.id \in PackageIds /\ f.arrived # SlicesOf(f.pkg)
        /\ slots[c] \in SlotType /\ meta[s] \in MetaType
    BY CurrentFlight
  <1>2. i \in SlicesOf(f.pkg)
    BY DEF Arrive
  <1>3. hdr = HeaderOf(f.pkg, i) /\ hdr.package_serial = f.pkg.id
    <2>1. hdr = HeaderOf(f.pkg, i)
      BY <1>1, <1>2, SentFacts, HeaderOfSlice
    <2> QED
      BY <2>1 DEF HeaderOf
  <1>4. Prepared(s, m)
    <2>1. CASE f.arrived # {}
      BY <2>1, PreparedInFlight
    <2>2. CASE f.arrived = {} /\ flights[s][1].arrived = {}
      BY <2>2, PreparedFirst
    <2>3. CASE f.arrived = {} /\ flights[s][1].arrived # {}
      BY <2>3, PreparedNext
    <2> QED
      BY <2>1, <2>2, <2>3
  <1>5. m \in MetaType /\ m.pkg = f.pkg.id
    <2>1. (meta[s].gen + 1) % U8 \in PackageIds
      BY <1>1, Widths DEF MetaType, PackageIds
    <2> QED
      BY <1>1, <2>1 DEF gc_hook, MetaType
  <1>6. Pushed(old, f.pkg, f.arrived, f.n, i)
    <2>1. old \in SlotType /\ Records(old, f.pkg, f.arrived, f.n)
      BY <1>4 DEF Prepared
    <2>2. f.n \in Int
      BY <1>1
    <2> QED
      BY <1>1, <1>2, <2>1, <2>2, PushOutcome
  <1>7. /\ call.complete = (S1 = SlicesOf(f.pkg))
        /\ S1 = SlicesOf(f.pkg) => call.parts = {f.n} /\ call.length = Length(f.pkg)
    BY <1>6 DEF Pushed
  <1> HIDE DEF call, m, old, hdr
  <1>8. /\ meta' = [meta EXCEPT ![s] = gc_hook(meta[s], hdr.package_serial)]
        /\ slots' = [slots EXCEPT ![<<s, hdr.package_serial>>] =
               Push(gc_clock_hook(slots[<<s, hdr.package_serial>>],
                                  gc_hook(meta[s], hdr.package_serial)), hdr, f.n).slot]
    BY DEF Arrive, hdr
  <1>9. meta' = [meta EXCEPT ![s] = m] /\ slots' = [slots EXCEPT ![c] = call.slot]
    BY <1>3, <1>8 DEF m, call, old
  <1>10. /\ flights' = [flights EXCEPT ![s][2] =
                [f EXCEPT !.arrived = S1,
                          !.observed = IF call.complete THEN f.observed + 1 ELSE f.observed]]
         /\ last' = IF call.complete
                    THEN [parts |-> call.parts, length |-> call.length,
                          of |-> f.n, expected |-> Length(f.pkg)]
                    ELSE last
    BY <1>3, <1>1 DEF Arrive, hdr, call, m, old, FlightType
  <1>11. flights' = [flights EXCEPT ![s] = <<flights[s][1],
             [f EXCEPT !.arrived = S1, !.observed = IF S1 = SlicesOf(f.pkg) THEN 1 ELSE 0]>>]
    <2> DEFINE v == [f EXCEPT !.arrived = S1,
                              !.observed = IF S1 = SlicesOf(f.pkg) THEN 1 ELSE 0]
    <2>1. flights' = [flights EXCEPT ![s][2] = v]
      <3>1. (IF call.complete THEN f.observed + 1 ELSE f.observed)
                = (IF S1 = SlicesOf(f.pkg) THEN 1 ELSE 0)
        <4>1. CASE S1 = SlicesOf(f.pkg)
          <5>1. call.complete = TRUE
            BY <1>7, <4>1
          <5> QED
            BY <4>1, <5>1
        <4>2. CASE S1 # SlicesOf(f.pkg)
          <5>1. call.complete = FALSE
            BY <1>7, <4>2
          <5> QED
            BY <4>2, <5>1
        <4> QED
          BY <4>1, <4>2
      <3> QED
        BY <1>10, <3>1
    <2>2. flights[s] \in FlightType \X FlightType
      BY DEF IInv, TablesOK
    <2> HIDE DEF v
    <2>3. [flights[s] EXCEPT ![2] = v] = <<flights[s][1], v>>
      BY <2>2
    <2> QED
      BY <2>1, <2>3 DEF v
  <1>12. last' = IF S1 = SlicesOf(f.pkg)
                 THEN [parts |-> {f.n}, length |-> Length(f.pkg),
                       of |-> f.n, expected |-> Length(f.pkg)]
                 ELSE last
    BY <1>7, <1>10
  <1> QED
    BY <1>2, <1>4, <1>5, <1>6, <1>9, <1>11, <1>12 DEF Arrived, m, call, old

\* A sender none of whose tables changes.
LEMMA SenderUnmoved ==
    ASSUME IInv, NEW t \in Senders, flights'[t] = flights[t], meta'[t] = meta[t],
           \A j \in PackageIds : slots'[<<t, j>>] = slots[<<t, j>>]
    PROVE  SenderOK(t)'
  <1>1. flights[t][2].pkg.id \in PackageIds
    BY CurrentFlight
  <1>2. SenderOK(t)
    BY DEF IInv
  <1>3. FlightOK(flights[t][1])' /\ FlightOK(flights[t][2])' /\ FlightsFollow(t)'
    BY <1>2 DEF SenderOK, FlightOK, FlightsFollow
  <1>4. ClockOK(t)'
    <2>1. Heard(t)' = Heard(t)
      BY DEF Heard
    <2> QED
      BY <1>2, <2>1 DEF SenderOK, ClockOK, Holds, GenOf
  <1>5. InFlight(t)'
    BY <1>1, <1>2 DEF SenderOK, InFlight, Records
  <1> QED
    BY <1>3, <1>4, <1>5 DEF SenderOK

\* The arrival of a slice keeps the invariant.
LEMMA ArriveIInv ==
    ASSUME IInv, GenerationsDiffer, JumpsAreShort, NEW s \in Senders, flights[s][2].observed = 0,
           NEW i \in SliceIds, Arrive(s, 2, i)
    PROVE  IInv'
  <1> DEFINE f    == flights[s][2]
             id   == f.pkg.id
             m    == gc_hook(meta[s], id)
             c    == <<s, id>>
             old  == gc_clock_hook(slots[c], m)
             S1   == f.arrived \union {i}
             new  == Push(old, HeaderOf(f.pkg, i), f.n).slot
             done == IF S1 = SlicesOf(f.pkg) THEN 1 ELSE 0
             f1   == [f EXCEPT !.arrived = S1, !.observed = done]
  <1>1. /\ flights[s][1] \in FlightType /\ f \in FlightType
        /\ f.n \in Nat /\ f.n <= MaxMessages /\ f.pkg \in Sent
        /\ f.arrived \in SUBSET SlicesOf(f.pkg)
        /\ id = f.n % U8 /\ id \in PackageIds
        /\ flights[s][1].n \in Nat
    BY CurrentFlight
  <1>2. Arrived(s, i)
    BY ArriveOutcome
  <1>3. /\ i \in SlicesOf(f.pkg) /\ m \in MetaType /\ m.pkg = id
        /\ meta' = [meta EXCEPT ![s] = m] /\ slots' = [slots EXCEPT ![c] = new]
        /\ flights' = [flights EXCEPT ![s] = <<flights[s][1], f1>>]
    BY <1>2 DEF Arrived
  <1>4. /\ old \in SlotType /\ old.gen = m.gen
        /\ \E g1 \in PackageIds :
              /\ m.gen = GenOf(g1, f.n)
              /\ \A j \in PackageIds \ {id} : Holds(slots[<<s, j>>], j, g1, f.n)
    BY <1>2 DEF Arrived, Prepared
  <1>5. /\ new \in SlotType /\ new.gen = m.gen
        /\ S1 # SlicesOf(f.pkg) =>
              new.state.received_count > 0 /\ Records(new, f.pkg, S1, f.n)
        /\ S1 = SlicesOf(f.pkg) => new.state = ZeroState
    BY <1>2, <1>4 DEF Arrived, Pushed
  <1>6. /\ f1 \in FlightType /\ f1.n = f.n /\ f1.pkg = f.pkg
        /\ f1.arrived = S1 /\ f1.observed = done
    <2>1. S1 \subseteq SliceIds /\ done \in 0..1
      BY <1>1 DEF FlightType
    <2> QED
      BY <1>1, <2>1 DEF FlightType
  <1>7. /\ slots \in [Senders \X PackageIds -> SlotType]
        /\ meta \in [Senders -> MetaType]
        /\ flights \in [Senders -> FlightType \X FlightType]
    BY DEF IInv, TablesOK
  <1> HIDE DEF m, old, new, f1, done
  <1>8. /\ c \in Senders \X PackageIds
        /\ slots'[c] = new /\ meta'[s] = m
        /\ flights'[s] = <<flights[s][1], f1>>
        /\ flights'[s][1] = flights[s][1] /\ flights'[s][2] = f1
        /\ \A t \in Senders \ {s} : flights'[t] = flights[t] /\ meta'[t] = meta[t]
        /\ \A d \in Senders \X PackageIds : d # c => slots'[d] = slots[d]
    BY <1>1, <1>3, <1>7
  <1>9. TablesOK'
    <2>1. slots' \in [Senders \X PackageIds -> SlotType]
      BY <1>3, <1>5, <1>7, <1>8
    <2>2. meta' \in [Senders -> MetaType]
      BY <1>3, <1>7
    <2>3. <<flights[s][1], f1>> \in FlightType \X FlightType
      BY <1>1, <1>6
    <2>4. flights' \in [Senders -> FlightType \X FlightType]
      BY <1>3, <1>7, <2>3
    <2> QED
      BY <2>1, <2>2, <2>4 DEF TablesOK
  <1>10. SenderOK(s)'
    <2>1. FlightOK(flights[s][1])'
      BY <1>8 DEF IInv, SenderOK, FlightOK
    <2>2. FlightOK(flights[s][2])'
      <3>1. f1.pkg.id = f1.n % U8
        BY <1>1, <1>6
      <3>2. f1.arrived \subseteq SlicesOf(f1.pkg)
        BY <1>1, <1>3, <1>6
      <3>3. f1.observed = (IF f1.arrived = SlicesOf(f1.pkg) THEN 1 ELSE 0)
        BY <1>6 DEF done
      <3> HIDE DEF f, S1
      <3> QED BY <1>8, <3>1, <3>2, <3>3 DEF FlightOK
    <2>3. S1 # {}
      OBVIOUS
    <2>4. FlightsFollow(s)'
      BY <1>6, <1>8, <2>3 DEF FlightsFollow
    <2>5. Heard(s)' = f.n
      BY <1>6, <1>8, <2>3 DEF Heard
    <2>6. ClockOK(s)'
      <3>1. PICK g1 \in PackageIds :
                /\ m.gen = GenOf(g1, f.n)
                /\ \A j \in PackageIds \ {id} : Holds(slots[<<s, j>>], j, g1, f.n)
        BY <1>4
      <3>2. meta'[s].pkg = f.n % U8 /\ meta'[s].gen = GenOf(g1, f.n)
        BY <1>1, <1>3, <1>8, <3>1
      <3>3. ASSUME NEW j \in PackageIds \ {id}
            PROVE  Holds(slots'[<<s, j>>], j, g1, f.n)
        <4>1. slots'[<<s, j>>] = slots[<<s, j>>]
          BY <1>8
        <4> QED
          BY <3>1, <4>1
      <3>4. Holds(slots'[c], id, g1, f.n)
        <4>1. f.n \in 0..f.n /\ f.n < f.n + U8
          BY <1>1, Widths
        <4> QED
          BY <1>1, <1>5, <1>8, <3>1, <4>1 DEF Holds
      <3>5. \A j \in PackageIds : Holds(slots'[<<s, j>>], j, g1, f.n)
        BY <3>3, <3>4
      <3> QED
        BY <2>5, <3>2, <3>5 DEF ClockOK, Holds, GenOf
    <2>7. InFlight(s)'
      <3>1. flights'[s][2].pkg = f.pkg /\ flights'[s][2].n = f.n
            /\ flights'[s][2].arrived = S1 /\ flights'[s][2].observed = done
            /\ slots'[<<s, flights'[s][2].pkg.id>>] = new
        BY <1>6, <1>8
      <3>2. done = 0 => new.gen = meta'[s].gen /\ Records(new, f.pkg, S1, f.n)
        BY <1>5, <1>8 DEF done
      <3> QED
        BY <3>1, <3>2 DEF InFlight, Records
    <2> QED
      BY <2>1, <2>2, <2>4, <2>6, <2>7 DEF SenderOK
  <1>11. ASSUME NEW t \in Senders, t # s
         PROVE  SenderOK(t)'
    <2>1. /\ flights'[t] = flights[t] /\ meta'[t] = meta[t]
          /\ \A j \in PackageIds : slots'[<<t, j>>] = slots[<<t, j>>]
      BY <1>8, <1>11
    <2> QED
      BY <2>1, SenderUnmoved
  <1>12. ObservedIntact'
    <2>1. last' = last \/ (last'.parts = {last'.of} /\ last'.length = last'.expected)
      BY <1>2 DEF Arrived
    <2> QED
      BY <2>1 DEF IInv, ObservedIntact, Nothing
  <1> QED
    BY <1>9, <1>10, <1>11, <1>12 DEF IInv

\* A message that has just begun.
LEMMA FreshFlight ==
    ASSUME EverySliceCarriesData, NEW n \in Nat, n <= MaxMessages,
           NEW shape \in Shapes, NEW s \in Senders
    PROVE  LET f == Flight(n, shape, s)
           IN  f \in FlightType /\ FlightOK(f) /\ f.n = n /\ f.arrived = {}
  <1> DEFINE p == [id |-> n % U8, sender |-> s,
                   full |-> shape.full, rest |-> shape.rest, style |-> shape.style]
  <1>1. /\ shape \in [full : 0..U8, rest : 0..(MaxP - 1), style : Styles]
        /\ SafePackage(shape) /\ s \in SenderIds /\ MaxMessages \in Nat
    BY DecoderAssumption
  <1>2. n % U8 \in PackageIds
    BY Widths, DivMod DEF PackageIds
  <1>3. p \in AllPackages
    BY <1>1, <1>2 DEF AllPackages
  <1>4. SafePackage(p)
    BY <1>1 DEF SafePackage, Length, LastSlice, DataCount
  <1>5. p \in Sent
    BY <1>1, <1>3, <1>4 DEF Sent, Assemblable, EverySliceCarriesData
  <1>6. Flight(n, shape, s) = [n |-> n, arrived |-> {}, observed |-> 0, pkg |-> p]
    BY DEF Flight
  <1>7. n \in 0..MaxMessages /\ p.id = n % U8
    BY <1>1
  <1> HIDE DEF p
  <1>8. {} # SlicesOf(p)
    <2>1. 0 \in SlicesOf(p)
      BY <1>5, SentFacts
    <2> QED
      BY <2>1
  <1> QED
    BY <1>5, <1>6, <1>7, <1>8 DEF FlightType, FlightOK

\* A sender that begins a message keeps the invariant: nothing of it is heard yet.
LEMMA BeginIInv ==
    ASSUME IInv, EverySliceCarriesData, NEW s \in Senders, NEW jump \in 1..MaxJump,
           NEW shape \in Shapes, Begin(s, jump, shape)
    PROVE  IInv'
  <1> DEFINE f  == flights[s][2]
             f1 == Flight(f.n + jump, shape, s)
  <1>1. f \in FlightType /\ f.n \in Nat /\ f.arrived # {} /\ f.n + jump <= MaxMessages
    BY CurrentFlight DEF Begin
  <1>2. /\ flights' = [flights EXCEPT ![s] = <<f, f1>>]
        /\ slots' = slots /\ meta' = meta /\ last' = last
    BY DEF Begin
  <1>3. MaxJump \in Nat /\ jump \in Nat /\ 0 < jump /\ jump <= MaxJump
    <2>1. MaxJump \in Nat
      BY Widths, DecoderAssumption
    <2> QED
      BY <2>1
  <1>4. f1 \in FlightType /\ FlightOK(f1) /\ f1.n = f.n + jump /\ f1.arrived = {}
    BY <1>1, <1>3, FreshFlight
  <1>5. flights \in [Senders -> FlightType \X FlightType]
    BY DEF IInv, TablesOK
  <1> HIDE DEF f1
  <1>6. /\ flights'[s] = <<f, f1>> /\ flights'[s][1] = f /\ flights'[s][2] = f1
        /\ \A t \in Senders \ {s} : flights'[t] = flights[t]
    BY <1>2, <1>5
  <1>7. TablesOK'
    <2>1. <<f, f1>> \in FlightType \X FlightType
      BY <1>1, <1>4
    <2>2. flights' \in [Senders -> FlightType \X FlightType]
      BY <1>2, <1>5, <2>1
    <2> QED
      BY <1>2, <2>2 DEF IInv, TablesOK
  <1>8. SenderOK(s)'
    <2>1. SenderOK(s)
      BY DEF IInv
    <2>2. FlightOK(flights[s][1])' /\ FlightOK(flights[s][2])'
      BY <1>4, <1>6, <2>1 DEF SenderOK, FlightOK
    <2>3. FlightsFollow(s)'
      BY <1>1, <1>3, <1>4, <1>6 DEF FlightsFollow
    <2>4. ClockOK(s)'
      <3>1. Heard(s)' = Heard(s)
        BY <1>1, <1>4, <1>6 DEF Heard
      <3> QED
        BY <1>2, <2>1, <3>1 DEF SenderOK, ClockOK, Holds, GenOf
    <2>5. InFlight(s)'
      BY <1>4, <1>6 DEF InFlight
    <2> QED
      BY <2>2, <2>3, <2>4, <2>5 DEF SenderOK
  <1>9. ASSUME NEW t \in Senders, t # s
        PROVE  SenderOK(t)'
    <2>1. /\ flights'[t] = flights[t] /\ meta'[t] = meta[t]
          /\ \A j \in PackageIds : slots'[<<t, j>>] = slots[<<t, j>>]
      BY <1>2, <1>6, <1>9
    <2> QED
      BY <2>1, SenderUnmoved
  <1>10. ObservedIntact'
    BY <1>2 DEF IInv, ObservedIntact, Nothing
  <1> QED
    BY <1>7, <1>8, <1>9, <1>10 DEF IInv

\* The invariant holds before anything has arrived, whatever the clocks say.
LEMMA InitIInv == EverySliceCarriesData /\ Init => IInv
  <1> SUFFICES ASSUME EverySliceCarriesData, Init PROVE IInv
    OBVIOUS
  <1>1. ASSUME NEW s \in Senders
        PROVE  \E f \in FlightType : /\ flights[s] = <<f, f>> /\ FlightOK(f)
                                     /\ f.arrived = {}
    <2>1. PICK shape \in Shapes, t \in Senders :
              flights[s] = <<Flight(0, shape, t), Flight(0, shape, t)>>
      <3>1. flights \in [Senders -> {<<f, f>> : f \in {Flight(0, shape, t) :
                                        shape \in Shapes, t \in Senders}}]
        BY DEF Init
      <3> QED BY <3>1
    <2>2. 0 \in Nat /\ 0 <= MaxMessages
      BY DecoderAssumption
    <2>3. Flight(0, shape, t) \in FlightType /\ FlightOK(Flight(0, shape, t))
          /\ Flight(0, shape, t).arrived = {}
      BY <2>2, FreshFlight
    <2> QED
      BY <2>1, <2>3
  <1>2. TablesOK
    <2>1. EmptySlot \in SlotType
      <3>1. 0 \in Offsets /\ 0 \in PackageIds /\ {} \in SUBSET SliceIds
        BY Widths DEF Offsets, PackageIds
      <3> QED
        BY <3>1 DEF EmptySlot, SlotType, ZeroState, SliceStates
    <2>2. slots \in [Senders \X PackageIds -> SlotType] /\ meta \in [Senders -> MetaType]
      BY <2>1 DEF Init, MetaType
    <2>3. flights \in [Senders -> FlightType \X FlightType]
      <3>1. ASSUME NEW s \in Senders PROVE flights[s] \in FlightType \X FlightType
        <4>1. PICK f \in FlightType : flights[s] = <<f, f>>
          BY ONLY <1>1, s \in Senders
        <4> QED BY ONLY <4>1, f \in FlightType
      <3> DEFINE X == {<<f, f>> : f \in {Flight(0, shape, s) : shape \in Shapes, s \in Senders}}
      <3>2. flights \in [Senders -> X]
        BY DEF Init
      <3> HIDE DEF X
      <3> QED
        BY <3>1, <3>2
    <2> QED
      BY <2>2, <2>3 DEF TablesOK
  <1>3. ASSUME NEW s \in Senders
        PROVE  SenderOK(s)
    <2>1. PICK f \in FlightType : /\ flights[s] = <<f, f>> /\ FlightOK(f) /\ f.arrived = {}
      BY <1>1
    <2>2. Heard(s) = -1
      BY <2>1 DEF Heard
    <2>3. ClockOK(s)
      <3>1. 0 \in PackageIds
        BY Widths DEF PackageIds
      <3>2. \A id \in PackageIds : Holds(slots[<<s, id>>], id, 0, Heard(s))
        BY DEF Init, EmptySlot, Holds
      <3> QED
        BY <2>2, <3>1, <3>2 DEF ClockOK
    <2> QED
      BY <2>1, <2>3 DEF SenderOK, FlightsFollow, InFlight
  <1>4. ObservedIntact
    BY DEF Init, ObservedIntact
  <1> QED
    BY <1>2, <1>3, <1>4 DEF IInv

\* Every step keeps the invariant.
LEMMA StepIInv ==
    EverySliceCarriesData /\ GenerationsDiffer /\ JumpsAreShort /\ IInv /\ [Next]_vars => IInv'
  <1> SUFFICES ASSUME EverySliceCarriesData, GenerationsDiffer, JumpsAreShort, IInv, [Next]_vars
               PROVE  IInv'
    OBVIOUS
  <1>1. CASE BeginSome
    BY <1>1, BeginIInv DEF BeginSome
  <1>2. CASE \E s \in Senders, i \in SliceIds : flights[s][2].observed = 0 /\ Arrive(s, 2, i)
    BY <1>2, ArriveIInv
  <1>3. CASE UNCHANGED vars
    <2>1. slots' = slots /\ meta' = meta /\ flights' = flights /\ last' = last
      BY <1>3 DEF vars
    <2>2. \A s \in Senders : SenderOK(s)'
      BY <2>1, SenderUnmoved
    <2> QED
      BY <2>1, <2>2 DEF IInv, TablesOK, ObservedIntact, Nothing
  <1> QED
    BY <1>1, <1>2, <1>3 DEF Next

\* The inductive invariant holds in every state the decoder reaches.
LEMMA AlwaysIInv ==
    ASSUME EverySliceCarriesData, GenerationsDiffer, JumpsAreShort
    PROVE  Spec => []IInv
  <1>1. Init => IInv
    BY InitIInv
  <1>2. IInv /\ [Next]_vars => IInv'
    BY StepIInv
  <1> QED
    BY <1>1, <1>2, PTL DEF Spec

-----------------------------------------------------------------------------
(* Types, whatever the link loses *)

\* A message of any encoder.
AnyFlight == [n : Nat, arrived : SUBSET SliceIds, observed : Nat, pkg : Assemblable]

Typed ==
    /\ slots \in [Senders \X PackageIds -> SlotType]
    /\ meta \in [Senders -> MetaType]
    /\ flights \in [Senders -> AnyFlight \X AnyFlight]

\* A message that has just begun.
LEMMA FreshTyped ==
    ASSUME NEW n \in Nat, NEW shape \in Shapes, NEW s \in Senders
    PROVE  Flight(n, shape, s) \in AnyFlight
  <1> DEFINE p == [id |-> n % U8, sender |-> s,
                   full |-> shape.full, rest |-> shape.rest, style |-> shape.style]
  <1>1. /\ shape \in [full : 0..U8, rest : 0..(MaxP - 1), style : Styles]
        /\ SafePackage(shape) /\ s \in SenderIds
    BY DecoderAssumption
  <1>2. n % U8 \in PackageIds
    BY Widths, DivMod DEF PackageIds
  <1>3. p \in AllPackages
    BY <1>1, <1>2 DEF AllPackages
  <1>4. SafePackage(p)
    BY <1>1 DEF SafePackage, Length, LastSlice, DataCount
  <1>5. p \in Assemblable
    BY <1>3, <1>4 DEF Assemblable
  <1>6. Flight(n, shape, s) = [n |-> n, arrived |-> {}, observed |-> 0, pkg |-> p]
    BY DEF Flight
  <1> HIDE DEF p
  <1> QED
    BY <1>5, <1>6 DEF AnyFlight

LEMMA InitTyped == Init => Typed
  <1> SUFFICES ASSUME Init PROVE Typed
    OBVIOUS
  <1>1. EmptySlot \in SlotType
    <2>1. 0 \in Offsets /\ 0 \in PackageIds /\ {} \in SUBSET SliceIds
      BY Widths DEF Offsets, PackageIds
    <2> QED
      BY <2>1 DEF EmptySlot, SlotType, ZeroState, SliceStates
  <1>2. slots \in [Senders \X PackageIds -> SlotType] /\ meta \in [Senders -> MetaType]
    BY <1>1 DEF Init, MetaType
  <1>3. flights \in [Senders -> AnyFlight \X AnyFlight]
    <2> DEFINE X == {<<f, f>> : f \in {Flight(0, shape, s) : shape \in Shapes, s \in Senders}}
    <2>1. flights \in [Senders -> X]
      BY DEF Init
    <2>2. X \subseteq AnyFlight \X AnyFlight
      BY FreshTyped
    <2> HIDE DEF X
    <2> QED
      BY <2>1, <2>2
  <1> QED
    BY <1>2, <1>3 DEF Typed

\* What gc_hook and gc_clock_hook return.
LEMMA ClockTyped ==
    ASSUME NEW m \in MetaType, NEW id \in PackageIds, NEW slot \in SlotType
    PROVE  gc_hook(m, id) \in MetaType /\ gc_clock_hook(slot, gc_hook(m, id)) \in SlotType
  <1>1. (m.gen + 1) % U8 \in PackageIds
    <2>1. m.gen + 1 \in Nat /\ U8 \in Nat \ {0}
      BY Widths DEF MetaType, PackageIds
    <2> QED
      BY <2>1, DivMod DEF PackageIds
  <1>2. gc_hook(m, id) \in MetaType
    BY <1>1 DEF gc_hook, MetaType
  <1>3. ZeroState \in SliceStates
    <2>1. 0 \in Offsets /\ {} \in SUBSET SliceIds
      BY Widths DEF Offsets
    <2> QED
      BY <2>1 DEF ZeroState, SliceStates
  <1> QED
    BY <1>2, <1>3 DEF gc_clock_hook, SlotType, MetaType

\* Push stores a state that the step returned, or none.
LEMMA PushTyped ==
    ASSUME NEW slot \in SlotType, NEW hdr, NEW n \in Nat,
           hdr.slice_serial \in SliceIds, hdr.slice_payload_size \in Nat,
           ~ StepDiverges(slot.state, hdr.slice_serial, hdr.slice_payload_size,
                          MaxP, hdr.eop = 1)
    PROVE  Push(slot, hdr, n).slot \in SlotType
  <1> DEFINE i    == hdr.slice_serial
             step == mp_rx_calc_slice_step(slot.state, i, hdr.slice_payload_size,
                                           MaxP, hdr.eop = 1)
             data == IF hdr.slice_payload_size > 0 THEN [slot.data EXCEPT ![i] = n]
                                                   ELSE slot.data
             new  == IF step.e = "COMPLETE" THEN ZeroState ELSE step.next_state
  <1>1. slot.state \in SliceStates /\ slot.data \in [SliceIds -> Int]
    BY DEF SlotType
  <1>2. step.next_state \in SliceStates
    <2>1. (hdr.eop = 1) \in BOOLEAN
      OBVIOUS
    <2> QED
      BY <1>1, <2>1, StepTyped
  <1>3. new \in SliceStates
    <2>1. 0 \in Offsets /\ {} \in SUBSET SliceIds
      BY Widths DEF Offsets
    <2>2. ZeroState \in SliceStates
      BY <2>1 DEF ZeroState, SliceStates
    <2> QED
      BY <1>2, <2>2
  <1>4. data \in [SliceIds -> Int]
    BY <1>1
  <1>5. Push(slot, hdr, n).slot = slot
            \/ Push(slot, hdr, n).slot = [slot EXCEPT !.data = data, !.state = new]
    BY DEF Push
  <1> HIDE DEF data, new
  <1> QED
    BY <1>3, <1>4, <1>5 DEF SlotType

\* The tables after a slice has arrived.
LEMMA ArriveTyped ==
    ASSUME Typed, NEW s \in Senders, NEW i \in SliceIds, Arrive(s, 2, i)
    PROVE  Typed'
  <1> DEFINE f    == flights[s][2]
             hdr  == mp_header_unpack(HeaderBytes(f.pkg, i))
             m    == gc_hook(meta[s], hdr.package_serial)
             c    == <<s, hdr.package_serial>>
             slot == gc_clock_hook(slots[c], m)
             call == Push(slot, hdr, f.n)
             f1   == [f EXCEPT !.arrived = @ \union {i},
                               !.observed = IF call.complete THEN @ + 1 ELSE @]
  <1>1. /\ slots \in [Senders \X PackageIds -> SlotType]
        /\ meta \in [Senders -> MetaType]
        /\ flights \in [Senders -> AnyFlight \X AnyFlight]
        /\ flights[s] \in AnyFlight \X AnyFlight /\ meta[s] \in MetaType
    BY DEF Typed
  <1>2. f \in AnyFlight
    BY <1>1
  <1>3. f.n \in Nat /\ f.pkg \in Assemblable /\ f.pkg.id \in PackageIds /\ f.arrived \subseteq SliceIds
    BY <1>2 DEF AnyFlight, Assemblable, AllPackages
  <1>4. hdr = HeaderOf(f.pkg, i) /\ PayloadSize(f.pkg, i) \in Nat
    <2>1. i \in SlicesOf(f.pkg)
      BY DEF Arrive
    <2> QED
      BY <1>3, <2>1, HeaderOfSlice, SliceSizes
  <1>5. /\ hdr.package_serial = f.pkg.id /\ hdr.slice_serial = i
        /\ hdr.slice_payload_size = PayloadSize(f.pkg, i)
    BY <1>4 DEF HeaderOf
  <1> HIDE DEF hdr
  <1>6. c \in Senders \X PackageIds /\ slots[c] \in SlotType /\ hdr.package_serial \in PackageIds
    BY <1>1, <1>3, <1>5
  <1>7. m \in MetaType /\ slot \in SlotType
    BY <1>1, <1>6, ClockTyped
  <1>8. /\ ~ StepDiverges(slot.state, hdr.slice_serial, hdr.slice_payload_size,
                          MaxP, hdr.eop = 1)
        /\ meta' = [meta EXCEPT ![s] = m]
        /\ slots' = [slots EXCEPT ![c] = call.slot]
        /\ flights' = [flights EXCEPT ![s][2] = f1]
    BY DEF Arrive, hdr
  <1> HIDE DEF m, slot
  <1>9. call.slot \in SlotType
    <2>1. hdr.slice_serial \in SliceIds /\ hdr.slice_payload_size \in Nat
      BY <1>4, <1>5
    <2> QED
      BY <1>3, <1>7, <1>8, <2>1, PushTyped
  <1> HIDE DEF call
  <1>10. f1 \in AnyFlight
    <2>1. f.arrived \union {i} \in SUBSET SliceIds
      BY <1>3
    <2>2. (IF call.complete THEN f.observed + 1 ELSE f.observed) \in Nat
      BY <1>2 DEF AnyFlight
    <2> QED
      BY <1>2, <2>1, <2>2 DEF AnyFlight
  <1>11. flights' \in [Senders -> AnyFlight \X AnyFlight]
    <2> HIDE DEF f1
    <2>1. [flights[s] EXCEPT ![2] = f1] = <<flights[s][1], f1>>
      BY <1>1
    <2>2. [flights[s] EXCEPT ![2] = f1] \in AnyFlight \X AnyFlight
      BY <1>1, <1>10, <2>1
    <2> QED
      BY <1>1, <1>8, <2>2
  <1> QED
    BY <1>1, <1>7, <1>8, <1>9, <1>11 DEF Typed

LEMMA NextTyped == Typed /\ [Next]_vars => Typed'
  <1> SUFFICES ASSUME Typed, [Next]_vars PROVE Typed'
    OBVIOUS
  <1>1. ASSUME NEW s \in Senders, NEW jump \in 1..MaxJump, NEW shape \in Shapes,
               Begin(s, jump, shape)
        PROVE  Typed'
    <2> DEFINE f  == flights[s][2]
               f1 == Flight(f.n + jump, shape, s)
    <2>1. flights \in [Senders -> AnyFlight \X AnyFlight] /\ f \in AnyFlight
      BY DEF Typed
    <2>2. f.n + jump \in Nat
      <3>1. MaxJump \in Nat
        BY DecoderAssumption
      <3>2. f.n \in Nat /\ jump \in Nat
        BY <2>1, <3>1 DEF AnyFlight
      <3> QED
        BY <3>2
    <2>3. f1 \in AnyFlight
      BY <2>2, FreshTyped
    <2>4. /\ flights' = [flights EXCEPT ![s] = <<f, f1>>]
          /\ slots' = slots /\ meta' = meta
      BY <1>1 DEF Begin
    <2> HIDE DEF f1
    <2>5. <<f, f1>> \in AnyFlight \X AnyFlight
      BY <2>1, <2>3
    <2>6. flights' \in [Senders -> AnyFlight \X AnyFlight]
      BY <2>1, <2>4, <2>5
    <2> QED
      BY <2>4, <2>6 DEF Typed
  <1>2. CASE BeginSome
    BY <1>1, <1>2 DEF BeginSome
  <1>3. CASE \E s \in Senders, i \in SliceIds : flights[s][2].observed = 0 /\ Arrive(s, 2, i)
    BY <1>3, ArriveTyped
  <1>4. CASE UNCHANGED vars
    BY <1>4 DEF vars, Typed
  <1> QED
    BY <1>2, <1>3, <1>4 DEF Next

\* The slots and the clock of the decoders keep their C types whatever the link
\* loses and whichever encoder sends.
THEOREM TypeCorrect == Spec => []TypeOK
  <1>1. Init => Typed
    BY InitTyped
  <1>2. Typed /\ [Next]_vars => Typed'
    BY NextTyped
  <1>3. Typed => TypeOK
    BY DEF Typed, TypeOK, SlotType, MetaType
  <1> QED
    BY <1>1, <1>2, <1>3, PTL DEF Spec

\* RxDecoder hands over whole messages, each made of its own slices, although a
\* slot may hold what an earlier message with the same id left in it.  Half a turn
\* of ids lost in a row, an empty eop slice left alone and a slot that meets its
\* own generation again are where this ends, and are the hypotheses.
THEOREM NothingMixed ==
    ASSUME EverySliceCarriesData, GenerationsDiffer, JumpsAreShort
    PROVE  Spec => []ObservedIntact
  <1>1. IInv => ObservedIntact
    BY DEF IInv
  <1> QED
    BY <1>1, AlwaysIInv, PTL

\* RxDecoder hands a message over when its last slice arrives, once: gc_clock_hook
\* drops nothing that is still arriving, and whatever else it should.  The
\* hypotheses are those of NothingMixed.
THEOREM HandedOverWhenArrived ==
    ASSUME EverySliceCarriesData, GenerationsDiffer, JumpsAreShort
    PROVE  Spec => []ObservedWhenArrived
  <1>1. IInv => ObservedWhenArrived
    BY DEF IInv, SenderOK, FlightOK, ObservedWhenArrived
  <1> QED
    BY <1>1, AlwaysIInv, PTL
=============================================================================

----------------------------- MODULE MPRxProofs -----------------------------
(***************************************************************************)
(* Facts about the pure operators of MPCommon and MPRx, for every width    *)
(* and every transmission unit: integer arithmetic, the wire header, and   *)
(* what mp_rx_advance_watermark returns.                                   *)
(***************************************************************************)
EXTENDS StreamRx, Slicing, TLAPS, WellFoundedInduction

-----------------------------------------------------------------------------
(* Arithmetic *)

\* Multiples of the payload size grow by at least one payload per slice.
LEMMA MultiplesGrow ==
    ASSUME NEW a \in Nat, NEW b \in Nat, NEW m \in Nat, a < b
    PROVE  a * m + m <= b * m
  <1>1. b * m = a * m + m + (b - a - 1) * m
    OBVIOUS
  <1>2. (b - a - 1) * m >= 0
    OBVIOUS
  <1> QED
    BY <1>1, <1>2

\* Offsets are ordered as their slices are.
LEMMA OffsetsOrdered ==
    ASSUME NEW a \in Nat, NEW b \in Nat, NEW m \in Nat \ {0}, a < b
    PROVE  a * m < b * m
  <1>1. a * m + m <= b * m
    BY MultiplesGrow
  <1>2. a * m \in Nat /\ b * m \in Nat
    OBVIOUS
  <1> QED
    BY <1>1, <1>2

\* A package has at least as many bytes of space as slices.
LEMMA SlicesFit ==
    ASSUME NEW a \in Nat, NEW m \in Nat \ {0}
    PROVE  a <= a * m
  OBVIOUS

\* Rounding a byte position down to its slice finds the slice.
LEMMA SliceOfPosition ==
    ASSUME NEW q \in Nat, NEW r \in Nat, NEW m \in Nat \ {0}, r < m
    PROVE  (q * m + r) \div m = q
  <1> DEFINE d == (q * m + r) \div m
  <1>1. /\ d \in Nat
        /\ d * m <= q * m + r
        /\ q * m + r < d * m + m
    OBVIOUS
  <1>2. ~ d < q
    BY <1>1, MultiplesGrow
  <1>3. ~ q < d
    BY <1>1, MultiplesGrow
  <1> QED
    BY <1>1, <1>2, <1>3

\* A value below the width of its type is not truncated.
LEMMA NoTruncation ==
    ASSUME NEW x \in Nat, NEW n \in Nat, x < n
    PROVE  x % n = x
  OBVIOUS

\* Every non-empty set of naturals has a least element.
LEMMA LeastElement ==
    ASSUME NEW T, T \subseteq Nat, T # {}
    PROVE  \E x \in T : \A y \in T : x <= y
  <1>1. PICK x \in T : \A y \in T : ~ (<<y, x>> \in OpToRel(<, Nat))
    BY NatLessThanWellFounded, WFMin
  <1>2. \A y \in T : ~ (y < x)
    BY <1>1 DEF OpToRel
  <1> QED
    BY <1>2

\* The widths are natural numbers.
LEMMA Widths == U8 \in Nat /\ U16 \in Nat /\ 1 < U8 /\ 1 < U16 /\ U8 <= 256 /\ U16 <= 65536
  BY WidthAssumption

\* The configured payload size, with the truncation of mp_max_payload gone.
LEMMA MaxPFacts == MaxP = TU - 4 /\ MaxP \in Nat \ {0} /\ MaxP < U16
  <1>1. TU - 4 \in Nat /\ U16 \in Nat /\ 0 < TU - 4 /\ TU - 4 < U16
    BY WidthAssumption
  <1>2. (TU - 4) % U16 = TU - 4
    BY <1>1, NoTruncation
  <1> QED
    BY <1>1, <1>2 DEF MaxP, mp_max_payload, MP_HEADER_SIZE

-----------------------------------------------------------------------------
(* The header *)

Nibble == 0..15
Bit == 0..1

\* The byte that mixes size, eop and sender bits determines what was packed.
LEMMA MixedByte ==
    ASSUME NEW s \in SenderIds, NEW e \in Bit, NEW lo \in Nibble
    PROVE  \E b \in Byte : /\ b = s + 8 * e + 16 * lo
                           /\ b % 8 = s /\ (b \div 8) % 2 = e /\ b \div 16 = lo
  <1> DEFINE b == s + 8 * e + 16 * lo
  <1>1. b \in Byte /\ b % 8 = s
    BY DEF SenderIds, Bit, Nibble, Byte
  <1>2. b \div 8 = e + 2 * lo
    BY DEF SenderIds, Bit, Nibble
  <1>3. (b \div 8) % 2 = e
    <2>1. (e + 2 * lo) % 2 = e
      BY DEF Bit, Nibble
    <2> QED
      BY <1>2, <2>1
  <1>4. b \div 16 = lo
    BY DEF SenderIds, Bit, Nibble
  <1> QED
    BY <1>1, <1>3, <1>4

\* The 12 bits of the size, split in 4 and 8.
LEMMA SplitSize ==
    ASSUME NEW z \in PayloadSizes
    PROVE  \E lo \in Nibble, hi \in Byte :
               z = lo + 16 * hi /\ z % 16 = lo /\ (z \div 16) % 256 = hi
  <1>1. z % 16 \in Nibble /\ z \div 16 \in Byte /\ z = (z % 16) + 16 * (z \div 16)
    BY DEF PayloadSizes, Nibble, Byte
  <1>2. (z \div 16) % 256 = z \div 16
    BY <1>1 DEF Byte
  <1> QED
    BY <1>1, <1>2

\* mp_header_unpack undoes mp_header_pack on every header whose fields fit
\* their bits; the four bytes are bytes.
THEOREM HeaderRoundTrip ==
    ASSUME NEW h \in Headers
    PROVE  /\ mp_header_unpack(mp_header_pack(h)) = h
           /\ mp_header_pack(h) \in Byte \X Byte \X Byte \X Byte
  <1>1. PICK p \in Byte, i \in Byte, s \in SenderIds, e \in Bit, z \in PayloadSizes :
            h = [package_serial |-> p, slice_serial |-> i, sender_id |-> s,
                 eop |-> e, slice_payload_size |-> z]
    <2>1. \A n \in 0..(U8 - 1) : n \in Byte
      BY Widths DEF Byte
    <2>2. PackageIds \subseteq Byte /\ SliceIds \subseteq Byte
      BY <2>1 DEF PackageIds, SliceIds
    <2> QED
      BY <2>2 DEF Headers, Bit
  <1>2. PICK lo \in Nibble, hi \in Byte :
            z = lo + 16 * hi /\ z % 16 = lo /\ (z \div 16) % 256 = hi
    BY SplitSize
  <1>3. s % 8 = s
    BY DEF SenderIds
  <1>4. PICK b \in Byte : /\ b = s + 8 * e + 16 * lo
                          /\ b % 8 = s /\ (b \div 8) % 2 = e /\ b \div 16 = lo
    BY MixedByte
  <1>5. mp_header_pack(h) = <<p, i, b, hi>>
    BY <1>1, <1>2, <1>3, <1>4 DEF mp_header_pack
  <1>6. mp_header_unpack(<<p, i, b, hi>>) =
            [package_serial |-> p, slice_serial |-> i, sender_id |-> s,
             eop |-> e, slice_payload_size |-> z]
    BY <1>2, <1>4 DEF mp_header_unpack
  <1> QED
    BY <1>1, <1>5, <1>6

-----------------------------------------------------------------------------
(* The watermark loop *)

\* A multiple of the payload size is the offset of its slice.
LEMMA SliceAtMultiple ==
    ASSUME NEW c \in Nat, NEW m \in Nat \ {0}, c < U8
    PROVE  mp_offset_to_slice_idx(c * m, m) = c
  <1>1. (c * m + 0) \div m = c
    BY SliceOfPosition
  <1>2. c * m + 0 = c * m
    OBVIOUS
  <1>3. c % U8 = c
    BY Widths, NoTruncation
  <1> QED
    BY <1>1, <1>2, <1>3 DEF mp_offset_to_slice_idx

\* From the offset of slice a, slice b is the first that is missing or beyond
\* the termination, and wm does not wrap on the way there.
Reaches(st, m, a, b) ==
    /\ a <= b /\ b * m < U16 /\ st.watermark = a * m
    /\ \A j \in a..(b - 1) :
           j \in st.bitmap /\ (st.termination > 0 => j * m < st.termination)
    /\ (st.termination > 0 /\ b * m >= st.termination) \/ (b < U8 /\ b \notin st.bitmap)

\* mp_rx_advance_watermark returns, and its result is the offset of the slice
\* it reaches, cut at the termination.
LEMMA AdvanceResult ==
    ASSUME NEW st \in SliceStates, NEW m \in Nat \ {0}, NEW a \in Nat, NEW b \in Nat,
           Reaches(st, m, a, b)
    PROVE  /\ AdvanceReturns(st, m)
           /\ mp_rx_advance_watermark(st, m) =
                  IF st.termination > 0 /\ b * m > st.termination
                  THEN st.termination ELSE b * m
  <1> USE DEF Reaches
  <1> DEFINE K == b - a
             Least(k) == StopsAt(st, m, k) /\ \A j \in 0..(k - 1) : ~ StopsAt(st, m, j)
  <1>1. /\ U16 \in Nat /\ U8 \in Nat /\ K \in Nat
        /\ st.termination \in Nat /\ st.bitmap \subseteq 0..(U8 - 1)
    BY WidthAssumption DEF SliceStates, SliceIds, Offsets
  <1>2. ASSUME NEW k \in 0..K
        PROVE  (a + k) * m \in Nat /\ (a + k) * m < U16
    <2>1. a + k \in Nat /\ k \in Nat /\ a + k <= b
      BY <1>1
    <2>2. CASE a + k = b
      BY <2>1, <2>2
    <2>3. CASE a + k < b
      <3>1. (a + k) * m + m <= b * m
        BY <2>1, <2>3, MultiplesGrow
      <3>2. (a + k) * m \in Nat /\ b * m \in Nat
        BY <2>1
      <3> QED
        BY <3>1, <3>2, <1>1
    <2> QED
      BY <2>1, <2>2, <2>3
  <1>3. ASSUME NEW k \in 0..K
        PROVE  /\ WatermarkAt(st, m, k) = (a + k) * m
               /\ a + k < U8 => mp_offset_to_slice_idx((a + k) * m, m) = a + k
    <2>1. k \in Nat
      OBVIOUS
    <2>2. PICK c \in Nat : c = a + k
      BY <2>1
    <2>3. c * m \in Nat /\ c * m < U16
      BY <1>2, <2>2
    <2>4. st.watermark + k * m = c * m
      BY <2>1, <2>2
    <2>5. (c * m) % U16 = c * m
      BY <1>1, <2>3, NoTruncation
    <2>6. c < U8 => mp_offset_to_slice_idx(c * m, m) = c
      BY SliceAtMultiple
    <2> QED
      BY <2>2, <2>4, <2>5, <2>6 DEF WatermarkAt
  <1>4. StopsAt(st, m, K)
    <2>1. K \in 0..K /\ a + K = b
      BY <1>1
    <2>2. WatermarkAt(st, m, K) = b * m
      BY <1>3, <2>1
    <2>3. b < U8 => mp_offset_to_slice_idx(b * m, m) = b
      BY <1>3, <2>1
    <2> QED
      BY <2>2, <2>3 DEF StopsAt
  <1>5. ASSUME NEW k \in 0..(K - 1)
        PROVE  ~ StopsAt(st, m, k)
    <2>1. k \in 0..K /\ a + k \in a..(b - 1) /\ a + k \in Nat
      BY <1>1
    <2>2. /\ a + k \in st.bitmap /\ a + k < U8
          /\ st.termination > 0 => (a + k) * m < st.termination
      BY <1>1, <2>1
    <2>3. WatermarkAt(st, m, k) = (a + k) * m
      BY <1>3, <2>1
    <2>4. mp_offset_to_slice_idx((a + k) * m, m) = a + k
      BY <1>3, <2>1, <2>2
    <2>5. ~ (st.termination > 0 /\ (a + k) * m >= st.termination)
      BY <1>1, <1>2, <2>1, <2>2
    <2> QED
      BY <2>2, <2>3, <2>4, <2>5 DEF StopsAt
  <1>6. K \in 0..U16
    <2>1. b <= b * m
      OBVIOUS
    <2> QED
      BY <1>1, <2>1
  <1>7. (CHOOSE k \in 0..U16 : Least(k)) = K
    <2>1. \E k \in 0..U16 : Least(k)
      BY <1>4, <1>5, <1>6
    <2> DEFINE c == CHOOSE k \in 0..U16 : Least(k)
    <2>2. c \in 0..U16 /\ Least(c)
      BY <2>1
    <2> HIDE DEF c
    <2>3. ~ c < K
      BY <1>1, <1>5, <2>2
    <2>4. ~ K < c
      BY <1>1, <1>4, <2>2
    <2>5. c = K
      BY <1>1, <2>2, <2>3, <2>4
    <2> QED
      BY <2>5 DEF c
  <1>8. WatermarkAt(st, m, K) = b * m
    <2>1. K \in 0..K /\ a + K = b
      BY <1>1
    <2> QED
      BY <1>3, <2>1
  <1>9. AdvanceReturns(st, m)
    BY <1>4, <1>6 DEF AdvanceReturns
  <1> QED
    BY <1>7, <1>8, <1>9 DEF mp_rx_advance_watermark
=============================================================================

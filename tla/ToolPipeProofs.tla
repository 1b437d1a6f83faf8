--------------------------- MODULE ToolPipeProofs ---------------------------
(***************************************************************************)
(* What the command line tools guarantee, for reads, units and numbers of  *)
(* invocations of every size and for every message that the wire format    *)
(* carries (Fits).  Whatever is killed or fails, rx                        *)
(* leaves its assembly buffer only for a message that is longer, or after  *)
(* an empty package or a frame lost with its rx; without these it writes   *)
(* no byte twice and none that is not a byte of a message; and, when       *)
(* nothing goes wrong, the messages one after the other, nothing lost.     *)
(***************************************************************************)
EXTENDS ToolPipe, SlicingProofs, SliceStepProofs

-----------------------------------------------------------------------------
(* Bytes of a message as sequences *)

BytePairs == Nat \X Nat

\* The n bytes of message m from position from on
BytesOf(m, from, n) == [k \in 1..n |-> <<m, from + k - 1>>]

\* b is the sequence of these bytes.
IsBytes(b, m, from, n) ==
    b \in Seq(BytePairs) /\ Len(b) = n /\ \A k \in 1..n : b[k] = <<m, from + k - 1>>

\* Bytes of a message are a sequence of their number.
LEMMA BytesAre ==
    ASSUME NEW m \in Nat, NEW from \in Nat, NEW n \in Nat, NEW b, b = BytesOf(m, from, n)
    PROVE  IsBytes(b, m, from, n)
  <1>1. \A k \in 1..n : from + k - 1 \in Nat
    OBVIOUS
  <1>2. b \in [1..n -> BytePairs]
    BY <1>1 DEF BytesOf, BytePairs
  <1>3. \A k \in 1..n : b[k] = <<m, from + k - 1>>
    BY DEF BytesOf
  <1>4. b \in Seq(BytePairs) /\ Len(b) = n
    BY ONLY <1>2, n \in Nat
  <1> QED BY ONLY <1>3, <1>4 DEF IsBytes

\* c is a and then b
TwoParts(a, b, c) == c = a \o b

\* The first bytes of a message and those that follow them
LEMMA BytesFromStart ==
    ASSUME NEW m \in Nat, NEW x \in Nat, NEW y \in Nat, NEW z, z = x + y,
           NEW a, a = BytesOf(m, 0, x), NEW b, b = BytesOf(m, x, y),
           NEW c, c = BytesOf(m, 0, z)
    PROVE  TwoParts(a, b, c)
  <1>0. z \in Nat
    OBVIOUS
  <1>1. IsBytes(a, m, 0, x) /\ IsBytes(b, m, x, y) /\ IsBytes(c, m, 0, z)
    <2>1. PICK from \in Nat : from = 0
      OBVIOUS
    <2>2. a = BytesOf(m, from, x) /\ b = BytesOf(m, x, y) /\ c = BytesOf(m, from, z)
      BY ONLY <2>1, a = BytesOf(m, 0, x), b = BytesOf(m, x, y), c = BytesOf(m, 0, z)
    <2>3. IsBytes(a, m, from, x) /\ IsBytes(b, m, x, y) /\ IsBytes(c, m, from, z)
      BY ONLY <1>0, <2>2, BytesAre, m \in Nat, from \in Nat, x \in Nat, y \in Nat
    <2> QED BY ONLY <2>1, <2>3
  <1>2. /\ a \in Seq(BytePairs) /\ Len(a) = x /\ \A k \in 1..x : a[k] = <<m, k - 1>>
        /\ b \in Seq(BytePairs) /\ Len(b) = y
        /\ \A k \in 1..y : b[k] = <<m, x + k - 1>>
        /\ c \in Seq(BytePairs) /\ Len(c) = z
        /\ \A k \in 1..z : c[k] = <<m, k - 1>>
    <2>1. \A k \in Nat : 0 + k - 1 = k - 1
      OBVIOUS
    <2> QED BY ONLY <1>0, <1>1, <2>1, x \in Nat DEF IsBytes
  <1>3. /\ a \o b \in Seq(BytePairs) /\ Len(a \o b) = z
        /\ \A k \in 1..z : (a \o b)[k] = IF k <= x THEN a[k] ELSE b[k - x]
    <2>1. /\ a \o b \in Seq(BytePairs) /\ Len(a \o b) = Len(a) + Len(b)
          /\ \A k \in 1..(Len(a) + Len(b)) :
                 (a \o b)[k] = IF k <= Len(a) THEN a[k] ELSE b[k - Len(a)]
      BY ONLY <1>2, ConcatProperties
    <2>2. z = x + y /\ x \in Nat /\ y \in Nat
      OBVIOUS
    <2> QED BY ONLY <1>2, <2>1, <2>2
  <1>4. \A k \in 1..z : (a \o b)[k] = c[k]
    <2> TAKE k \in 1..z
    <2>1. CASE k <= x
      <3>1. k \in 1..x
        BY <1>0, <2>1
      <3>a. (a \o b)[k] = a[k]
        BY ONLY <1>3, <2>1, k \in 1..z
      <3>2. c[k] = <<m, k - 1>>
        BY <1>2
      <3> QED BY <1>2, <3>1, <3>a, <3>2
    <2>2. CASE ~ (k <= x)
      <3>1. PICK i \in 1..y : i = k - x
        BY <2>2
      <3>2. (a \o b)[k] = b[i] /\ c[k] = <<m, k - 1>>
        BY <1>2, <1>3, <2>2, <3>1
      <3>3. x + i - 1 = k - 1
        BY <3>1
      <3> QED BY <1>2, <3>2, <3>3
    <2> QED BY <2>1, <2>2
  <1>5. c = a \o b
    BY <1>2, <1>3, <1>4, SeqEqual
  <1> QED BY ONLY <1>5 DEF TwoParts

\* The order in which three sequences are joined does not matter.
Associates(a, b, c) == (a \o b) \o c = a \o (b \o c)

\* Sequences of bytes may be joined in either order.
LEMMA BytesAssociate ==
    ASSUME NEW a \in Seq(BytePairs), NEW b \in Seq(BytePairs), NEW c \in Seq(BytePairs)
    PROVE  Associates(a, b, c)
  <1>1. (a \o b) \o c = a \o (b \o c)
    BY ConcatAssociative
  <1> QED BY ONLY <1>1 DEF Associates

\* No bytes
LEMMA NoBytes ==
    ASSUME NEW m \in Nat, NEW from \in Nat
    PROVE  BytesOf(m, from, 0) = <<>>
  BY DEF BytesOf

\* SubSeq by a name that the provers do not expand
Part(s, i, j) == SubSeq(s, i, j)

\* Some of the bytes
LEMMA PartOfBytes ==
    ASSUME NEW m \in Nat, NEW from \in Nat, NEW n \in Nat,
           NEW i \in 1..(n + 1), NEW j \in 0..n, i <= j + 1,
           NEW f, f = from + i - 1, NEW x, x = j - i + 1
    PROVE  Part(BytesOf(m, from, n), i, j) = BytesOf(m, f, x)
  <1>a. PICK a, b : a = BytesOf(m, from, n) /\ b = BytesOf(m, f, x)
    OBVIOUS
  <1> DEFINE c == SubSeq(a, i, j)
  <1> f \in Nat /\ x \in Nat
    OBVIOUS
  <1>b. IsBytes(a, m, from, n) /\ IsBytes(b, m, f, x)
    BY <1>a, BytesAre
  <1>1. /\ a \in Seq(BytePairs) /\ Len(a) = n /\ \A k \in 1..n : a[k] = <<m, from + k - 1>>
        /\ b \in Seq(BytePairs) /\ Len(b) = x
        /\ \A k \in 1..x : b[k] = <<m, f + k - 1>>
    BY ONLY <1>b DEF IsBytes
  <1>2. \A k \in i..j : a[k] \in BytePairs
    BY <1>1
  <1>3. /\ c \in Seq(BytePairs) /\ Len(c) = x
        /\ \A k \in 1..x : c[k] = a[i + k - 1]
    BY <1>2, SubSeqProperties
  <1> HIDE DEF c
  <1>4. \A k \in 1..x : c[k] = b[k]
    <2> TAKE k \in 1..x
    <2>1. PICK h \in 1..n : h = i + k - 1
      OBVIOUS
    <2>2. from + h - 1 = f + k - 1
      BY <2>1
    <2> QED BY <1>1, <1>3, <2>1, <2>2
  <1>5. c = b
    BY <1>1, <1>3, <1>4, SeqEqual
  <1> QED BY <1>5, <1>a DEF c, Part

\* A frame of the link is gone: those behind it move up.
LEMMA RemovedAt ==
    ASSUME NEW R, NEW s \in Seq(R), NEW k \in 1..Len(s)
    PROVE  /\ RemoveAt(s, k) \in Seq(R) /\ Len(RemoveAt(s, k)) = Len(s) - 1
           /\ \A j \in 1..(Len(s) - 1) : RemoveAt(s, k)[j] = IF j < k THEN s[j] ELSE s[j + 1]
  <1> DEFINE n == Len(s)
             a == SubSeq(s, 1, k - 1)
             b == SubSeq(s, k + 1, n)
  <1>1. n \in Nat /\ k \in 1..n /\ \A j \in 1..n : s[j] \in R
    BY ElementOfSeq, LenProperties
  <1>2. a \in Seq(R) /\ Len(a) = k - 1 /\ \A j \in 1..(k - 1) : a[j] = s[j]
    <2>1. \A j \in 1..(k - 1) : s[j] \in R
      BY <1>1
    <2> HIDE DEF n
    <2>2. /\ a \in Seq(R) /\ Len(a) = (IF 1 <= k - 1 THEN k - 1 - 1 + 1 ELSE 0)
          /\ \A j \in 1..(k - 1 - 1 + 1) : a[j] = s[1 + j - 1]
      BY <1>1, <2>1, SubSeqProperties
    <2> QED BY <1>1, <2>2
  <1>3. b \in Seq(R) /\ Len(b) = n - k /\ \A j \in 1..(n - k) : b[j] = s[k + j]
    <2>1. \A j \in (k + 1)..n : s[j] \in R
      BY <1>1
    <2> HIDE DEF n
    <2>2. /\ b \in Seq(R) /\ Len(b) = (IF k + 1 <= n THEN n - (k + 1) + 1 ELSE 0)
          /\ \A j \in 1..(n - (k + 1) + 1) : b[j] = s[k + 1 + j - 1]
      BY <1>1, <2>1, SubSeqProperties
    <2> QED BY <1>1, <2>2
  <1>4. RemoveAt(s, k) = a \o b
    BY DEF RemoveAt
  <1> HIDE DEF a, b, n
  <1>5. /\ a \o b \in Seq(R) /\ Len(a \o b) = Len(a) + Len(b)
        /\ \A i \in 1..(Len(a) + Len(b)) :
               (a \o b)[i] = IF i <= Len(a) THEN a[i] ELSE b[i - Len(a)]
    BY ONLY <1>2, <1>3, ConcatProperties
  <1>6. ASSUME NEW j \in 1..(n - 1)
        PROVE  (a \o b)[j] = IF j < k THEN s[j] ELSE s[j + 1]
    <2>1. CASE j < k
      BY <1>1, <1>2, <1>3, <1>5, <2>1
    <2>2. CASE ~ (j < k)
      <3>1. PICK i \in 1..(n - k) : i = j - (k - 1)
        BY <1>1, <2>2
      <3>2. (a \o b)[j] = b[i]
        <4>1. j \in 1..(Len(a) + Len(b)) /\ ~ (j <= Len(a)) /\ j - Len(a) = i
          BY ONLY <1>1, <1>2, <1>3, <2>2, <3>1, j \in 1..(n - 1)
        <4> QED BY ONLY <1>5, <4>1
      <3>3. k + i = j + 1
        BY <3>1, <1>1
      <3> QED BY <1>3, <2>2, <3>2, <3>3
    <2> QED BY <2>1, <2>2
  <1> QED BY <1>1, <1>2, <1>3, <1>4, <1>5, <1>6 DEF n

-----------------------------------------------------------------------------
(* Recursive values *)

\* FlattenSeq is any function that joins one sequence after the other.
LEMMA FlattenIs ==
    ASSUME NEW s, NEW n \in Nat \ {0}, Len(s) = n,
           NEW h, \A i \in 1..n : h[i] = IF i = 1 THEN s[i] ELSE h[i - 1] \o s[i]
    PROVE  FlattenSeq(s) = h[n]
  <1> DEFINE Solves(f) == f = [i \in 1..n |-> IF i = 1 THEN s[i] ELSE f[i - 1] \o s[i]]
             f == CHOOSE g : Solves(g)
  <1>1. FlattenSeq(s) = f[n]
    BY DEF FlattenSeq
  <1>2. Solves(f)
    <2> DEFINE H == [i \in 1..n |-> h[i]]
    <2>1. Solves(H)
      <3>1. \A i \in 1..n : H[i] = IF i = 1 THEN s[i] ELSE H[i - 1] \o s[i]
        <4> TAKE i \in 1..n
        <4>1. i # 1 => i - 1 \in 1..n
          OBVIOUS
        <4> QED BY <4>1
      <3> QED BY <3>1
    <2> HIDE DEF Solves, H
    <2> QED BY <2>1
  <1> HIDE DEF f
  <1>3. \A i \in 1..n : /\ f[i] = (IF i = 1 THEN s[i] ELSE f[i - 1] \o s[i])
                        /\ h[i] = (IF i = 1 THEN s[i] ELSE h[i - 1] \o s[i])
    <2> DEFINE b == [i \in 1..n |-> IF i = 1 THEN s[i] ELSE f[i - 1] \o s[i]]
    <2>1. \A i \in 1..n : b[i] = (IF i = 1 THEN s[i] ELSE f[i - 1] \o s[i])
      OBVIOUS
    <2>2. f = b
      BY <1>2
    <2> HIDE DEF b
    <2> QED BY <2>1, <2>2
  <1> DEFINE T == {i \in 1..n : f[i] # h[i]}
  <1>4. ASSUME T # {} PROVE FALSE
    <2>1. PICK i \in T : \A y \in T : i <= y
      <3>1. T \subseteq Nat
        OBVIOUS
      <3> HIDE DEF T
      <3> QED BY <1>4, <3>1, LeastElement
    <2>2. i \in 1..n /\ f[i] # h[i]
      BY <2>1
    <2>3. i # 1 => i - 1 \in 1..n /\ i - 1 \notin T
      BY <2>1, <2>2
    <2>4. i # 1 => f[i - 1] = h[i - 1]
      BY <2>3
    <2> QED BY <1>3, <2>2, <2>4
  <1>5. f[n] = h[n]
    BY <1>4
  <1> QED BY <1>1, <1>5

\* push_cb is called for one push after the other.
LEMMA PushIs ==
    ASSUME NEW call, NEW n \in Nat, Len(call.pushes) = n, NEW h,
           h[0] = [fill |-> tx.fill, block |-> tx.block, msg |-> Len(sent), written |-> link],
           \A k \in 1..n : h[k] = push_cb(h[k - 1], call.pushes[k])
    PROVE  Push(call) = h[n]
  <1> DEFINE u0 == [fill |-> tx.fill, block |-> tx.block, msg |-> Len(sent), written |-> link]
             Solves(f) == f = [k \in 0..n |-> IF k = 0 THEN u0
                                              ELSE push_cb(f[k - 1], call.pushes[k])]
             f == CHOOSE g : Solves(g)
  <1>1. Push(call) = f[n]
    BY DEF Push
  <1>a. h[0] = u0
    OBVIOUS
  <1> HIDE DEF u0
  <1>2. Solves(f)
    <2> DEFINE H == [k \in 0..n |-> h[k]]
    <2>1. Solves(H)
      <3>1. \A k \in 0..n : H[k] = IF k = 0 THEN u0 ELSE push_cb(H[k - 1], call.pushes[k])
        <4> TAKE k \in 0..n
        <4>1. k # 0 => k - 1 \in 0..n /\ k \in 1..n
          OBVIOUS
        <4> QED BY <1>a, <4>1
      <3> QED BY <3>1
    <2> HIDE DEF Solves, H
    <2> QED BY <2>1
  <1> HIDE DEF f
  <1>3. /\ \A k \in 0..n : f[k] = (IF k = 0 THEN u0 ELSE push_cb(f[k - 1], call.pushes[k]))
        /\ \A k \in 0..n : h[k] = (IF k = 0 THEN u0 ELSE push_cb(h[k - 1], call.pushes[k]))
    <2> DEFINE b == [k \in 0..n |-> IF k = 0 THEN u0 ELSE push_cb(f[k - 1], call.pushes[k])]
    <2>1. \A k \in 0..n : b[k] = IF k = 0 THEN u0 ELSE push_cb(f[k - 1], call.pushes[k])
      OBVIOUS
    <2>2. f = b
      BY <1>2
    <2>3. \A k \in 0..n : h[k] = IF k = 0 THEN u0 ELSE push_cb(h[k - 1], call.pushes[k])
      <3> TAKE k \in 0..n
      <3>1. k # 0 => k \in 1..n
        OBVIOUS
      <3> QED BY <1>a, <3>1
    <2> HIDE DEF b
    <2> QED BY <2>1, <2>2, <2>3
  <1> DEFINE T == {k \in 0..n : f[k] # h[k]}
  <1>4. ASSUME T # {} PROVE FALSE
    <2>1. PICK k \in T : \A y \in T : k <= y
      <3>1. T \subseteq Nat
        OBVIOUS
      <3> HIDE DEF T
      <3> QED BY <1>4, <3>1, LeastElement
    <2>2. k \in 0..n /\ f[k] # h[k]
      BY <2>1
    <2>3. k # 0 => k - 1 \in 0..n /\ k - 1 \notin T
      BY <2>1, <2>2
    <2>4. k # 0 => f[k - 1] = h[k - 1]
      BY <2>3
    <2> QED BY <1>3, <2>2, <2>4
  <1>5. f[n] = h[n]
    BY <1>4
  <1> QED BY <1>1, <1>5

\* The loop of on_event writes what lies between the watermarks.
LEMMA FlushIs ==
    ASSUME NEW R, NEW A \in Seq(R), NEW old \in Nat, NEW w \in Nat, old <= w, w <= Len(A)
    PROVE  Flush(A, old, w) = SubSeq(A, old + 1, w)
  <1> DEFINE M == MaxP
             To(j) == IF old + j * M > w THEN w ELSE old + j * M
             n == IF old < w THEN (w - old + M - 1) \div M ELSE 0
             FlushedFrom(off) == SubSeq(A, off + 1, off + mp_rx_deliver_size(off, w, M))
             s == [j \in 1..n |-> FlushedFrom(old + (j - 1) * M)]
             h == [j \in 1..n |-> SubSeq(A, old + 1, To(j))]
  <1> M \in Nat \ {0} /\ Len(A) \in Nat
    BY MaxPFacts, LenProperties
  <1>1. Flush(A, old, w) = FlattenSeq(s)
    BY DEF Flush
  <1>2. CASE old = w
    <2>1. Len(s) = 0 /\ s = <<>>
      BY <1>2
    <2>2. SubSeq(A, old + 1, w) = <<>>
      BY <1>2, SubSeqEmpty
    <2> QED BY <1>1, <2>1, <2>2 DEF FlattenSeq
  <1>3. CASE old < w
    <2> HIDE DEF M
    <2>1. PICK q \in Nat, t \in 0..(M - 1) : w - old + M - 1 = q * M + t
      <3>1. w - old + M - 1 \in Nat
        BY <1>3
      <3> QED BY <3>1, Division
    <2>2. n = q
      <3>1. (q * M + t) \div M = q
        BY SliceOfPosition
      <3> QED BY <1>3, <2>1, <3>1
    <2>3. q * M \in Nat /\ w <= old + q * M
      BY <2>1
    <2>4. q # 0
      BY <1>3, <2>3
    <2> HIDE DEF n
    <2>5. ASSUME NEW j \in 1..q
          PROVE  (j - 1) * M \in Nat /\ old + (j - 1) * M < w /\ j * M = (j - 1) * M + M
      <3>1. j * M = (j - 1) * M + M /\ (j - 1) * M \in Nat /\ j * M \in Nat
        <4>1. PICK i \in Nat : i = j - 1
          OBVIOUS
        <4>2. (i + 1) * M = i * M + M /\ i * M \in Nat
          OBVIOUS
        <4> QED BY <4>1, <4>2
      <3>2. j * M <= q * M
        <4>1. CASE j = q
          BY <2>3, <4>1
        <4>2. CASE j < q
          <5>1. j * M + M <= q * M
            BY <4>2, MultiplesGrow
          <5> QED BY <2>3, <3>1, <5>1
        <4> QED BY <4>1, <4>2
      <3> QED BY <2>1, <2>3, <3>1, <3>2
    <2>6. ASSUME NEW j \in 1..q
          PROVE  h[j] = IF j = 1 THEN s[j] ELSE h[j - 1] \o s[j]
      <3> DEFINE o == old + (j - 1) * M
      <3>1. o \in Nat /\ o < w /\ old <= o /\ old + j * M = o + M /\ To(j) \in Nat
            /\ To(j) = o + mp_rx_deliver_size(o, w, M) /\ o <= To(j) /\ To(j) <= w
        BY <2>5 DEF mp_rx_deliver_size
      <3>2. s[j] = SubSeq(A, o + 1, To(j)) /\ h[j] = SubSeq(A, old + 1, To(j))
        BY <2>2, <3>1
      <3>3. CASE j = 1
        <4>1. o = old
          BY <3>3
        <4> QED BY <3>2, <3>3, <4>1
      <3>4. CASE j # 1
        <4>1. j - 1 \in 1..q /\ To(j - 1) = o
          BY <3>1, <3>4
        <4>2. h[j - 1] = SubSeq(A, old + 1, o)
          BY <2>2, <4>1
        <4> HIDE DEF o
        <4>3. SubSeq(A, old + 1, o) \o SubSeq(A, o + 1, To(j)) = SubSeq(A, old + 1, To(j))
          <5>1. PICK p \in Nat, t1 \in Nat : p = old + 1 /\ t1 = To(j)
            BY <3>1
          <5>2. p \in 1..(Len(A) + 1) /\ o \in (p - 1)..Len(A) /\ t1 \in o..Len(A)
            BY <3>1, <5>1
          <5>3. SubSeq(A, p, o) \o SubSeq(A, o + 1, t1) = SubSeq(A, p, t1)
            BY <5>2, ConcatAdjacentSubSeq
          <5> QED BY <5>1, <5>3
        <4> QED BY <3>2, <3>4, <4>2, <4>3
      <3> QED BY <3>3, <3>4
    <2>7. Len(s) = q
      BY <2>2
    <2>8. \A i \in 1..q : h[i] = IF i = 1 THEN s[i] ELSE h[i - 1] \o s[i]
      BY <2>6
    <2>9. h[q] = SubSeq(A, old + 1, w)
      <3>1. q \in 1..q /\ To(q) = w
        BY <2>3, <2>4
      <3> QED BY <2>2, <3>1
    <2> HIDE DEF s, h
    <2>10. FlattenSeq(s) = h[q]
      <3>1. q \in Nat \ {0}
        BY <2>4
      <3> QED BY ONLY <3>1, <2>7, <2>8, FlattenIs
    <2> QED BY <1>1, <2>9, <2>10
  <1> QED BY <1>2, <1>3

-----------------------------------------------------------------------------
(* The messages one after the other *)

\* Message m when S are the lengths of the messages
MessageOf(S, m) == BytesOf(m, 0, S[m])

\* The first c messages
Upto(S, c) == FlattenSeq([m \in 1..c |-> MessageOf(S, m)])

\* h joins the first n messages, one after the other.
Joins(S, n, h) ==
    \A i \in 1..n : /\ h[i] = IF i = 1 THEN MessageOf(S, i) ELSE h[i - 1] \o MessageOf(S, i)
                    /\ h[i] \in Seq(BytePairs)

\* Messages are sequences of bytes.
LEMMA MessageIsSeq ==
    ASSUME NEW S \in Seq(Nat), NEW m \in 1..Len(S)
    PROVE  /\ MessageOf(S, m) \in Seq(BytePairs) /\ Len(MessageOf(S, m)) = S[m]
           /\ S[m] \in Nat /\ m \in Nat
           /\ \A k \in 1..S[m] : MessageOf(S, m)[k] = <<m, k - 1>>
  <1>1. S[m] \in Nat /\ m \in Nat
    BY ElementOfSeq, LenProperties
  <1>2. /\ MessageOf(S, m) \in Seq(BytePairs) /\ Len(MessageOf(S, m)) = S[m]
        /\ \A k \in 1..S[m] : MessageOf(S, m)[k] = <<m, 0 + k - 1>>
    <2>1. PICK b, n, from : b = MessageOf(S, m) /\ n = S[m] /\ from = 0
      OBVIOUS
    <2>2. m \in Nat /\ from \in Nat /\ n \in Nat /\ b = BytesOf(m, from, n)
      BY <1>1, <2>1 DEF MessageOf
    <2>3. IsBytes(b, m, from, n)
      BY ONLY <2>2, BytesAre
    <2> QED BY ONLY <2>1, <2>3 DEF IsBytes
  <1>3. \A k \in 1..S[m] : 0 + k - 1 = k - 1
    BY <1>1
  <1> QED BY <1>1, <1>2, <1>3

\* The first messages can be joined.
LEMMA JoinExists ==
    ASSUME NEW S \in Seq(Nat), NEW n \in 0..Len(S)
    PROVE  \E h : Joins(S, n, h)
  <1> DEFINE T == {j \in 0..Len(S) : ~ \E h : Joins(S, j, h)}
  <1>0. Len(S) \in Nat
    BY LenProperties
  <1>1. ASSUME T # {} PROVE FALSE
    <2>1. PICK j \in T : \A y \in T : j <= y
      <3>1. T \subseteq Nat
        BY <1>0
      <3> HIDE DEF T
      <3> QED BY <1>1, <3>1, LeastElement
    <2>2. j \in 0..Len(S) /\ j \in Nat /\ ~ \E h : Joins(S, j, h)
      BY <1>0, <2>1
    <2>3. j # 0
      <3>1. Joins(S, 0, 0)
        BY DEF Joins
      <3> QED BY <2>2, <3>1
    <2>4. j - 1 \in 0..Len(S) /\ j - 1 \notin T /\ j \in 1..Len(S)
      BY <1>0, <2>1, <2>2, <2>3
    <2>5. PICK h : Joins(S, j - 1, h)
      BY <2>4
    <2>6. MessageOf(S, j) \in Seq(BytePairs)
      BY <2>4, MessageIsSeq
    <2> DEFINE last == IF j = 1 THEN MessageOf(S, j) ELSE h[j - 1] \o MessageOf(S, j)
               g == [i \in 1..j |-> IF i < j THEN h[i] ELSE last]
    <2>7. last \in Seq(BytePairs)
      <3>1. CASE j = 1
        BY <2>6, <3>1
      <3>2. CASE j # 1
        <4>1. j - 1 \in 1..(j - 1)
          BY <2>2, <2>3, <3>2
        <4>2. h[j - 1] \in Seq(BytePairs)
          BY <2>5, <4>1 DEF Joins
        <4>3. h[j - 1] \o MessageOf(S, j) \in Seq(BytePairs)
          BY <2>6, <4>2, ConcatProperties
        <4> QED BY <3>2, <4>3
      <3> QED BY <3>1, <3>2
    <2>8. ASSUME NEW i \in 1..j
          PROVE  /\ g[i] = IF i = 1 THEN MessageOf(S, i) ELSE g[i - 1] \o MessageOf(S, i)
                 /\ g[i] \in Seq(BytePairs)
      <3>1. CASE i < j
        <4>1. i \in 1..(j - 1) /\ g[i] = h[i]
          BY <2>2, <3>1
        <4>2. i # 1 => i - 1 \in 1..j /\ g[i - 1] = h[i - 1]
          BY <2>2, <3>1
        <4> HIDE DEF g
        <4> QED BY <2>5, <4>1, <4>2 DEF Joins
      <3>2. CASE i = j
        <4>1. g[j] = last
          BY <3>2
        <4>2. i # 1 => j - 1 \in 1..j /\ g[j - 1] = h[j - 1]
          BY <2>2, <3>2
        <4> HIDE DEF g
        <4> QED BY <2>7, <3>2, <4>1, <4>2
      <3> QED BY <2>2, <3>1, <3>2
    <2> HIDE DEF g
    <2>9. Joins(S, j, g)
      BY <2>8 DEF Joins
    <2> QED BY <2>2, <2>9
  <1> QED BY <1>1

\* Upto is such a join.
LEMMA UptoIsJoin ==
    ASSUME NEW S \in Seq(Nat), NEW n \in 1..Len(S), NEW h, Joins(S, n, h)
    PROVE  Upto(S, n) = h[n]
  <1> DEFINE s == [m \in 1..n |-> MessageOf(S, m)]
  <1>1. n \in Nat \ {0} /\ Len(s) = n
    BY LenProperties
  <1>2. \A i \in 1..n : h[i] = IF i = 1 THEN s[i] ELSE h[i - 1] \o s[i]
    BY DEF Joins
  <1>3. Upto(S, n) = FlattenSeq(s)
    BY DEF Upto
  <1> HIDE DEF s
  <1> QED BY <1>1, <1>2, <1>3, FlattenIs

\* One more message
LEMMA UptoStep ==
    ASSUME NEW S \in Seq(Nat), NEW c \in 0..Len(S)
    PROVE  /\ Upto(S, c) \in Seq(BytePairs)
           /\ c = 0 => Upto(S, c) = <<>>
           /\ c < Len(S) => Upto(S, c + 1) = Upto(S, c) \o MessageOf(S, c + 1)
  <1>0. Len(S) \in Nat /\ c \in Nat
    BY LenProperties
  <1>1. c = 0 => Upto(S, c) = <<>>
    BY DEF Upto, FlattenSeq
  <1>2. Upto(S, c) \in Seq(BytePairs)
    <2>1. CASE c = 0
      <3>1. <<>> \in Seq(BytePairs)
        BY EmptySeq
      <3> QED BY <1>1, <2>1, <3>1
    <2>2. CASE c # 0
      <3>1. PICK h : Joins(S, c, h)
        BY JoinExists
      <3>2. c \in 1..Len(S) /\ c \in 1..c
        BY <1>0, <2>2
      <3>3. Upto(S, c) = h[c] /\ h[c] \in Seq(BytePairs)
        BY <3>1, <3>2, UptoIsJoin DEF Joins
      <3> QED BY <3>3
    <2> QED BY <2>1, <2>2
  <1>3. ASSUME c < Len(S) PROVE Upto(S, c + 1) = Upto(S, c) \o MessageOf(S, c + 1)
    <2>1. PICK d \in 1..Len(S) : d = c + 1
      BY <1>0, <1>3
    <2>2. PICK h : Joins(S, d, h)
      BY <1>0, <2>1, JoinExists
    <2>3. Upto(S, d) = h[d]
      BY <2>2, UptoIsJoin
    <2>4. CASE c = 0
      <3>1. h[d] = MessageOf(S, d) /\ MessageOf(S, d) \in Seq(BytePairs)
        BY <2>1, <2>2, <2>4 DEF Joins
      <3>2. <<>> \o MessageOf(S, d) = MessageOf(S, d)
        BY <3>1, ConcatEmptySeq
      <3> QED BY <1>1, <2>1, <2>3, <2>4, <3>1, <3>2
    <2>5. CASE c # 0
      <3>1. c \in 1..Len(S) /\ d \in 1..d /\ d # 1 /\ d - 1 = c
        BY <1>0, <2>1, <2>5
      <3>2. Joins(S, c, h)
        <4>1. \A i \in 1..c : i \in 1..d
          BY <1>0, <2>1
        <4> QED BY <2>2, <4>1 DEF Joins
      <3>3. Upto(S, c) = h[c]
        BY <3>1, <3>2, UptoIsJoin
      <3>4. h[d] = h[d - 1] \o MessageOf(S, d)
        BY <2>2, <3>1 DEF Joins
      <3> QED BY <2>1, <2>3, <3>1, <3>3, <3>4
    <2> QED BY <2>4, <2>5
  <1> QED BY <1>1, <1>2, <1>3

\* The first messages and one more are the first of all messages.
LEMMA UptoPrefix ==
    ASSUME NEW S \in Seq(Nat), NEW c \in 0..Len(S)
    PROVE  \E t \in Seq(BytePairs) : Upto(S, Len(S)) = Upto(S, c) \o t
  <1>0. PICK n \in Nat : n = Len(S)
    BY LenProperties
  <1> DEFINE OK(b) == \E t \in Seq(BytePairs) : Upto(S, n) = Upto(S, b) \o t
             T == {d \in 0..n : ~ OK(n - d)}
  <1>1. OK(n)
    <2>1. Upto(S, n) \in Seq(BytePairs)
      BY <1>0, UptoStep
    <2>2. Upto(S, n) = Upto(S, n) \o <<>> /\ <<>> \in Seq(BytePairs)
      BY <2>1, ConcatEmptySeq, EmptySeq
    <2> QED BY <2>2
  <1>2. ASSUME NEW b \in 0..n, b < n, OK(b + 1) PROVE OK(b)
    <2>1. PICK t \in Seq(BytePairs) : Upto(S, n) = Upto(S, b + 1) \o t
      BY <1>2
    <2>2. Upto(S, b) \in Seq(BytePairs) /\ Upto(S, b + 1) = Upto(S, b) \o MessageOf(S, b + 1)
      BY <1>0, <1>2, UptoStep
    <2>3. MessageOf(S, b + 1) \in Seq(BytePairs)
      <3>1. b + 1 \in 1..Len(S)
        BY <1>0, <1>2
      <3> QED BY <3>1, MessageIsSeq
    <2>4. Upto(S, n) = (Upto(S, b) \o MessageOf(S, b + 1)) \o t
      BY <2>1, <2>2
    <2>5. (Upto(S, b) \o MessageOf(S, b + 1)) \o t = Upto(S, b) \o (MessageOf(S, b + 1) \o t)
      <3>1. Associates(Upto(S, b), MessageOf(S, b + 1), t)
        BY ONLY <2>2, <2>3, BytesAssociate, t \in Seq(BytePairs)
      <3> QED BY ONLY <3>1 DEF Associates
    <2>6. MessageOf(S, b + 1) \o t \in Seq(BytePairs)
      BY ONLY <2>3, ConcatProperties, t \in Seq(BytePairs)
    <2> QED BY <2>4, <2>5, <2>6
  <1> HIDE DEF OK
  <1>3. ASSUME T # {} PROVE FALSE
    <2>1. PICK d \in T : \A y \in T : d <= y
      <3>1. T \subseteq Nat
        OBVIOUS
      <3> HIDE DEF T
      <3> QED BY <1>3, <3>1, LeastElement
    <2>2. d \in 0..n /\ d \in Nat /\ ~ OK(n - d)
      BY <2>1
    <2>3. d # 0
      BY <1>1, <2>2
    <2>4. OK(n - (d - 1))
      <3>1. d - 1 \in 0..n /\ d - 1 \notin T
        BY <2>1, <2>2, <2>3
      <3> QED BY <3>1
    <2>5. PICK b \in 0..n : b = n - d /\ b < n /\ n - (d - 1) = b + 1
      BY <2>2, <2>3
    <2> QED BY <1>2, <2>2, <2>4, <2>5
  <1>4. n - c \in 0..n /\ n - (n - c) = c
    BY <1>0
  <1>5. OK(c)
    BY <1>3, <1>4
  <1> QED BY <1>0, <1>5 DEF OK

\* What comes later does not change the first messages.
LEMMA UptoSame ==
    ASSUME NEW S \in Seq(Nat), NEW S1 \in Seq(Nat), NEW c \in 0..Len(S), Len(S) <= Len(S1),
           \A m \in 1..Len(S) : S1[m] = S[m]
    PROVE  Upto(S1, c) = Upto(S, c)
  <1>1. \A m \in 1..c : m \in 1..Len(S)
    BY LenProperties
  <1>2. [m \in 1..c |-> MessageOf(S1, m)] = [m \in 1..c |-> MessageOf(S, m)]
    BY <1>1 DEF MessageOf
  <1> QED BY <1>2 DEF Upto

\* The bytes of all messages are those up to the last.
LEMMA BytesIsUpto ==
    ASSUME sent \in Seq(Nat)
    PROVE  Bytes = Upto(sent, Len(sent))
  <1>1. DOMAIN sent = 1..Len(sent)
    BY LenProperties
  <1>2. ASSUME NEW m \in 1..Len(sent) PROVE Message(m) = MessageOf(sent, m)
    <2>1. sent[m] \in Nat
      BY MessageIsSeq
    <2>2. \A k \in 1..sent[m] : 0 + k - 1 = k - 1
      BY <2>1
    <2> QED BY <2>2 DEF Message, MessageOf, BytesOf
  <1>3. [m \in DOMAIN sent |-> Message(m)] = [m \in 1..Len(sent) |-> MessageOf(sent, m)]
    BY <1>1, <1>2
  <1> QED BY <1>3 DEF Bytes, Upto

-----------------------------------------------------------------------------
(* Slices of a message that fits *)

\* What Fits says, in slices
LEMMA FitsFacts ==
    ASSUME NEW length \in Nat, Fits(length), 0 < length
    PROVE  /\ MaxP <= 4095
           /\ \E q \in Nat, r \in 0..(MaxP - 1) :
                 /\ length = q * MaxP + r /\ q < U8
                 /\ q * MaxP < U16 /\ (r # 0 => (q + 1) * MaxP < U16)
  <1>1. PICK q \in Nat, r \in 0..(MaxP - 1) : length = q * MaxP + r
    BY MaxPFacts, Division
  <1>2. MaxP \in Nat \ {0} /\ r \in Nat /\ r < MaxP /\ U16 \in Nat
    BY MaxPFacts, Widths
  <1>3. length \div MaxP = q /\ length % MaxP = r
    <2>1. (q * MaxP + r) \div MaxP = q
      BY <1>2, SliceOfPosition
    <2>2. (q * MaxP + r) % MaxP = r
      BY <1>2, RemainderOfPosition
    <2> QED BY <1>1, <2>1, <2>2
  <1> DEFINE p == [full |-> q, rest |-> r, style |-> "EmptyEop"]
  <1>4. SafePackage(p)
    BY <1>3 DEF Fits
  <1>5. p.full = q /\ p.rest = r /\ p.style = "EmptyEop"
    OBVIOUS
  <1> HIDE DEF p
  <1>6. LastSlice(p) = q /\ DataCount(p) = (IF r = 0 THEN q ELSE q + 1) /\ Length(p) = length
    BY <1>1, <1>5 DEF LastSlice, DataCount, Length
  <1>7. q < U8 /\ MaxP <= 4095 /\ (IF r = 0 THEN q ELSE q + 1) * MaxP < U16
    BY <1>4, <1>6 DEF SafePackage
  <1>8. q * MaxP < U16
    <2>1. q * MaxP \in Nat /\ (q + 1) * MaxP = q * MaxP + MaxP
      BY <1>2
    <2> QED BY <1>2, <1>7, <2>1
  <1> QED BY <1>1, <1>4, <1>7, <1>8

\* A position is in one slice only.
LEMMA SameSlice ==
    ASSUME NEW i \in Nat, NEW j \in Nat, NEW b \in 0..(MaxP - 1), NEW d \in 0..(MaxP - 1),
           i * MaxP + b = j * MaxP + d
    PROVE  i = j /\ b = d
  <1>1. MaxP \in Nat \ {0} /\ b \in Nat /\ b < MaxP /\ d \in Nat /\ d < MaxP
    BY MaxPFacts
  <1>2. (i * MaxP + b) \div MaxP = i /\ (j * MaxP + d) \div MaxP = j
    BY <1>1, SliceOfPosition
  <1>3. i = j
    BY <1>2
  <1>4. i * MaxP \in Nat
    BY <1>1
  <1> QED BY <1>1, <1>3, <1>4

\* Whole slices before a slice
LEMMA SliceOrder ==
    ASSUME NEW i \in Nat, NEW j \in Nat
    PROVE  /\ i * MaxP \in Nat /\ (i + 1) * MaxP = i * MaxP + MaxP
           /\ i < j => i * MaxP + MaxP <= j * MaxP
           /\ i <= j => i * MaxP <= j * MaxP
  <1>1. MaxP \in Nat \ {0}
    BY MaxPFacts
  <1>2. i * MaxP \in Nat /\ (i + 1) * MaxP = i * MaxP + MaxP /\ j * MaxP \in Nat
    BY <1>1
  <1>3. i < j => i * MaxP + MaxP <= j * MaxP
    BY <1>1, MultiplesGrow
  <1> QED BY <1>1, <1>2, <1>3

\* The limits of a slice inside a message that fits
LEMMA SliceInMessage ==
    ASSUME NEW length \in Nat, Fits(length), NEW i \in Nat, NEW z \in 0..MaxP,
           i * MaxP + z <= length
    PROVE  /\ i \in SliceIds /\ i * MaxP \in Nat /\ i * MaxP < U16 /\ i * MaxP + z < U16
           /\ z = MaxP => i + 1 < U8
           /\ 0 < z => (i + 1) * MaxP < U16
           /\ z \in PayloadSizes
  <1>0. CASE length = 0
    <2>1. MaxP \in Nat \ {0} /\ 0 < U8 /\ 0 < U16 /\ z \in Nat
      BY MaxPFacts, Widths
    <2>2. i * MaxP \in Nat
      BY <2>1
    <2>3. i * MaxP = 0 /\ z = 0
      BY <1>0, <2>1, <2>2
    <2>4. i = 0
      <3>1. ASSUME i # 0 PROVE FALSE
        <4>1. i \in Nat \ {0} /\ MaxP \in Nat \ {0}
          BY <2>1, <3>1
        <4>2. i * MaxP # 0
          BY ONLY <4>1
        <4> QED BY <2>3, <4>2
      <3> QED BY <3>1
    <2>5. z \in PayloadSizes
      BY <2>3 DEF PayloadSizes
    <2>6. i \in SliceIds
      BY <2>1, <2>4, Widths DEF SliceIds
    <2>7. z # MaxP /\ ~ (0 < z)
      BY <2>1, <2>3
    <2>8. i * MaxP < U16 /\ i * MaxP + z < U16
      BY <2>1, <2>3
    <2> QED BY <2>2, <2>5, <2>6, <2>7, <2>8
  <1> SUFFICES ASSUME 0 < length
               PROVE  /\ i \in SliceIds /\ i * MaxP \in Nat /\ i * MaxP < U16
                      /\ i * MaxP + z < U16
                      /\ z = MaxP => i + 1 < U8
                      /\ 0 < z => (i + 1) * MaxP < U16
                      /\ z \in PayloadSizes
    BY <1>0
  <1>1. PICK q \in Nat, r \in 0..(MaxP - 1) :
                 /\ length = q * MaxP + r /\ q < U8
                 /\ q * MaxP < U16 /\ (r # 0 => (q + 1) * MaxP < U16)
    BY FitsFacts
  <1>2. MaxP \in Nat \ {0} /\ MaxP <= 4095 /\ U8 \in Nat /\ U16 \in Nat
    BY MaxPFacts, Widths, FitsFacts
  <1>3. i <= q
    <2>1. ASSUME q < i PROVE FALSE
      <3>1. q * MaxP + MaxP <= i * MaxP /\ i * MaxP \in Nat /\ q * MaxP \in Nat
        BY <2>1, SliceOrder
      <3> QED BY <1>1, <1>2, <3>1
    <2> QED BY <2>1
  <1>4. i * MaxP \in Nat /\ q * MaxP \in Nat /\ i * MaxP <= q * MaxP
        /\ (i + 1) * MaxP = i * MaxP + MaxP /\ (q + 1) * MaxP = q * MaxP + MaxP
        /\ (i < q => i * MaxP + MaxP <= q * MaxP)
    BY <1>3, SliceOrder
  <1>5. z = MaxP => i < q
    <2>1. ASSUME z = MaxP, i = q PROVE FALSE
      BY <1>1, <1>2, <1>4, <2>1
    <2> QED BY <1>3, <2>1
  <1>6. 0 < z => (i + 1) * MaxP < U16
    <2>1. CASE i < q
      BY <1>1, <1>2, <1>4, <2>1
    <2>2. CASE i = q
      BY <1>1, <1>2, <1>4, <2>2
    <2> QED BY <1>3, <2>1, <2>2
  <1>7. i * MaxP + z < U16
    <2>1. CASE z = 0
      BY <1>1, <1>2, <1>4, <2>1
    <2>2. CASE z > 0
      BY <1>2, <1>4, <1>6, <2>2
    <2> QED BY <2>1, <2>2
  <1>8. z \in PayloadSizes
    BY <1>2, SizeFits
  <1> QED BY <1>1, <1>2, <1>3, <1>4, <1>5, <1>6, <1>7, <1>8 DEF SliceIds

-----------------------------------------------------------------------------
(* Frames *)

\* What a byte of a buffer can be, Fresh or a byte of a message
Pairs == (0..MaxMessages) \X Nat

Frames ==
    [header : Byte \X Byte \X Byte \X Byte, payload : [1..MaxP -> Pairs], msg : Nat]

\* The first n bytes of block are those of message m from position from on.
Holds(block, m, from, n) == \A b \in 1..n : block[b] = <<m, from + b - 1>>

Slice(f) == mp_header_unpack(f.header).slice_serial
Eop(f) == mp_header_unpack(f.header).eop
Size(f) == mp_header_unpack(f.header).slice_payload_size

-----------------------------------------------------------------------------
(* What push_cb makes of the pushes of a call *)

\* The calls of push_cb can be put in a row.
LEMMA PushRuns ==
    ASSUME NEW call, NEW n \in Nat, Len(call.pushes) = n
    PROVE  \E u : /\ u[0] = [fill |-> tx.fill, block |-> tx.block, msg |-> Len(sent),
                             written |-> link]
                  /\ \A k \in 1..n : u[k] = push_cb(u[k - 1], call.pushes[k])
                  /\ Push(call) = u[n]
  <1> DEFINE u0 == [fill |-> tx.fill, block |-> tx.block, msg |-> Len(sent), written |-> link]
             Runs(j, u) == u[0] = u0 /\ \A k \in 1..j : u[k] = push_cb(u[k - 1], call.pushes[k])
             T == {j \in Nat : ~ \E u : Runs(j, u)}
  <1>a. u0 = [fill |-> tx.fill, block |-> tx.block, msg |-> Len(sent), written |-> link]
    OBVIOUS
  <1> HIDE DEF u0
  <1>1. ASSUME T # {} PROVE FALSE
    <2>1. PICK j \in T : \A y \in T : j <= y
      <3>1. T \subseteq Nat
        OBVIOUS
      <3> HIDE DEF T
      <3> QED BY <1>1, <3>1, LeastElement
    <2>2. j \in Nat /\ ~ \E u : Runs(j, u)
      BY <2>1
    <2>3. CASE j = 0
      <3> DEFINE u == [k \in 0..0 |-> u0]
      <3>1. u[0] = u0
        OBVIOUS
      <3> HIDE DEF u
      <3>2. Runs(0, u)
        BY <3>1
      <3> QED BY <2>2, <2>3, <3>2
    <2>4. CASE j # 0
      <3>1. \E v : Runs(j - 1, v)
        <4> HIDE DEF Runs
        <4>1. j - 1 \in Nat /\ j - 1 \notin T
          BY <2>1, <2>2, <2>4
        <4> QED BY <4>1
      <3>2. PICK v : Runs(j - 1, v)
        BY <3>1
      <3> DEFINE u == [k \in 0..j |-> IF k < j THEN v[k]
                                      ELSE push_cb(v[j - 1], call.pushes[j])]
      <3>3. /\ \A k \in 0..(j - 1) : u[k] = v[k]
            /\ u[j] = push_cb(v[j - 1], call.pushes[j])
        BY <2>2, <2>4
      <3> HIDE DEF u
      <3>4. \A k \in 1..j : u[k] = push_cb(u[k - 1], call.pushes[k])
        <4> TAKE k \in 1..j
        <4>1. k - 1 \in 0..(j - 1) /\ u[k - 1] = v[k - 1]
          BY <2>2, <2>4, <3>3
        <4>2. CASE k < j
          BY <2>2, <3>2, <3>3, <4>1, <4>2
        <4>3. CASE k = j
          BY <3>3, <4>1, <4>3
        <4> QED BY <2>2, <4>2, <4>3
      <3>5. u[0] = u0
        BY <2>2, <2>4, <3>2, <3>3
      <3>6. Runs(j, u)
        BY <3>4, <3>5
      <3> QED BY <2>2, <3>6
    <2> QED BY <2>3, <2>4
  <1>2. PICK u : Runs(n, u)
    BY <1>1
  <1>3. Push(call) = u[n]
    BY <1>2, <1>a, PushIs
  <1> QED BY <1>2, <1>3, <1>a

\* Frame f is whole slice i of message m.
Framed(f, m, i) ==
    /\ f \in Frames /\ f.msg = m /\ Slice(f) = i /\ Eop(f) = 0 /\ Size(f) = MaxP
    /\ Holds(f.payload, m, i * MaxP, MaxP)

\* The fields of the user data
IsUser(u, fill, block, m, W) == u = [fill |-> fill, block |-> block, msg |-> m, written |-> W]

\* The user data when, after the frames L, slices n .. n + k - 1 of message m
\* have been written and a bytes of the next are in the block
PushedTo(u, L, m, n, k, a) ==
    /\ IsUser(u, a, u.block, m, u.written)
    /\ u.block \in [1..MaxP -> Pairs]
    /\ Holds(u.block, m, (n + k) * MaxP, a)
    /\ u.written \in Seq(Frames) /\ Len(u.written) = Len(L) + k
    /\ \A j \in 1..Len(L) : u.written[j] = L[j]
    /\ \A j \in 1..k : Framed(u.written[Len(L) + j], m, n + j - 1)

\* Bytes of a message that are put in the block behind a bytes of the same slice
LEMMA BlockFilled ==
    ASSUME NEW m \in 0..MaxMessages, NEW from \in Nat, NEW a \in 0..MaxP, NEW d \in Nat,
           NEW x, x = a + d, x <= MaxP, NEW o, o = from + a,
           NEW block \in [1..MaxP -> Pairs], Holds(block, m, from, a),
           NEW D, D = BytesOf(m, o, d), NEW B, B = Overwrite(block, a, D)
    PROVE  B \in [1..MaxP -> Pairs] /\ Holds(B, m, from, x)
  <1>0. MaxP \in Nat /\ a \in Nat /\ m \in Nat /\ from + a \in Nat
    BY MaxPFacts, ToolAssumption
  <1>1. D \in Seq(BytePairs) /\ Len(D) = d /\ \A k \in 1..d : D[k] = <<m, from + a + k - 1>>
    <2>1. IsBytes(D, m, o, d)
      BY <1>0, BytesAre
    <2> QED BY <2>1 DEF IsBytes
  <1>2. DOMAIN D = 1..d /\ DOMAIN block = 1..MaxP
    BY <1>1, LenProperties
  <1>3. DOMAIN B = 1..MaxP
        /\ \A b \in 1..MaxP : B[b] = IF b - a \in 1..d THEN D[b - a] ELSE block[b]
    BY <1>2 DEF Overwrite
  <1>4. B = [b \in 1..MaxP |-> B[b]]
    BY <1>2 DEF Overwrite
  <1>5. ASSUME NEW b \in 1..MaxP
        PROVE  B[b] \in Pairs /\ (b <= a + d => B[b] = <<m, from + b - 1>>)
    <2>1. CASE b - a \in 1..d
      <3>1. PICK k \in 1..d : k = b - a
        BY <2>1
      <3>2. B[b] = <<m, from + a + k - 1>>
        BY <1>1, <1>3, <2>1, <3>1
      <3>3. from + a + k - 1 = from + b - 1 /\ from + b - 1 \in Nat
        BY <1>0, <3>1
      <3>4. PICK y \in Nat : y = from + b - 1
        BY <3>3
      <3>5. <<m, y>> \in Pairs
        BY DEF Pairs
      <3>6. B[b] = <<m, y>>
        BY <3>2, <3>3, <3>4
      <3> QED BY <3>4, <3>5, <3>6
    <2>2. CASE b - a \notin 1..d
      <3>1. B[b] = block[b] /\ block[b] \in Pairs
        BY <1>3, <2>2
      <3>2. b <= a + d => b \in 1..a
        BY <1>0, <2>2
      <3> QED BY <3>1, <3>2 DEF Holds
    <2> QED BY <2>1, <2>2
  <1>6. B \in [1..MaxP -> Pairs]
    BY <1>4, <1>5
  <1>7. \A b \in 1..x : b \in 1..MaxP /\ b <= a + d
    BY <1>0
  <1>8. Holds(B, m, from, x)
    BY <1>5, <1>7 DEF Holds
  <1> QED BY <1>6, <1>8
\* The user data with other values
WithData(u, b, x) == [u EXCEPT !.block = b, !.fill = x]
WithFrame(u, b, W) == [u EXCEPT !.block = b, !.fill = 0, !.written = W]

\* The values of those records
LEMMA UserData ==
    ASSUME NEW u, NEW a, NEW block, NEW m, NEW W, IsUser(u, a, block, m, W),
           NEW b, NEW x, NEW y
    PROVE  /\ u.fill = a /\ u.block = block /\ u.msg = m /\ u.written = W
           /\ IsUser(WithData(u, b, x), x, b, m, W)
           /\ IsUser(WithFrame(u, b, y), 0, b, m, y)
  <1> DEFINE u1 == [fill |-> a, block |-> b, msg |-> m, written |-> W]
             u2 == [fill |-> x, block |-> b, msg |-> m, written |-> W]
             u3 == [fill |-> 0, block |-> b, msg |-> m, written |-> W]
  <1> USE DEF IsUser
  <1>1. [u EXCEPT !.block = b] = u1
    OBVIOUS
  <1>2. [u1 EXCEPT !.fill = x] = u2 /\ [u1 EXCEPT !.fill = 0] = u3
    OBVIOUS
  <1>3. [u3 EXCEPT !.written = y] = [fill |-> 0, block |-> b, msg |-> m, written |-> y]
    OBVIOUS
  <1>4. u.fill = a /\ u.block = block /\ u.msg = m /\ u.written = W
    OBVIOUS
  <1> HIDE DEF u1, u2, u3
  <1>5. [[u EXCEPT !.block = b] EXCEPT !.fill = x] = u2
    BY <1>1, <1>2
  <1>6. [[[u EXCEPT !.block = b] EXCEPT !.fill = 0] EXCEPT !.written = y] =
            [fill |-> 0, block |-> b, msg |-> m, written |-> y]
    BY <1>1, <1>2, <1>3
  <1>7. IsUser(WithData(u, b, x), x, b, m, W)
    BY <1>5 DEF u2, WithData
  <1>8. IsUser(WithFrame(u, b, y), 0, b, m, y)
    BY <1>6 DEF WithFrame
  <1> QED BY <1>4, <1>7, <1>8

\* A push without a header fills the block further.
LEMMA PushCbData ==
    ASSUME NEW u, NEW push, NEW a, NEW block, NEW m, NEW W, IsUser(u, a, block, m, W),
           push.header = NoHeader, NEW B, B = Overwrite(block, a, push.data),
           NEW x, x = a + Len(push.data)
    PROVE  IsUser(push_cb(u, push), x, B, m, W)
  <1>1. u.fill = a /\ u.block = block /\ u.msg = m /\ u.written = W
    BY UserData
  <1>2. push_cb(u, push) = WithData(u, B, x)
    BY <1>1 DEF push_cb, WithData
  <1>3. IsUser(WithData(u, B, x), x, B, m, W)
    BY UserData
  <1> QED BY <1>2, <1>3

\* A push with a header writes the block as a frame.
LEMMA PushCbFrame ==
    ASSUME NEW u, NEW push, NEW a, NEW block, NEW m, NEW W, IsUser(u, a, block, m, W),
           push.header # NoHeader, NEW B, B = Overwrite(block, a, push.data),
           NEW f, f = [header |-> mp_header_pack(push.header), payload |-> B, msg |-> m],
           NEW y, y = Append(W, f)
    PROVE  IsUser(push_cb(u, push), 0, B, m, y)
  <1>1. u.fill = a /\ u.block = block /\ u.msg = m /\ u.written = W
    BY UserData
  <1>2. push_cb(u, push) = WithFrame(u, B, y)
    BY <1>1 DEF push_cb, WithFrame
  <1> HIDE DEF WithFrame
  <1>3. IsUser(WithFrame(u, B, y), 0, B, m, y)
    BY UserData
  <1> QED BY <1>2, <1>3

\* A push that ends no slice
LEMMA PushPart ==
    ASSUME NEW u, NEW L \in Seq(Frames), NEW m \in 0..MaxMessages, NEW n \in Nat,
           NEW k \in Nat, NEW a \in 0..MaxP, PushedTo(u, L, m, n, k, a),
           NEW d \in Nat, NEW x, x = a + d, x <= MaxP,
           NEW push, push.header = NoHeader,
           NEW o, o = (n + k) * MaxP + a, push.data = BytesOf(m, o, d)
    PROVE  PushedTo(push_cb(u, push), L, m, n, k, x)
  <1>0. PICK from \in Nat : from = (n + k) * MaxP /\ o = from + a
    BY MaxPFacts
  <1>1. PICK block \in [1..MaxP -> Pairs], W \in Seq(Frames) :
            /\ IsUser(u, a, block, m, W)
            /\ Holds(block, m, from, a)
            /\ Len(W) = Len(L) + k
            /\ \A j \in 1..Len(L) : W[j] = L[j]
            /\ \A j \in 1..k : Framed(W[Len(L) + j], m, n + j - 1)
    BY <1>0 DEF PushedTo
  <1>2. PICK D : D = push.data
    OBVIOUS
  <1>3. PICK B : B = Overwrite(block, a, D)
    OBVIOUS
  <1>4. D = BytesOf(m, o, d)
    BY <1>2
  <1>5. B \in [1..MaxP -> Pairs] /\ Holds(B, m, from, x)
    BY <1>0, <1>1, <1>3, <1>4, BlockFilled
  <1>6. Len(D) = d
    <2>1. m \in Nat /\ o \in Nat
      <3>1. MaxP \in Nat \ {0} /\ MaxMessages \in Nat
        BY MaxPFacts, ToolAssumption
      <3>2. m \in 0..MaxMessages /\ a \in 0..MaxP
        OBVIOUS
      <3> QED BY ONLY <1>0, <3>1, <3>2
    <2>2. IsBytes(D, m, o, d)
      BY <1>4, <2>1, BytesAre
    <2> QED BY ONLY <2>2 DEF IsBytes
  <1> DEFINE v == push_cb(u, push)
  <1>7. IsUser(v, x, B, m, W)
    BY <1>1, <1>2, <1>3, <1>6, PushCbData
  <1> HIDE DEF v
  <1>8. v.block = B /\ v.written = W /\ IsUser(v, x, v.block, m, v.written)
    <2>1. v.block = B /\ v.written = W
      BY <1>7, UserData
    <2> QED BY <1>7, <2>1
  <1>9. PushedTo(v, L, m, n, k, x)
    BY <1>0, <1>1, <1>5, <1>8 DEF PushedTo
  <1> QED BY <1>9 DEF v

\* A push that ends slice n + k
LEMMA PushWhole ==
    ASSUME NEW u, NEW L \in Seq(Frames), NEW m \in 0..MaxMessages, NEW n \in Nat,
           NEW k \in Nat, NEW a \in 0..MaxP, PushedTo(u, L, m, n, k, a),
           NEW push, push.header \in Headers, push.header # NoHeader,
           push.header.slice_serial = n + k, push.header.eop = 0,
           push.header.slice_payload_size = MaxP,
           NEW d, d = MaxP - a, NEW o, o = (n + k) * MaxP + a, push.data = BytesOf(m, o, d),
           NEW k1, k1 = k + 1
    PROVE  PushedTo(push_cb(u, push), L, m, n, k1, 0)
  <1>0. PICK from \in Nat : from = (n + k) * MaxP /\ o = from + a
    BY MaxPFacts
  <1>a. Len(L) \in Nat /\ m \in Nat /\ d \in Nat /\ MaxP \in Nat /\ MaxP = a + d /\ MaxP <= MaxP
    <2>1. MaxP \in Nat /\ MaxMessages \in Nat
      BY MaxPFacts, ToolAssumption
    <2>2. d \in Nat /\ MaxP = a + d
      BY ONLY <2>1, a \in 0..MaxP, d = MaxP - a
    <2>3. m \in Nat
      BY ONLY <2>1, m \in 0..MaxMessages
    <2>4. Len(L) \in Nat
      BY LenProperties
    <2> QED BY ONLY <2>1, <2>2, <2>3, <2>4
  <1>1. PICK block \in [1..MaxP -> Pairs], W \in Seq(Frames) :
            /\ IsUser(u, a, block, m, W)
            /\ Holds(block, m, from, a)
            /\ Len(W) = Len(L) + k
            /\ \A j \in 1..Len(L) : W[j] = L[j]
            /\ \A j \in 1..k : Framed(W[Len(L) + j], m, n + j - 1)
    BY <1>0 DEF PushedTo
  <1>2. PICK D : D = push.data
    OBVIOUS
  <1>3. PICK B : B = Overwrite(block, a, D)
    OBVIOUS
  <1>4. D = BytesOf(m, o, d)
    BY <1>2
  <1>5. B \in [1..MaxP -> Pairs] /\ Holds(B, m, from, MaxP)
    <2>1. /\ m \in 0..MaxMessages /\ from \in Nat /\ a \in 0..MaxP /\ d \in Nat
          /\ MaxP = a + d /\ MaxP <= MaxP /\ o = from + a
          /\ block \in [1..MaxP -> Pairs] /\ Holds(block, m, from, a)
          /\ D = BytesOf(m, o, d) /\ B = Overwrite(block, a, D)
      BY <1>0, <1>a, <1>1, <1>3, <1>4
    <2> QED BY ONLY <2>1, BlockFilled
  <1>6. PICK f : f = [header |-> mp_header_pack(push.header), payload |-> B, msg |-> m]
    OBVIOUS
  <1>7. /\ mp_header_unpack(mp_header_pack(push.header)) = push.header
        /\ mp_header_pack(push.header) \in Byte \X Byte \X Byte \X Byte
    BY HeaderRoundTrip
  <1>8. /\ f \in Frames /\ f.msg = m /\ f.payload = B
        /\ mp_header_unpack(f.header) = push.header
    BY <1>a, <1>5, <1>6, <1>7 DEF Frames
  <1>9. Framed(f, m, n + k)
    BY <1>0, <1>5, <1>8 DEF Framed, Slice, Eop, Size
  <1>10. PICK y : y = Append(W, f)
    OBVIOUS
  <1> DEFINE v == push_cb(u, push)
  <1>11. IsUser(v, 0, B, m, y)
    BY <1>1, <1>2, <1>3, <1>6, <1>10, PushCbFrame
  <1> HIDE DEF v
  <1>12. v.block = B /\ v.written = y /\ IsUser(v, 0, v.block, m, v.written)
    <2>1. v.block = B /\ v.written = y
      BY <1>11, UserData
    <2> QED BY <1>11, <2>1
  <1>13. /\ y \in Seq(Frames) /\ Len(y) = Len(L) + k + 1
         /\ \A j \in 1..(Len(L) + k) : y[j] = W[j]
         /\ y[Len(L) + k + 1] = f
    BY <1>1, <1>8, <1>10, AppendProperties
  <1>14. \A j \in 1..Len(L) : y[j] = L[j]
    BY <1>a, <1>1, <1>13
  <1>15. ASSUME NEW j \in 1..k1 PROVE Framed(y[Len(L) + j], m, n + j - 1)
    <2>1. CASE j \in 1..k
      <3>1. Len(L) + j \in 1..(Len(L) + k)
        BY <1>a, <2>1
      <3> QED BY <1>1, <1>13, <2>1, <3>1
    <2>2. CASE j = k + 1
      <3>1. Len(L) + j = Len(L) + k + 1 /\ n + j - 1 = n + k
        BY <1>a, <2>2
      <3> QED BY <1>9, <1>13, <3>1
    <2> QED BY <2>1, <2>2
  <1>16. Len(L) + k + 1 = Len(L) + k1
    BY <1>a
  <1>17. Holds(B, m, (n + k1) * MaxP, 0)
    BY DEF Holds
  <1>18. PushedTo(v, L, m, n, k1, 0)
    BY <1>5, <1>12, <1>13, <1>14, <1>15, <1>16, <1>17 DEF PushedTo
  <1> QED BY <1>18 DEF v

-----------------------------------------------------------------------------
(* A read of bytes of a message and the pushes it leads to *)

\* The cursor of a stream is at the whole slice n of its package.
CursorAt(c, coord, n) ==
    /\ c = [sender_id |-> coord.sender_id, package_id |-> coord.package_id,
            offset |-> n * MaxP]
    /\ coord.sender_id \in SenderIds /\ coord.package_id \in PackageIds

\* The cursor after whole slices
LEMMA CursorOfRound ==
    ASSUME NEW c, NEW coord, NEW n \in Nat, CursorAt(c, coord, n),
           NEW j \in Nat, NEW i, i = n + j, i \in SliceIds, i * MaxP < U16
    PROVE  CursorAt(CursorAfter(c, j), coord, i)
  <1>0. MaxP \in Nat \ {0} /\ U16 \in Nat /\ i \in Nat /\ n * MaxP \in Nat /\ i * MaxP \in Nat
    BY MaxPFacts, Widths DEF SliceIds
  <1>1. n * MaxP + j * MaxP = i * MaxP
    BY <1>0
  <1>2. (i * MaxP) % U16 = i * MaxP
    BY <1>0, NoTruncation
  <1>3. c = [sender_id |-> coord.sender_id, package_id |-> coord.package_id,
             offset |-> n * MaxP]
    BY DEF CursorAt
  <1>4. CursorAfter(c, j) = [c EXCEPT !.offset = i * MaxP]
    BY <1>1, <1>2, <1>3 DEF CursorAfter
  <1>5. [c EXCEPT !.offset = i * MaxP] =
            [sender_id |-> coord.sender_id, package_id |-> coord.package_id,
             offset |-> i * MaxP]
    BY <1>3
  <1> QED BY <1>4, <1>5 DEF CursorAt

\* The header of a slice that is, or is not, the last
HeaderFor(c, z, x) ==
    IF x = 1 THEN mp_tx_prepare(TU, c, z, TRUE).header ELSE mp_tx_prepare(TU, c, z, FALSE).header

\* The header of slice i, when the cursor is there
LEMMA HeaderAt ==
    ASSUME NEW c, NEW coord, NEW i \in SliceIds, CursorAt(c, coord, i),
           NEW z \in PayloadSizes, NEW x \in 0..1, NEW h, h = HeaderFor(c, z, x)
    PROVE  /\ h \in Headers /\ h # NoHeader
           /\ h.slice_serial = i /\ h.eop = x /\ h.slice_payload_size = z
  <1>0. MaxP \in Nat \ {0} /\ i \in Nat /\ i < U8
    BY MaxPFacts, Widths DEF SliceIds
  <1>1. c.offset = i * MaxP /\ c.package_id = coord.package_id /\ c.sender_id = coord.sender_id
        /\ coord.sender_id \in SenderIds /\ coord.package_id \in PackageIds
    BY DEF CursorAt
  <1>2. mp_offset_to_slice_idx(i * MaxP, MaxP) = i
    BY <1>0, SliceAtMultiple
  <1>3. coord.sender_id % 8 \in SenderIds
    BY <1>1 DEF SenderIds
  <1>4. h = [package_serial |-> coord.package_id, slice_serial |-> i,
             sender_id |-> coord.sender_id % 8, eop |-> x, slice_payload_size |-> z]
    <2>1. mp_max_payload(TU) = MaxP
      BY DEF MaxP
    <2>2. CASE x = 1
      BY <1>1, <1>2, <2>1, <2>2 DEF mp_tx_prepare, mp_tx_make_header, HeaderFor
    <2>3. CASE x = 0
      BY <1>1, <1>2, <2>1, <2>3 DEF mp_tx_prepare, mp_tx_make_header, HeaderFor
    <2> QED BY <2>2, <2>3
  <1>5. h \in Headers
    BY <1>1, <1>3, <1>4 DEF Headers
  <1>6. h # NoHeader
    BY HeaderIsThere DEF HeaderFor
  <1>7. h.slice_serial = i /\ h.eop = x /\ h.slice_payload_size = z
    BY <1>4
  <1> QED BY <1>5, <1>6, <1>7

\* A push that puts slice i of message m on the link, a bytes of which are in
\* the block
WholePush(push, m, i, a) ==
    /\ push.header \in Headers /\ push.header # NoHeader
    /\ push.header.slice_serial = i /\ push.header.eop = 0
    /\ push.header.slice_payload_size = MaxP
    /\ push.data = BytesOf(m, i * MaxP + a, MaxP - a)

\* A push that fills slice i of message m from a bytes to t
PartPush(push, m, i, a, t) ==
    push.header = NoHeader /\ push.data = BytesOf(m, i * MaxP + a, t - a)

\* What is in the block before round k, if it was r before the first
Before(k, r) == IF k = 1 THEN r ELSE 0

\* The bytes of data that round k takes
RoundData(data, fill, size, k) ==
    SubSeq(data, Taken(fill, size, k - 1) + 1, Taken(fill, size, k))

\* data are the sz bytes of message m behind slice n and r bytes; with those they
\* make q slices and t bytes.
Chunk(data, m, n, r, sz, q, t) ==
    /\ m \in Nat /\ n \in Nat /\ r \in 0..(MaxP - 1) /\ sz \in Nat /\ 0 < sz
    /\ q \in Nat /\ t \in 0..(MaxP - 1) /\ r + sz = q * MaxP + t
    /\ data = BytesOf(m, n * MaxP + r, sz)

\* Round k fills slice i from a to z bytes.
RoundOf(k, n, r, q, t, i, a, z) ==
    /\ k \in 1..(q + 1) /\ (k = q + 1 => t # 0)
    /\ i = n + k - 1 /\ a = Before(k, r) /\ z = IF k = q + 1 THEN t ELSE MaxP

\* What one round takes of the data
LEMMA RoundTakes ==
    ASSUME NEW data, NEW m, NEW n, NEW r, NEW sz, NEW q, NEW t, Chunk(data, m, n, r, sz, q, t),
           NEW k, NEW i, NEW a, NEW z, RoundOf(k, n, r, q, t, i, a, z)
    PROVE  RoundData(data, r, sz, k) = BytesOf(m, i * MaxP + a, z - a) /\ a \in 0..z
  <1> USE DEF Chunk, RoundOf
  <1> DEFINE M == MaxP
  <1>0. M \in Nat \ {0} /\ r \in 0..(M - 1) /\ t \in 0..(M - 1) /\ r + sz = q * M + t
        /\ z = (IF k = q + 1 THEN t ELSE M)
        /\ m \in Nat /\ n \in Nat /\ sz \in Nat /\ 0 < sz /\ q \in Nat /\ k \in 1..(q + 1)
        /\ (k = q + 1 => t # 0) /\ i = n + k - 1 /\ a = Before(k, r)
        /\ data = BytesOf(m, n * M + r, sz)
    BY MaxPFacts
  <1>1. /\ Taken(r, sz, 0) = 0
        /\ \A j \in 1..q : Taken(r, sz, j) = j * M - r /\ Taken(r, sz, j) \in 0..sz
        /\ Taken(r, sz, q + 1) = sz
    BY TakenByRounds
  <1> HIDE DEF M, Chunk, RoundOf
  <1>2. PICK j \in Nat : j = k - 1 /\ j <= q
    BY <1>0
  <1>3. q * M \in Nat /\ j * M \in Nat /\ n * M \in Nat /\ k * M = j * M + M /\ i * M = n * M + j * M
    BY <1>0, <1>2
  <1>4. PICK x \in 0..sz : x = Taken(r, sz, k - 1) /\ x = j * M + a - r
    <2>1. CASE k = 1
      BY <1>0, <1>1, <1>2, <2>1 DEF Before
    <2>2. CASE k # 1
      <3>1. j \in 1..q /\ a = 0
        BY <1>0, <1>2, <2>2 DEF Before
      <3> QED BY <1>0, <1>1, <1>2, <3>1
    <2> QED BY <2>1, <2>2
  <1>5. PICK y \in 0..sz : y = Taken(r, sz, k) /\ y = j * M + z - r
    <2>1. CASE k = q + 1
      BY <1>0, <1>1, <1>2, <1>3, <2>1
    <2>2. CASE k # q + 1
      BY <1>0, <1>1, <1>2, <1>3, <2>2
    <2> QED BY <2>1, <2>2
  <1>6. a \in Nat /\ z \in Nat /\ a <= z /\ z <= M
    <2>1. CASE k = 1
      <3>1. a = r
        BY <1>0, <2>1 DEF Before
      <3>2. CASE q = 0
        <4>1. q * M = 0
          BY <1>0, <3>2
        <4>2. r + sz = t
          BY <1>0, <4>1
        <4> QED BY <1>0, <2>1, <3>1, <3>2, <4>2
      <3>3. CASE q # 0
        BY <1>0, <2>1, <3>1, <3>3
      <3> QED BY <3>2, <3>3
    <2>2. CASE k # 1
      BY <1>0, <2>2 DEF Before
    <2> QED BY <2>1, <2>2
  <1>7. x <= y /\ y - x = z - a /\ n * M + r + x = i * M + a /\ n * M + r \in Nat
    <2>1. PICK jm \in Nat, nm \in Nat : jm = j * M /\ nm = n * M /\ i * M = nm + jm
      BY <1>3
    <2>2. x = jm + a - r /\ y = jm + z - r /\ r \in Nat
      BY <1>0, <1>4, <1>5, <2>1
    <2> QED BY ONLY <1>6, <2>1, <2>2, jm \in Nat, nm \in Nat
  <1>8. PICK f \in Nat : f = n * M + r /\ data = BytesOf(m, f, sz)
    BY <1>0, <1>7
  <1>9. SubSeq(BytesOf(m, f, sz), x + 1, y) = BytesOf(m, f + x, y - x)
    <2>1. PICK x1, f1, n1 : x1 = x + 1 /\ f1 = f + x /\ n1 = y - x
      OBVIOUS
    <2>2. x1 \in 1..(sz + 1) /\ x1 <= y + 1 /\ f1 = f + x1 - 1 /\ n1 = y - x1 + 1
          /\ m \in Nat /\ sz \in Nat
      BY <1>0, <1>7, <2>1
    <2>3. Part(BytesOf(m, f, sz), x1, y) = BytesOf(m, f1, n1)
      BY <2>2, PartOfBytes
    <2> QED BY <2>1, <2>3 DEF Part
  <1>10. f + x = i * MaxP + a
    BY <1>7, <1>8 DEF M
  <1>11. RoundData(data, r, sz, k) = BytesOf(m, f + x, y - x)
    BY <1>4, <1>5, <1>8, <1>9 DEF RoundData
  <1>12. a \in 0..z
    BY <1>6
  <1> QED BY <1>7, <1>10, <1>11, <1>12

\* What one call of mp_tx_stream_feed pushes: q whole slices from slice n on, in
\* whose first r bytes are there already, and t bytes of the next.
FeedsTo(call, coord, m, n, r, q, t) ==
    /\ \E c : CursorAt(c, coord, n + q) /\ call.stream = [cursor |-> c, fill |-> t]
    /\ Len(call.pushes) = IF t = 0 THEN q ELSE q + 1
    /\ \A k \in 1..q : WholePush(call.pushes[k], m, n + k - 1, Before(k, r))
    /\ t # 0 => PartPush(call.pushes[q + 1], m, n + q, Before(q + 1, r), t)
    /\ t # 0 => Before(q + 1, r) \in 0..t
    /\ t = 0 => q # 0

\* The bytes of a message are pushed in order.
LEMMA FeedPushes ==
    ASSUME NEW s, NEW c, s.cursor = c, NEW coord, NEW n \in Nat, CursorAt(c, coord, n),
           NEW r \in 0..(MaxP - 1), s.fill = r, NEW m \in Nat, NEW length \in Nat, Fits(length),
           NEW sz \in Nat, 0 < sz, NEW q \in Nat, NEW t \in 0..(MaxP - 1),
           r + sz = q * MaxP + t, n * MaxP + r + sz <= length,
           NEW data, data = BytesOf(m, n * MaxP + r, sz)
    PROVE  FeedsTo(mp_tx_stream_feed(s, data), coord, m, n, r, q, t)
  <1> DEFINE call == mp_tx_stream_feed(s, data)
  <1>0. MaxP \in Nat \ {0} /\ n * MaxP \in Nat /\ n * MaxP + r \in Nat /\ q * MaxP \in Nat
        /\ (n + q) * MaxP = n * MaxP + q * MaxP
    BY MaxPFacts
  <1>c. Chunk(data, m, n, r, sz, q, t)
    BY DEF Chunk
  <1>l. 0 < length
    BY <1>0
  <1>1. Len(data) = sz
    <2>1. PICK from \in Nat : from = n * MaxP + r
      BY <1>0
    <2>2. IsBytes(data, m, from, sz)
      BY <2>1, BytesAre
    <2> QED BY ONLY <2>2 DEF IsBytes
  <1>2. /\ (r + sz) \div MaxP = q /\ (r + sz) % MaxP = t
        /\ Rounds(r, sz) = IF t = 0 THEN q ELSE q + 1
        /\ t = 0 => q # 0
    BY RoundsOfFeed
  <1> DEFINE H(k) == IF k <= q THEN mp_tx_prepare(TU, CursorAfter(c, k - 1), MaxP, FALSE).header
                     ELSE NoHeader
             D(k) == RoundData(data, r, sz, k)
             N    == IF t = 0 THEN q ELSE q + 1
  <1>3. /\ call.stream = [cursor |-> CursorAfter(c, q), fill |-> t]
        /\ call.pushes = [k \in 1..N |-> [header |-> H(k), data |-> D(k)]]
    BY <1>1, <1>2 DEF mp_tx_stream_feed, RoundData
  <1> HIDE DEF call, H, D
  <1>4. /\ Len(call.pushes) = N
        /\ \A k \in 1..N : call.pushes[k].header = H(k) /\ call.pushes[k].data = D(k)
    BY <1>3
  <1>5. ASSUME NEW k \in 0..q
        PROVE  /\ n + k \in SliceIds /\ (n + k) * MaxP < U16
               /\ (k < q => (n + k) * MaxP + MaxP <= length)
               /\ MaxP \in PayloadSizes
    <2>1. PICK i \in Nat : i = n + k
      OBVIOUS
    <2>2. i * MaxP = n * MaxP + k * MaxP /\ k * MaxP \in Nat
      BY <1>0, <2>1
    <2>3. k * MaxP <= q * MaxP /\ (k < q => k * MaxP + MaxP <= q * MaxP)
      BY SliceOrder
    <2>4. i * MaxP + 0 <= length /\ (k < q => i * MaxP + MaxP <= length)
      BY <1>0, <2>2, <2>3
    <2>5. i \in SliceIds /\ i * MaxP < U16
      <3>1. 0 \in 0..MaxP
        BY <1>0
      <3> QED BY <2>4, <3>1, SliceInMessage
    <2>6. MaxP \in PayloadSizes
      BY <1>0, <1>l, FitsFacts, SizeFits
    <2> QED BY <2>1, <2>4, <2>5, <2>6
  <1>6. ASSUME NEW k \in 1..q PROVE WholePush(call.pushes[k], m, n + k - 1, Before(k, r))
    <2>1. PICK j \in 0..q : j = k - 1 /\ j < q /\ j \in Nat
      OBVIOUS
    <2>2. PICK i : i = n + j /\ i = n + k - 1
      BY <2>1
    <2>3. i \in SliceIds /\ i * MaxP < U16 /\ MaxP \in PayloadSizes
      BY <1>5, <2>1, <2>2
    <2>4. PICK h : h = HeaderFor(CursorAfter(c, j), MaxP, 0)
      OBVIOUS
    <2>5. h \in Headers /\ h # NoHeader /\ h.slice_serial = i /\ h.eop = 0
          /\ h.slice_payload_size = MaxP
      <3>1. CursorAt(CursorAfter(c, j), coord, i)
        BY <2>1, <2>2, <2>3, CursorOfRound
      <3>2. 0 \in 0..1
        OBVIOUS
      <3> QED BY <2>3, <2>4, <3>1, <3>2, HeaderAt
    <2>6. call.pushes[k].header = h
      <3>1. k \in 1..N /\ k <= q /\ k - 1 = j
        BY <2>1
      <3>2. h = mp_tx_prepare(TU, CursorAfter(c, j), MaxP, FALSE).header
        BY <2>4 DEF HeaderFor
      <3> QED BY <1>4, <3>1, <3>2 DEF H
    <2>7. call.pushes[k].data = BytesOf(m, i * MaxP + Before(k, r), MaxP - Before(k, r))
      <3>1. k \in 1..N
        OBVIOUS
      <3>2. RoundOf(k, n, r, q, t, i, Before(k, r), MaxP)
        BY <2>2 DEF RoundOf
      <3>3. D(k) = BytesOf(m, i * MaxP + Before(k, r), MaxP - Before(k, r))
        BY <1>c, <3>2, RoundTakes DEF D
      <3> QED BY <1>4, <3>1, <3>3
    <2> QED BY <2>2, <2>5, <2>6, <2>7 DEF WholePush
  <1>7. ASSUME t # 0
        PROVE  PartPush(call.pushes[q + 1], m, n + q, Before(q + 1, r), t)
               /\ Before(q + 1, r) \in 0..t
    <2>1. PICK k \in 1..(q + 1) : k = q + 1 /\ k \in 1..N /\ ~ (k <= q)
      BY <1>7
    <2>2. PICK i : i = n + k - 1 /\ i = n + q
      BY <2>1
    <2>3. RoundOf(k, n, r, q, t, i, Before(k, r), t)
      BY <1>7, <2>1, <2>2 DEF RoundOf
    <2>4. D(k) = BytesOf(m, i * MaxP + Before(k, r), t - Before(k, r)) /\ Before(k, r) \in 0..t
      BY <1>c, <2>3, RoundTakes DEF D
    <2>5. call.pushes[k].header = NoHeader /\ call.pushes[k].data = D(k)
      BY <1>4, <2>1 DEF H
    <2> QED BY <2>1, <2>2, <2>4, <2>5 DEF PartPush
  <1>8. CursorAt(CursorAfter(c, q), coord, n + q)
    <2>1. PICK i : i = n + q
      OBVIOUS
    <2>2. i \in SliceIds /\ i * MaxP < U16
      <3>1. q \in 0..q
        OBVIOUS
      <3> QED BY <1>5, <2>1, <3>1
    <2> QED BY <2>1, <2>2, CursorOfRound
  <1>9. FeedsTo(call, coord, m, n, r, q, t)
    BY <1>2, <1>3, <1>4, <1>6, <1>7, <1>8 DEF FeedsTo
  <1> QED BY <1>9 DEF call

\* The user data before the first push
LEMMA PushedFirst ==
    ASSUME NEW u, NEW r \in 0..(MaxP - 1), NEW m, NEW n \in Nat,
           u = [fill |-> tx.fill, block |-> tx.block, msg |-> Len(sent), written |-> link],
           link \in Seq(Frames), m = Len(sent), tx.fill = r,
           tx.block \in [1..MaxP -> Pairs], Holds(tx.block, m, n * MaxP, r)
    PROVE  PushedTo(u, link, m, n, 0, r)
  <1>1. u.block = tx.block /\ u.written = link
    OBVIOUS
  <1>2. IsUser(u, r, u.block, m, u.written)
    BY <1>1 DEF IsUser
  <1>3. Len(u.written) = Len(link) + 0 /\ n + 0 = n
    BY <1>1, LenProperties
  <1>4. Holds(u.block, m, (n + 0) * MaxP, r)
    BY <1>1, <1>3
  <1>5. \A j \in 1..Len(link) : u.written[j] = link[j]
    BY <1>1
  <1> QED BY <1>1, <1>2, <1>3, <1>4, <1>5 DEF PushedTo

\* What a read leaves of the user data, and so of the block and the link
LEMMA FeedWrites ==
    ASSUME NEW call, NEW coord, NEW m \in 0..MaxMessages, NEW n \in Nat, NEW q \in Nat,
           NEW r \in 0..(MaxP - 1), NEW t \in 0..(MaxP - 1), FeedsTo(call, coord, m, n, r, q, t),
           link \in Seq(Frames), m = Len(sent), tx.fill = r,
           tx.block \in [1..MaxP -> Pairs], Holds(tx.block, m, n * MaxP, r)
    PROVE  PushedTo(Push(call), link, m, n, q, t)
  <1>0. MaxP \in Nat \ {0} /\ r \in 0..MaxP
    BY MaxPFacts
  <1> DEFINE N == IF t = 0 THEN q ELSE q + 1
  <1>1. /\ Len(call.pushes) = N /\ N \in Nat
        /\ \A k \in 1..q : WholePush(call.pushes[k], m, n + k - 1, Before(k, r))
        /\ t # 0 => PartPush(call.pushes[q + 1], m, n + q, Before(q + 1, r), t)
        /\ t # 0 => Before(q + 1, r) \in 0..t
        /\ t = 0 => q # 0
    BY DEF FeedsTo
  <1>2. PICK u : /\ u[0] = [fill |-> tx.fill, block |-> tx.block, msg |-> Len(sent),
                            written |-> link]
                 /\ \A k \in 1..N : u[k] = push_cb(u[k - 1], call.pushes[k])
                 /\ Push(call) = u[N]
    BY <1>1, PushRuns
  <1> DEFINE OK(k) == PushedTo(u[k], link, m, n, k, Before(k + 1, r))
  <1>3. OK(0)
    <2>1. PushedTo(u[0], link, m, n, 0, r)
      BY <1>2, PushedFirst
    <2>2. Before(0 + 1, r) = r
      BY DEF Before
    <2> QED BY <2>1, <2>2
  <1>4. ASSUME NEW j \in Nat, j < q, OK(j) PROVE OK(j + 1)
    <2>1. PICK k \in 1..q : k = j + 1 /\ k - 1 = j /\ k \in 1..N
      BY <1>4
    <2>2. PICK push : push = call.pushes[k]
      OBVIOUS
    <2>3. PICK a \in 0..MaxP : a = Before(k, r)
      BY <1>0 DEF Before
    <2>4. WholePush(push, m, n + j, a)
      <3>1. WholePush(push, m, n + k - 1, a)
        BY <1>1, <2>1, <2>2, <2>3
      <3>2. n + k - 1 = n + j
        BY <2>1
      <3> QED BY <3>1, <3>2
    <2>5. PushedTo(u[j], link, m, n, j, a)
      BY <1>4, <2>1, <2>3
    <2>6. PICK o, d : o = (n + j) * MaxP + a /\ d = MaxP - a
      OBVIOUS
    <2>7. /\ push.header \in Headers /\ push.header # NoHeader
          /\ push.header.slice_serial = n + j /\ push.header.eop = 0
          /\ push.header.slice_payload_size = MaxP
          /\ push.data = BytesOf(m, o, d)
      BY <2>4, <2>6 DEF WholePush
    <2>8. PushedTo(push_cb(u[j], push), link, m, n, k, 0)
      BY <2>1, <2>5, <2>6, <2>7, PushWhole
    <2>9. u[k] = push_cb(u[j], push)
      BY <1>2, <2>1, <2>2
    <2>10. Before(k + 1, r) = 0
      BY DEF Before
    <2> QED BY <2>1, <2>8, <2>9, <2>10
  <1> HIDE DEF OK
  <1>5. OK(q)
    <2> DEFINE T == {k \in 0..q : ~ OK(k)}
    <2>1. ASSUME T # {} PROVE FALSE
      <3>1. PICK k \in T : \A y \in T : k <= y
        <4>1. T \subseteq Nat
          OBVIOUS
        <4> HIDE DEF T
        <4> QED BY <2>1, <4>1, LeastElement
      <3>2. k \in 0..q /\ ~ OK(k)
        BY <3>1
      <3>3. k # 0
        BY <1>3, <3>2
      <3>4. PICK j \in Nat : j = k - 1 /\ j < q /\ j + 1 = k
        BY <3>2, <3>3
      <3>5. OK(j)
        BY <3>1, <3>2, <3>4
      <3> QED BY <1>4, <3>2, <3>4, <3>5
    <2> QED BY <2>1
  <1>6. CASE t = 0
    <2>1. PushedTo(u[q], link, m, n, q, Before(q + 1, r))
      BY <1>5 DEF OK
    <2>2. q # 0 /\ N = q
      BY <1>1, <1>6
    <2>3. Before(q + 1, r) = 0
      BY <2>2 DEF Before
    <2> QED BY <1>2, <1>6, <2>1, <2>2, <2>3
  <1>7. CASE t # 0
    <2>1. PICK a \in 0..MaxP : a = Before(q + 1, r)
      BY <1>0 DEF Before
    <2>2. PICK push : push = call.pushes[q + 1]
      OBVIOUS
    <2>8. PICK o : o = (n + q) * MaxP + a
      OBVIOUS
    <2>3. PICK d \in Nat : d = t - a /\ t = a + d /\ t <= MaxP
      <3>1. t \in Nat /\ a \in Nat /\ a <= t /\ t <= MaxP
        BY <1>0, <1>1, <1>7, <2>1
      <3> QED BY ONLY <3>1
    <2>4. push.header = NoHeader /\ push.data = BytesOf(m, o, d)
      BY <1>1, <1>7, <2>1, <2>2, <2>3, <2>8 DEF PartPush
    <2>5. PushedTo(u[q], link, m, n, q, a)
      BY <1>5, <2>1 DEF OK
    <2>6. PushedTo(push_cb(u[q], push), link, m, n, q, t)
      BY <2>3, <2>4, <2>5, <2>8, PushPart
    <2>7. u[N] = push_cb(u[q], push)
      <3>1. N \in 1..N /\ N - 1 = q /\ N = q + 1
        BY <1>7
      <3> QED BY <1>2, <2>2, <3>1
    <2> QED BY <1>2, <2>6, <2>7
  <1> QED BY <1>6, <1>7

-----------------------------------------------------------------------------
(* The state of the tools.  The predicates take what they speak of as          *)
(* parameters: L is the link, S the lengths of the messages, p the process     *)
(* that sends, B the bitmap, A the assembly buffer and O the output of rx.     *)

\* Frame f carries a slice of a message: a whole slice, or the last one, which is
\* shorter.
Carries(f, S) ==
    /\ f \in Frames /\ f.msg \in 1..Len(S)
    /\ Slice(f) \in SliceIds /\ Eop(f) \in 0..1 /\ Size(f) \in 0..MaxP
    /\ Slice(f) * MaxP + Size(f) <= S[f.msg]
    /\ Eop(f) = 0 => Size(f) = MaxP
    /\ Eop(f) = 1 => Size(f) < MaxP
    /\ Holds(f.payload, f.msg, Slice(f) * MaxP, Size(f))

\* Every frame of the link carries a slice of a message.
LinkCarries(L, S) == L \in Seq(Frames) /\ \A k \in 1..Len(L) : Carries(L[k], S)

\* Process p is sending message m.
Running(p, S, m) == p # NoProcess /\ m = Len(S)

\* Slice i of message m may still be sent, as p has not read all of it.
Unsent(p, S, m, i) == Running(p, S, m) /\ p.read < (i + 1) * MaxP

\* The link holds slice i of message m; it holds it as the last of the message.
OnLink(L, m, i) == \E k \in 1..Len(L) : L[k].msg = m /\ Slice(L[k]) = i
EndsAt(L, m, i) == \E k \in 1..Len(L) : L[k].msg = m /\ Slice(L[k]) = i /\ Eop(L[k]) = 1

\* Slice i of message m has not reached rx.
Away(L, p, S, m, i) == OnLink(L, m, i) \/ Unsent(p, S, m, i)

\* No message before m is on the link.
IsHead(L, m) == \A k \in 1..Len(L) : m <= L[k].msg

\* The messages are ones that fit.
SentOK(S) == S \in Seq(Lengths) /\ Len(S) <= MaxMessages /\ \A m \in 1..Len(S) : Fits(S[m])

\* The session of tx is at the start of a package.
SessionOK(coord) == coord \in Coordinates /\ coord.offset = 0

\* The fields of a process
IsTx(p, stream, fill, block, read) ==
    p = [running |-> TRUE, stream |-> stream, fill |-> fill, block |-> block, read |-> read]

\* p has sent n whole slices of the last message and has r bytes of the next.
Sending(p, S, coord, n, r) ==
    /\ \E c, block : /\ CursorAt(c, coord, n) /\ block \in [1..MaxP -> Pairs]
                     /\ IsTx(p, [cursor |-> c, fill |-> r], r, block, n * MaxP + r)
                     /\ Holds(block, Len(S), n * MaxP, r)
    /\ Len(S) # 0 /\ n * MaxP + r <= S[Len(S)]

TxOK(p, S, coord) ==
    p # NoProcess => \E n \in Nat, r \in 0..(MaxP - 1) : Sending(p, S, coord, n, r)

\* What can be said of one frame of the link
FrameOK(f, S, p) ==
    /\ Carries(f, S) /\ 0 < Slice(f) * MaxP + Size(f)
    /\ ~ Unsent(p, S, f.msg, Slice(f))
    /\ Running(p, S, f.msg) => Eop(f) = 0

\* The messages are in order on the link, each slice is there once, and none is
\* behind the last one of its message.
Ordered(L) ==
    /\ \A j, k \in 1..Len(L) : j < k => L[j].msg <= L[k].msg
    /\ \A j, k \in 1..Len(L) : L[j].msg = L[k].msg /\ Slice(L[j]) = Slice(L[k]) => j = k
    /\ \A j, k \in 1..Len(L) : L[j].msg = L[k].msg /\ Eop(L[k]) = 1 => Slice(L[j]) <= Slice(L[k])

LinkOK(L, S, p) == L \in Seq(Frames) /\ Ordered(L) /\ \A k \in 1..Len(L) : FrameOK(L[k], S, p)

\* Slice j of message m has been written, whatever became of it.
Behind(L, p, S, m, j) ==
    (Running(p, S, m) /\ ~ Unsent(p, S, m, j)) \/ \E e \in Nat : EndsAt(L, m, e) /\ j < e

\* Such a slice is on the link or in the bitmap.
TrackOK(L, S, p, B) ==
    \A m, j \in Nat : Behind(L, p, S, m, j) => OnLink(L, m, j) \/ (IsHead(L, m) /\ j \in B)

\* The bytes of slice i, of which z are there, are those of message m.
InBuffer(A, m, i, z) == \A b \in 1..z : A[i * MaxP + b] = <<m, i * MaxP + b - 1>>

\* No byte of slice i of message m has been written out.
Unused(O, m, i) == \A k \in 1..Len(O), b \in 0..(MaxP - 1) : O[k] # <<m, i * MaxP + b>>

\* y is a byte of a message whose slice has reached rx.
Delivered(y, L, p, S) ==
    \E m \in 1..Len(S), i \in Nat, b \in 0..(MaxP - 1) :
        y = <<m, i * MaxP + b>> /\ i * MaxP + b < S[m] /\ ~ Away(L, p, S, m, i)

Distinct(O) == \A j, k \in 1..Len(O) : O[j] = O[k] => j = k

OutOK(O, L, p, S) ==
    O \in Seq(BytePairs) /\ Distinct(O) /\ \A k \in 1..Len(O) : Delivered(O[k], L, p, S)

\* Slice i, of which z bytes are there, waits to be written out.
PendingAs(L, p, S, A, O, m, i, z) ==
    /\ m \in 1..Len(S) /\ i * MaxP + z <= S[m] /\ InBuffer(A, m, i, z)
    /\ ~ Away(L, p, S, m, i) /\ Unused(O, m, i)
    /\ 0 < z => i * MaxP + z <= AssemblySize

Pending(L, p, S, A, O, i, z) == \E m \in Nat : PendingAs(L, p, S, A, O, m, i, z)

PendingOK(L, p, S, B, A, O, g, e, r) ==
    \A i \in B : g <= i => Pending(L, p, S, A, O, i, Held(i, e, r))

\* The message that ended at slice e is the first one of the link, and what is
\* missing of it is there.
EndedAs(L, p, S, B, e, m) ==
    /\ m \in 1..Len(S) /\ IsHead(L, m) /\ ~ Running(p, S, m)
    /\ \A j \in Nat : ~ EndsAt(L, m, j)
    /\ \A j \in 0..e : j \in B \/ OnLink(L, m, j)

EndedAt(L, p, S, B, e) == e # NoEnd => \E m \in Nat : EndedAs(L, p, S, B, e, m)

BufferOK(A) == A \in Seq(Pairs) /\ Len(A) = AssemblySize

\* The receiver, st being the state of the slices
RxOK(st, A, L, p, S, O, g, e, r) ==
    /\ MixedState(st, g, e, r) /\ BufferOK(A) /\ g * MaxP <= AssemblySize
    /\ EndedAt(L, p, S, st.bitmap, e)
    /\ PendingOK(L, p, S, st.bitmap, A, O, g, e, r)

-----------------------------------------------------------------------------
(* The state of the tools, and what it is while rx can make everything good   *)

\* Frames that end a message end it where tx found its end.
EndsWhole(L, S) ==
    \A k \in 1..Len(L) : Eop(L[k]) = 1 => Slice(L[k]) * MaxP + Size(L[k]) = S[L[k].msg]

\* Slice i of message m has been written and is not on the link any more.
Come(L, p, S, m, i) == i * MaxP <= S[m] /\ ~ Away(L, p, S, m, i)

\* rx is receiving message m and has written out its first g slices.
Receiving(B, A, L, p, S, g, e, r, m) ==
    /\ \A i \in Nat : i \in B <=> Come(L, p, S, m, i)
    /\ \A i \in B : i # e => (i + 1) * MaxP <= S[m]
    /\ e # NoEnd => e * MaxP + r = S[m]
    /\ \A i \in B : g <= i => InBuffer(A, m, i, Held(i, e, r))

\* No slice of a later message has come.
NoneCame(L, p, S, c) == \A m \in c..Len(S), i \in Nat : ~ Come(L, p, S, m, i)

\* c messages have been written out whole.
Clean(B, A, L, p, S, O, g, e, r, c) ==
    /\ \A k \in 1..Len(L) : c < L[k].msg
    /\ O = Upto(S, c) \o BytesOf(c + 1, 0, g * MaxP)
    /\ c = Len(S) => B = {} /\ p = NoProcess
    /\ c < Len(S) => Receiving(B, A, L, p, S, g, e, r, c + 1) /\ NoneCame(L, p, S, c + 2)

CleanRx(B, A, L, p, S, O, g, e, r) ==
    EndsWhole(L, S) /\ \E c \in 0..Len(S) : Clean(B, A, L, p, S, O, g, e, r, c)

\* The sender, the link and the output
ToolsOK(coord, p, L, S, O) ==
    /\ SentOK(S) /\ SessionOK(coord) /\ TxOK(p, S, coord) /\ LinkOK(L, S, p)
    /\ OutOK(O, L, p, S)

\* The receiver; flt tells whether something may go wrong.
ReceiverOK(st, A, L, p, S, O, flt) ==
    /\ TrackOK(L, S, p, st.bitmap)
    /\ \E g \in SliceIds, e \in 0..U8, r \in 0..(MaxP - 1) :
          /\ RxOK(st, A, L, p, S, O, g, e, r)
          /\ ~ flt => CleanRx(st.bitmap, A, L, p, S, O, g, e, r)

\* An access outside the assembly buffer is among the mishaps M.
StrayedIn(M) == M \intersect {"putOutside", "readOutside"} # {}

\* Such accesses have their reason.
InBounds(M, S) ==
    /\ "putOutside" \in M => \E m \in DOMAIN S : S[m] > AssemblySize
    /\ "readOutside" \in M => M \intersect {"emptyPackage", "frameLost", "payloadLost"} # {}

\* What holds whatever happens; up tells whether rx runs.
BaseOK(M, up, coord, p, L, S, st, A) ==
    /\ up \in BOOLEAN /\ M \subseteq Mishaps /\ (StrayedIn(M) => ~ up) /\ InBounds(M, S)
    /\ SentOK(S) /\ SessionOK(coord) /\ TxOK(p, S, coord) /\ LinkCarries(L, S)
    /\ st \in SliceStates /\ BufferOK(A)

\* What holds until a package is empty, rx is killed with a frame in hand or an
\* access goes outside the assembly buffer
GoodOK(M, coord, p, L, S, O, st, A, flt) ==
    M = {} => ToolsOK(coord, p, L, S, O) /\ ReceiverOK(st, A, L, p, S, O, flt)

\* The inductive invariant.  The part of ReceiverOK that speaks of faults is what
\* makes the output the messages; the others hold whatever is killed or fails.
IInv ==
    /\ faults \in BOOLEAN
    /\ BaseOK(mishaps, rxUp, txSession, tx, link, sent, rxSession.state, rxSession.assembly)
    /\ GoodOK(mishaps, txSession, tx, link, sent, out, rxSession.state, rxSession.assembly, faults)

-----------------------------------------------------------------------------
(* The link loses and gains frames                                             *)

\* L1 is L without slice i of message m.
Without(L, L1, m, i) ==
    /\ \A x, j \in Nat : OnLink(L1, x, j) <=> OnLink(L, x, j) /\ ~ (x = m /\ j = i)
    /\ \A x, j \in Nat : EndsAt(L1, x, j) => EndsAt(L, x, j) /\ ~ (x = m /\ j = i)
    /\ \A x \in Nat : IsHead(L, x) => IsHead(L1, x)

\* What a frame of the link is
LEMMA FrameFacts ==
    ASSUME NEW L, NEW S, NEW p, LinkOK(L, S, p), NEW k \in 1..Len(L), NEW f, f = L[k],
           NEW m, m = f.msg, NEW i, i = Slice(f)
    PROVE  /\ Carries(f, S) /\ ~ Unsent(p, S, m, i) /\ (Running(p, S, m) => Eop(f) = 0)
           /\ 0 < i * MaxP + Size(f)
           /\ OnLink(L, m, i) /\ (Eop(f) = 1 => EndsAt(L, m, i))
           /\ m \in Nat /\ m \in 1..Len(S) /\ i \in Nat /\ i \in SliceIds /\ i < U8
           /\ Len(L) \in Nat
  <1>1. FrameOK(f, S, p)
    BY DEF LinkOK
  <1>2. Carries(f, S) /\ ~ Unsent(p, S, m, i) /\ (Running(p, S, m) => Eop(f) = 0)
        /\ 0 < i * MaxP + Size(f)
    BY <1>1 DEF FrameOK
  <1>3. OnLink(L, m, i) /\ (Eop(f) = 1 => EndsAt(L, m, i))
    BY DEF OnLink, EndsAt
  <1>4. f \in Frames /\ m \in 1..Len(S) /\ i \in SliceIds
    BY <1>2 DEF Carries
  <1>5. m \in Nat
    BY <1>4 DEF Frames
  <1>6. i \in Nat /\ i < U8
    BY <1>4, Widths DEF SliceIds
  <1>7. Len(L) \in Nat
    BY LenProperties DEF LinkOK
  <1> QED BY <1>2, <1>3, <1>4, <1>5, <1>6, <1>7

\* The first frame belongs to the first message.
LEMMA HeadIsFirst ==
    ASSUME NEW L, NEW S, NEW p, LinkOK(L, S, p), NEW k \in 1..Len(L), NEW m, m = L[1].msg
    PROVE  IsHead(L, m)
  <1>1. Len(L) \in Nat /\ \A j \in 1..Len(L) : L[j].msg \in Nat
    BY FrameFacts
  <1>2. ASSUME NEW j \in 1..Len(L) PROVE L[1].msg <= L[j].msg
    <2>1. 1 \in 1..Len(L)
      BY <1>1
    <2>2. CASE j = 1
      BY <1>1, <2>1, <2>2
    <2>3. CASE j # 1
      <3>1. 1 < j
        BY <1>1, <2>3
      <3> QED BY <2>1, <3>1 DEF LinkOK, Ordered
    <2> QED BY <2>2, <2>3
  <1> QED BY <1>2 DEF IsHead

\* There is only one first message on the link.
LEMMA OneHead ==
    ASSUME NEW L, NEW x \in Nat, NEW y \in Nat, NEW i, NEW j, OnLink(L, x, i), OnLink(L, y, j),
           IsHead(L, x), IsHead(L, y)
    PROVE  x = y
  <1>1. x <= y /\ y <= x
    BY DEF OnLink, IsHead
  <1> QED BY <1>1

\* A frame is read.
LEMMA LinkLess ==
    ASSUME NEW L, NEW S, NEW p, LinkOK(L, S, p), NEW k \in 1..Len(L), NEW f, f = L[k],
           NEW m, m = f.msg, NEW i, i = Slice(f), NEW L1, L1 = RemoveAt(L, k)
    PROVE  LinkOK(L1, S, p) /\ Without(L, L1, m, i) /\ Len(L1) = Len(L) - 1
           /\ \A j \in 1..Len(L1) : \E h \in 1..Len(L) : L1[j] = L[h]
  <1> DEFINE n == Len(L)
             At(j) == IF j < k THEN j ELSE j + 1
  <1>1. L \in Seq(Frames) /\ n \in Nat /\ Ordered(L)
    BY LenProperties DEF LinkOK
  <1>2. /\ L1 \in Seq(Frames) /\ Len(L1) = n - 1
        /\ \A j \in 1..(n - 1) : L1[j] = L[At(j)]
    <2>1. /\ RemoveAt(L, k) \in Seq(Frames) /\ Len(RemoveAt(L, k)) = Len(L) - 1
          /\ \A j \in 1..(Len(L) - 1) : RemoveAt(L, k)[j] = IF j < k THEN L[j] ELSE L[j + 1]
      BY <1>1, RemovedAt
    <2> QED BY <2>1
  <1> HIDE DEF n
  <1>3. /\ k \in 1..n
        /\ \A j \in 1..(n - 1) : At(j) \in 1..n /\ At(j) # k
        /\ \A j, h \in 1..(n - 1) : (j < h => At(j) < At(h)) /\ (At(j) = At(h) => j = h)
    BY <1>1 DEF n
  <1>4. ASSUME NEW j \in 1..n, j # k PROVE \E h \in 1..(n - 1) : At(h) = j
    <2>1. CASE j < k
      <3>1. j \in 1..(n - 1) /\ At(j) = j
        BY <1>1, <1>3, <2>1
      <3> QED BY <3>1
    <2>2. CASE ~ (j < k)
      <3>1. j - 1 \in 1..(n - 1) /\ At(j - 1) = j
        BY <1>1, <1>3, <1>4, <2>2
      <3> QED BY <3>1
    <2> QED BY <2>1, <2>2
  <1> HIDE DEF At
  <1>5. Ordered(L1)
    <2>1. \A j, h \in 1..Len(L1) : j < h => L1[j].msg <= L1[h].msg
      BY <1>1, <1>2, <1>3 DEF Ordered, n
    <2>2. \A j, h \in 1..Len(L1) :
              L1[j].msg = L1[h].msg /\ Slice(L1[j]) = Slice(L1[h]) => j = h
      <3> TAKE j, h \in 1..Len(L1)
      <3>1. j \in 1..(n - 1) /\ h \in 1..(n - 1)
        BY <1>2
      <3>2. L1[j] = L[At(j)] /\ L1[h] = L[At(h)] /\ At(j) \in 1..n /\ At(h) \in 1..n
        BY <1>2, <1>3, <3>1
      <3>3. L[At(j)].msg = L[At(h)].msg /\ Slice(L[At(j)]) = Slice(L[At(h)]) => At(j) = At(h)
        BY <1>1, <3>2 DEF Ordered, n
      <3> QED BY <1>3, <3>1, <3>2, <3>3
    <2>3. \A j, h \in 1..Len(L1) :
              L1[j].msg = L1[h].msg /\ Eop(L1[h]) = 1 => Slice(L1[j]) <= Slice(L1[h])
      <3> TAKE j, h \in 1..Len(L1)
      <3>1. j \in 1..(n - 1) /\ h \in 1..(n - 1)
        BY <1>2
      <3>2. L1[j] = L[At(j)] /\ L1[h] = L[At(h)] /\ At(j) \in 1..n /\ At(h) \in 1..n
        BY <1>2, <1>3, <3>1
      <3> QED BY <1>1, <3>2 DEF Ordered, n
    <2> QED BY <2>1, <2>2, <2>3 DEF Ordered
  <1>6. \A j \in 1..Len(L1) : \E h \in 1..Len(L) : h # k /\ L1[j] = L[h]
    BY <1>2, <1>3 DEF n
  <1>7. LinkOK(L1, S, p)
    <2>1. \A j \in 1..Len(L1) : FrameOK(L1[j], S, p)
      BY <1>6 DEF LinkOK
    <2> QED BY <1>2, <1>5, <2>1 DEF LinkOK
  <1>8. ASSUME NEW h \in 1..Len(L), h # k PROVE \E j \in 1..Len(L1) : L1[j] = L[h]
    <2>1. h \in 1..n
      BY DEF n
    <2>2. PICK j \in 1..(n - 1) : At(j) = h
      BY <1>4, <1>8, <2>1
    <2> QED BY <1>2, <2>2
  <1>9. ASSUME NEW h \in 1..Len(L), L[h].msg = m, Slice(L[h]) = i PROVE h = k
    BY <1>1, <1>9 DEF Ordered
  <1>10. ASSUME NEW x \in Nat, NEW j \in Nat
         PROVE  OnLink(L1, x, j) <=> OnLink(L, x, j) /\ ~ (x = m /\ j = i)
    <2>1. ASSUME OnLink(L1, x, j) PROVE OnLink(L, x, j) /\ ~ (x = m /\ j = i)
      <3>1. PICK h \in 1..Len(L1) : L1[h].msg = x /\ Slice(L1[h]) = j
        BY <2>1 DEF OnLink
      <3>2. PICK a \in 1..Len(L) : a # k /\ L1[h] = L[a]
        BY <1>6
      <3>3. ~ (x = m /\ j = i)
        BY <1>9, <3>1, <3>2
      <3> QED BY <3>1, <3>2, <3>3 DEF OnLink
    <2>2. ASSUME OnLink(L, x, j), ~ (x = m /\ j = i) PROVE OnLink(L1, x, j)
      <3>1. PICK h \in 1..Len(L) : L[h].msg = x /\ Slice(L[h]) = j
        BY <2>2 DEF OnLink
      <3>2. h # k
        BY <2>2, <3>1
      <3>3. PICK a \in 1..Len(L1) : L1[a] = L[h]
        BY <1>8, <3>2
      <3> QED BY <3>1, <3>3 DEF OnLink
    <2> QED BY <2>1, <2>2
  <1>11. ASSUME NEW x \in Nat, NEW j \in Nat, EndsAt(L1, x, j)
         PROVE  EndsAt(L, x, j) /\ ~ (x = m /\ j = i)
    <2>1. PICK h \in 1..Len(L1) : L1[h].msg = x /\ Slice(L1[h]) = j /\ Eop(L1[h]) = 1
      BY <1>11 DEF EndsAt
    <2>2. PICK a \in 1..Len(L) : a # k /\ L1[h] = L[a]
      BY <1>6
    <2>3. ~ (x = m /\ j = i)
      BY <1>9, <2>1, <2>2
    <2> QED BY <2>1, <2>2, <2>3 DEF EndsAt
  <1>12. ASSUME NEW x \in Nat, IsHead(L, x) PROVE IsHead(L1, x)
    BY <1>6, <1>12 DEF IsHead
  <1>13. Without(L, L1, m, i)
    BY <1>10, <1>11, <1>12 DEF Without
  <1>14. Len(L1) = Len(L) - 1
    BY <1>2 DEF n
  <1> QED BY <1>6, <1>7, <1>13, <1>14

\* The process p sends the last message, and its slices from n on are unsent.
SentUpTo(p, S, n) ==
    /\ p # NoProcess
    /\ \A m : Running(p, S, m) <=> m = Len(S)
    /\ \A m, i \in Nat : Unsent(p, S, m, i) <=> m = Len(S) /\ n <= i

\* The fields of a process that has written n slices of the last message and holds
\* r bytes of the next.
Fields(p, S, coord, n, r) ==
    /\ p.fill = r /\ p.read = n * MaxP + r
    /\ p.block \in [1..MaxP -> Pairs] /\ Holds(p.block, Len(S), n * MaxP, r)
    /\ CursorAt(p.stream.cursor, coord, n) /\ p.stream.fill = r
    /\ Len(S) # 0 /\ n * MaxP + r <= S[Len(S)]

\* What the fields of a process say of the slices that are still to be sent
LEMMA SendingFacts ==
    ASSUME NEW p, NEW S, NEW coord, NEW n \in Nat, NEW r \in 0..(MaxP - 1),
           Sending(p, S, coord, n, r)
    PROVE  p # NoProcess /\ Fields(p, S, coord, n, r) /\ SentUpTo(p, S, n)
  <1>1. PICK c, block : /\ CursorAt(c, coord, n) /\ block \in [1..MaxP -> Pairs]
                        /\ IsTx(p, [cursor |-> c, fill |-> r], r, block, n * MaxP + r)
                        /\ Holds(block, Len(S), n * MaxP, r)
    BY DEF Sending
  <1>a. PICK s : s = [cursor |-> c, fill |-> r]
    OBVIOUS
  <1>2. s = [cursor |-> c, fill |-> r] /\ s.cursor = c /\ s.fill = r
    BY <1>a
  <1>3. PICK x \in Nat : x = n * MaxP + r /\ n * MaxP \in Nat /\ r \in Nat /\ r < MaxP
    BY MaxPFacts
  <1>4. p.running = TRUE /\ p.stream = s /\ p.fill = r /\ p.block = block /\ p.read = x
    <2>1. p = [running |-> TRUE, stream |-> s, fill |-> r, block |-> block, read |-> x]
      BY <1>1, <1>2, <1>3 DEF IsTx
    <2> QED BY <2>1
  <1>5. p # NoProcess
    <2>1. NoProcess.running = FALSE
      BY DEF NoProcess
    <2> QED BY <1>4, <2>1
  <1>6. \A m : Running(p, S, m) <=> m = Len(S)
    BY <1>5 DEF Running
  <1>7. ASSUME NEW m \in Nat, NEW i \in Nat
        PROVE  Unsent(p, S, m, i) <=> m = Len(S) /\ n <= i
    <2>1. (i + 1) * MaxP = i * MaxP + MaxP /\ i * MaxP \in Nat
          /\ (i < n => i * MaxP + MaxP <= n * MaxP) /\ (n <= i => n * MaxP <= i * MaxP)
      BY SliceOrder
    <2>2. x < (i + 1) * MaxP <=> n <= i
      BY <1>3, <2>1, MaxPFacts
    <2> QED BY <1>4, <1>6, <2>2 DEF Unsent
  <1>8. Len(S) # 0 /\ n * MaxP + r <= S[Len(S)]
    BY DEF Sending
  <1>9. Fields(p, S, coord, n, r)
    BY ONLY <1>1, <1>2, <1>3, <1>4, <1>8 DEF Fields
  <1>10. SentUpTo(p, S, n)
    BY ONLY <1>5, <1>6, <1>7 DEF SentUpTo
  <1> QED BY ONLY <1>5, <1>9, <1>10

\* L1 is L and q frames behind it, slices n, n + 1, .. of message m.
Grown(L, L1, m, n, q, x) ==
    /\ L1 \in Seq(Frames) /\ Len(L1) = Len(L) + q
    /\ \A j \in 1..Len(L) : L1[j] = L[j]
    /\ \A j \in 1..q : /\ L1[Len(L) + j].msg = m /\ Slice(L1[Len(L) + j]) = n + j - 1
                       /\ Eop(L1[Len(L) + j]) = x

With(L, L1, m, n, q, x) ==
    /\ \A y, j \in Nat : OnLink(L1, y, j) <=> OnLink(L, y, j) \/ (y = m /\ j \in n..(n + q - 1))
    /\ \A y, j \in Nat : EndsAt(L1, y, j) =>
                            EndsAt(L, y, j) \/ (x = 1 /\ y = m /\ j \in n..(n + q - 1))
    /\ \A y \in Nat : y <= m /\ IsHead(L, y) => IsHead(L1, y)

\* Slices are written one after the other.
LEMMA GrownLink ==
    ASSUME NEW L \in Seq(Frames), NEW L1, NEW m \in Nat, NEW n \in Nat, NEW q \in Nat, NEW x,
           Grown(L, L1, m, n, q, x)
    PROVE  With(L, L1, m, n, q, x)
  <1>0. Len(L) \in Nat
    BY LenProperties
  <1>1. \A h \in 1..Len(L) : h \in 1..Len(L1) /\ L1[h] = L[h]
    BY <1>0 DEF Grown
  <1>2. ASSUME NEW j \in n..(n + q - 1)
        PROVE  \E h \in 1..Len(L1) : L1[h].msg = m /\ Slice(L1[h]) = j
    <2>1. PICK k \in 1..q : k = j - n + 1 /\ n + k - 1 = j
      OBVIOUS
    <2>2. Len(L) + k \in 1..Len(L1)
      BY <1>0, <2>1 DEF Grown
    <2> QED BY <2>1, <2>2 DEF Grown
  <1>3. ASSUME NEW h \in 1..Len(L1)
        PROVE  \/ \E a \in 1..Len(L) : L1[h] = L[a]
               \/ L1[h].msg = m /\ Slice(L1[h]) \in n..(n + q - 1) /\ Eop(L1[h]) = x
    <2>0. Len(L1) = Len(L) + q
      BY DEF Grown
    <2>1. CASE h <= Len(L)
      <3>1. h \in 1..Len(L)
        BY <1>0, <2>0, <2>1
      <3> QED BY <1>1, <3>1
    <2>2. CASE ~ (h <= Len(L))
      <3>1. PICK k \in 1..q : k = h - Len(L) /\ h = Len(L) + k
        BY <1>0, <2>0, <2>2
      <3>2. L1[h].msg = m /\ Slice(L1[h]) = n + k - 1 /\ Eop(L1[h]) = x
        BY <3>1 DEF Grown
      <3>3. n + k - 1 \in n..(n + q - 1)
        OBVIOUS
      <3> QED BY <3>2, <3>3
    <2> QED BY <2>1, <2>2
  <1>4. ASSUME NEW y \in Nat, NEW j \in Nat
        PROVE  OnLink(L1, y, j) <=> OnLink(L, y, j) \/ (y = m /\ j \in n..(n + q - 1))
    <2>1. ASSUME OnLink(L1, y, j) PROVE OnLink(L, y, j) \/ (y = m /\ j \in n..(n + q - 1))
      <3>1. PICK h \in 1..Len(L1) : L1[h].msg = y /\ Slice(L1[h]) = j
        BY <2>1 DEF OnLink
      <3> QED BY <1>3, <3>1 DEF OnLink
    <2>2. ASSUME OnLink(L, y, j) PROVE OnLink(L1, y, j)
      BY <1>1, <2>2 DEF OnLink
    <2>3. ASSUME y = m, j \in n..(n + q - 1) PROVE OnLink(L1, y, j)
      BY <1>2, <2>3 DEF OnLink
    <2> QED BY <2>1, <2>2, <2>3
  <1>5. ASSUME NEW y \in Nat, NEW j \in Nat, EndsAt(L1, y, j)
        PROVE  EndsAt(L, y, j) \/ (x = 1 /\ y = m /\ j \in n..(n + q - 1))
    <2>1. PICK h \in 1..Len(L1) : L1[h].msg = y /\ Slice(L1[h]) = j /\ Eop(L1[h]) = 1
      BY <1>5 DEF EndsAt
    <2> QED BY <1>3, <2>1 DEF EndsAt
  <1>6. ASSUME NEW y \in Nat, y <= m, IsHead(L, y) PROVE IsHead(L1, y)
    BY <1>3, <1>6 DEF IsHead
  <1> QED BY <1>4, <1>5, <1>6 DEF With

\* Nothing that p1 may still send is something that p did not.
NothingMoreToSend(p, S, p1) ==
    /\ \A y : Running(p1, S, y) => Running(p, S, y)
    /\ \A y, j \in Nat : Unsent(p1, S, y, j) => Unsent(p, S, y, j)

\* The q frames of L1 that are behind those of L
NewFramesOK(L, L1, q, S, p) == \A j \in 1..q : FrameOK(L1[Len(L) + j], S, p)

\* The link stays in order when a process writes.
LEMMA LinkMore ==
    ASSUME NEW L, NEW S, NEW p, LinkOK(L, S, p), NEW coord, NEW n \in Nat,
           NEW r \in 0..(MaxP - 1), Sending(p, S, coord, n, r),
           NEW m, m = Len(S), m \in Nat, NEW q \in Nat, NEW x \in 0..1, x = 1 => q = 1,
           NEW L1, Grown(L, L1, m, n, q, x), NEW p1,
           NothingMoreToSend(p, S, p1), NewFramesOK(L, L1, q, S, p1)
    PROVE  LinkOK(L1, S, p1)
  <1>0. L \in Seq(Frames) /\ Len(L) \in Nat /\ Ordered(L) /\ Len(L1) = Len(L) + q
        /\ L1 \in Seq(Frames)
    BY LenProperties DEF LinkOK, Grown
  <1>s. SentUpTo(p, S, n)
    BY ONLY n \in Nat, r \in 0..(MaxP - 1), Sending(p, S, coord, n, r), SendingFacts
  <1>a. \A y : Running(p, S, y) <=> y = m
    BY ONLY <1>s, m = Len(S) DEF SentUpTo
  <1>b. \A y, i \in Nat : Unsent(p, S, y, i) <=> y = m /\ n <= i
    BY ONLY <1>s, m = Len(S) DEF SentUpTo
  <1> DEFINE l == Len(L)
  <1>1. ASSUME NEW h \in 1..l
        PROVE  /\ L1[h] = L[h] /\ FrameOK(L[h], S, p1) /\ L[h].msg \in 1..m /\ L[h].msg \in Nat
               /\ Slice(L[h]) \in Nat
               /\ L[h].msg = m => Slice(L[h]) < n /\ Eop(L[h]) = 0
    <2>1. PICK f, y, i : f = L[h] /\ y = f.msg /\ i = Slice(f)
      OBVIOUS
    <2>2. /\ Carries(f, S) /\ ~ Unsent(p, S, y, i) /\ (Running(p, S, y) => Eop(f) = 0)
          /\ y \in Nat /\ y \in 1..Len(S) /\ i \in Nat
          /\ 0 < i * MaxP + Size(f)
      BY <2>1, FrameFacts
    <2>3. FrameOK(f, S, p1)
      BY <2>1, <2>2 DEF FrameOK, NothingMoreToSend
    <2>4. y = m => i < n /\ Eop(f) = 0
      <3>1. Running(p, S, y) <=> y = m
        BY <1>a
      <3>2. Unsent(p, S, y, i) <=> y = m /\ n <= i
        BY <1>b, <2>2
      <3> QED BY <2>2, <3>1, <3>2
    <2>5. L1[h] = L[h]
      BY DEF Grown
    <2> QED BY <2>1, <2>2, <2>3, <2>4, <2>5
  <1>2. ASSUME NEW h \in 1..Len(L1), ~ (h \in 1..l)
        PROVE  \E k \in 1..q : h = l + k
    <2>1. h - l \in 1..q /\ h = l + (h - l)
      BY <1>0, <1>2
    <2> QED BY <2>1
  <1>3. ASSUME NEW k \in 1..q
        PROVE  L1[l + k].msg = m /\ Slice(L1[l + k]) = n + k - 1 /\ Eop(L1[l + k]) = x
               /\ FrameOK(L1[l + k], S, p1)
    BY DEF Grown, NewFramesOK
  <1> HIDE DEF l
  <1>4. l \in Nat
    BY <1>0 DEF l
  <1>5. ASSUME NEW j \in 1..Len(L1), NEW h \in 1..Len(L1)
        PROVE  /\ j < h => L1[j].msg <= L1[h].msg
               /\ L1[j].msg = L1[h].msg /\ Slice(L1[j]) = Slice(L1[h]) => j = h
               /\ L1[j].msg = L1[h].msg /\ Eop(L1[h]) = 1 => Slice(L1[j]) <= Slice(L1[h])
    <2>1. CASE j \in 1..l /\ h \in 1..l
      BY <1>0, <1>1, <2>1 DEF Ordered, l
    <2>2. CASE j \in 1..l /\ ~ (h \in 1..l)
      <3>1. PICK k \in 1..q : h = l + k
        BY <1>2, <2>2
      <3>2. L1[h].msg = m /\ Slice(L1[h]) = n + k - 1 /\ n + k - 1 >= n
        BY <1>3, <3>1
      <3>3. L1[j].msg <= m /\ L1[j].msg \in Nat /\ Slice(L1[j]) \in Nat
            /\ (L1[j].msg = m => Slice(L1[j]) < n)
        BY <1>1, <2>2
      <3> QED BY <3>2, <3>3
    <2>3. CASE ~ (j \in 1..l) /\ h \in 1..l
      <3>1. PICK k \in 1..q : j = l + k
        BY <1>2, <2>3
      <3>2. L1[j].msg = m /\ Slice(L1[j]) = n + k - 1 /\ n + k - 1 >= n
        BY <1>3, <3>1
      <3>3. Slice(L1[h]) \in Nat /\ (L1[h].msg = m => Slice(L1[h]) < n /\ Eop(L1[h]) = 0)
        BY <1>1, <2>3
      <3>4. ~ (j < h)
        BY <1>4, <2>3, <3>1
      <3> QED BY <3>2, <3>3, <3>4
    <2>4. CASE ~ (j \in 1..l) /\ ~ (h \in 1..l)
      <3>1. PICK k \in 1..q : j = l + k
        BY <1>2, <2>4
      <3>2. PICK k2 \in 1..q : h = l + k2
        BY <1>2, <2>4
      <3>3. L1[j].msg = m /\ Slice(L1[j]) = n + k - 1 /\ L1[h].msg = m
            /\ Slice(L1[h]) = n + k2 - 1 /\ Eop(L1[h]) = x
        BY <1>3, <3>1, <3>2
      <3>4. x = 1 => k = 1 /\ k2 = 1
        OBVIOUS
      <3> QED BY <3>1, <3>2, <3>3, <3>4
    <2> QED BY <2>1, <2>2, <2>3, <2>4
  <1>6. Ordered(L1)
    BY <1>5 DEF Ordered
  <1>7. \A h \in 1..Len(L1) : FrameOK(L1[h], S, p1)
    BY <1>1, <1>2, <1>3
  <1> QED BY <1>0, <1>6, <1>7 DEF LinkOK

-----------------------------------------------------------------------------
(* The receiver while the sender moves on                                      *)

\* The lengths are numbers.
LEMMA SentFacts ==
    ASSUME NEW S, SentOK(S)
    PROVE  /\ S \in Seq(Nat) /\ Len(S) \in Nat /\ Len(S) <= MaxMessages /\ MaxMessages \in Nat
           /\ \A m \in 1..Len(S) : S[m] \in Nat /\ Fits(S[m]) /\ m \in Nat
  <1>1. S \in Seq(Lengths) /\ Lengths \subseteq Nat /\ MaxMessages \in Nat
    BY ToolAssumption DEF SentOK
  <1>2. Len(S) \in Nat /\ \A m \in 1..Len(S) : S[m] \in Lengths
    BY <1>1, ElementOfSeq, LenProperties
  <1>3. S \in Seq(Nat)
    <2>1. S \in [1..Len(S) -> Lengths]
      BY <1>1, LenProperties
    <2>2. S \in [1..Len(S) -> Nat]
      BY <1>1, <2>1
    <2> QED BY <1>2, <2>2
  <1> QED BY <1>1, <1>2, <1>3 DEF SentOK

\* No message is forgotten.
Extends(S, S1) == Len(S) <= Len(S1) /\ \A m \in 1..Len(S) : S1[m] = S[m]

\* Slices only reach rx; those of a message that ended do not go away.
LessAway(L, p, S, L1, p1, S1) ==
    /\ \A m \in 1..Len(S), i \in Nat : Away(L1, p1, S1, m, i) => Away(L, p, S, m, i)
    /\ \A m \in 1..Len(S) : ~ Running(p, S, m) =>
          /\ IsHead(L, m) => IsHead(L1, m)
          /\ ~ Running(p1, S1, m)
          /\ \A j \in Nat : EndsAt(L1, m, j) => EndsAt(L, m, j)
          /\ \A j \in Nat : OnLink(L, m, j) => OnLink(L1, m, j)

\* No slice reaches rx, none is given up, and frames are of messages that are
\* not written out yet.
KeepsClean(L, p, S, L1, p1, S1) ==
    /\ EndsWhole(L, S) => EndsWhole(L1, S1)
    /\ \A m \in 1..Len(S), i \in Nat : Come(L1, p1, S1, m, i) <=> Come(L, p, S, m, i)
    /\ \A m \in (Len(S) + 1)..Len(S1), i \in Nat : ~ Come(L1, p1, S1, m, i)
    /\ \A c \in 0..Len(S) :
          (\A k \in 1..Len(L) : c < L[k].msg) /\ (c = Len(S) => p = NoProcess)
             => \A k \in 1..Len(L1) : c < L1[k].msg
    /\ Len(S1) = Len(S) /\ p = NoProcess => p1 = NoProcess

\* The slices that are behind stay accounted for.
KeepsTrack(L, p, S, L1, p1, S1) == \A B : TrackOK(L, S, p, B) => TrackOK(L1, S1, p1, B)

\* What rx wrote stays delivered, what is pending stays pending.
LEMMA DeliveredKept ==
    ASSUME NEW L, NEW p, NEW S, SentOK(S), NEW L1, NEW p1, NEW S1, SentOK(S1), Extends(S, S1),
           LessAway(L, p, S, L1, p1, S1), NEW O, OutOK(O, L, p, S)
    PROVE  OutOK(O, L1, p1, S1)
  <1>1. ASSUME NEW y, Delivered(y, L, p, S) PROVE Delivered(y, L1, p1, S1)
    <2>1. PICK m \in 1..Len(S), i \in Nat, b \in 0..(MaxP - 1) :
              y = <<m, i * MaxP + b>> /\ i * MaxP + b < S[m] /\ ~ Away(L, p, S, m, i)
      BY <1>1 DEF Delivered
    <2>2. m \in 1..Len(S1) /\ S1[m] = S[m]
      BY SentFacts DEF Extends
    <2>3. ~ Away(L1, p1, S1, m, i)
      BY <2>1 DEF LessAway
    <2> QED BY <2>1, <2>2, <2>3 DEF Delivered
  <1> QED BY <1>1 DEF OutOK

\* What waits for one slice keeps waiting for it while its slice is not sent again.
LEMMA PendingKept ==
    ASSUME NEW L, NEW p, NEW S, SentOK(S), NEW L1, NEW p1, NEW S1, SentOK(S1), Extends(S, S1),
           LessAway(L, p, S, L1, p1, S1), NEW A, NEW O, NEW i \in Nat, NEW z,
           Pending(L, p, S, A, O, i, z)
    PROVE  Pending(L1, p1, S1, A, O, i, z)
  <1>1. PICK m \in Nat : PendingAs(L, p, S, A, O, m, i, z)
    BY DEF Pending
  <1>2. m \in 1..Len(S) /\ m \in 1..Len(S1) /\ S1[m] = S[m]
    BY <1>1, SentFacts DEF Extends, PendingAs
  <1>3. ~ Away(L1, p1, S1, m, i)
    BY <1>1, <1>2 DEF LessAway, PendingAs
  <1>4. PendingAs(L1, p1, S1, A, O, m, i, z)
    BY <1>1, <1>2, <1>3 DEF PendingAs
  <1> QED BY <1>4 DEF Pending

\* The message that ended stays the first of the link.
LEMMA EndedKept ==
    ASSUME NEW L, NEW p, NEW S, SentOK(S), NEW L1, NEW p1, NEW S1, SentOK(S1), Extends(S, S1),
           LessAway(L, p, S, L1, p1, S1), NEW B, NEW e \in Nat, EndedAt(L, p, S, B, e)
    PROVE  EndedAt(L1, p1, S1, B, e)
  <1> SUFFICES ASSUME e # NoEnd PROVE \E m \in Nat : EndedAs(L1, p1, S1, B, e, m)
    BY DEF EndedAt
  <1>1. PICK m \in Nat : EndedAs(L, p, S, B, e, m)
    BY DEF EndedAt
  <1>2. m \in 1..Len(S) /\ m \in 1..Len(S1)
    BY <1>1, SentFacts DEF Extends, EndedAs
  <1>3. IsHead(L1, m) /\ ~ Running(p1, S1, m) /\ \A j \in Nat : ~ EndsAt(L1, m, j)
    BY <1>1, <1>2 DEF LessAway, EndedAs
  <1>4. ASSUME NEW j \in 0..e PROVE j \in B \/ OnLink(L1, m, j)
    <2>1. j \in Nat
      OBVIOUS
    <2>2. j \in B \/ OnLink(L, m, j)
      BY <1>1 DEF EndedAs
    <2> QED BY <1>1, <1>2, <2>1, <2>2 DEF LessAway, EndedAs
  <1>5. EndedAs(L1, p1, S1, B, e, m)
    BY <1>2, <1>3, <1>4 DEF EndedAs
  <1> QED BY <1>5

\* Nor does the sender disturb what has come of the messages.
LEMMA CleanKept ==
    ASSUME NEW L, NEW p, NEW S, SentOK(S), NEW L1, NEW p1, NEW S1, SentOK(S1), Extends(S, S1),
           KeepsClean(L, p, S, L1, p1, S1), NEW B \in SUBSET SliceIds, NEW A, NEW O, NEW g,
           NEW e, NEW r, e # NoEnd => e \in B, CleanRx(B, A, L, p, S, O, g, e, r)
    PROVE  CleanRx(B, A, L1, p1, S1, O, g, e, r)
  <1>0. /\ S \in Seq(Nat) /\ S1 \in Seq(Nat) /\ Len(S) \in Nat /\ Len(S1) \in Nat
        /\ Len(S) <= Len(S1) /\ \A m \in 1..Len(S) : S1[m] = S[m]
        /\ B \subseteq Nat
    BY SentFacts DEF Extends, SliceIds
  <1>1. EndsWhole(L1, S1)
    BY DEF CleanRx, KeepsClean
  <1>2. PICK c \in 0..Len(S) : Clean(B, A, L, p, S, O, g, e, r, c)
    BY DEF CleanRx
  <1>3. \A k \in 1..Len(L1) : c < L1[k].msg
    BY <1>2 DEF KeepsClean, Clean
  <1>4. O = Upto(S1, c) \o BytesOf(c + 1, 0, g * MaxP)
    <2>1. Upto(S1, c) = Upto(S, c)
      BY <1>0, UptoSame
    <2> QED BY <1>2, <2>1 DEF Clean
  <1>5. ASSUME c = Len(S1) PROVE B = {} /\ p1 = NoProcess
    <2>1. c = Len(S) /\ Len(S1) = Len(S)
      BY <1>0, <1>5
    <2> QED BY <1>2, <2>1 DEF Clean, KeepsClean
  <1>6. ASSUME c < Len(S1)
        PROVE  Receiving(B, A, L1, p1, S1, g, e, r, c + 1) /\ NoneCame(L1, p1, S1, c + 2)
    <2>1. CASE c < Len(S)
      <3>1. Receiving(B, A, L, p, S, g, e, r, c + 1) /\ NoneCame(L, p, S, c + 2)
        BY <1>2, <2>1 DEF Clean
      <3>2. PICK m \in 1..Len(S) : m = c + 1 /\ S1[m] = S[m]
        BY <1>0, <2>1
      <3>3. Receiving(B, A, L1, p1, S1, g, e, r, m)
        BY <3>1, <3>2 DEF Receiving, KeepsClean
      <3>4. NoneCame(L1, p1, S1, c + 2)
        <4> SUFFICES ASSUME NEW x \in (c + 2)..Len(S1), NEW i \in Nat
                     PROVE  ~ Come(L1, p1, S1, x, i)
          BY DEF NoneCame
        <4>1. CASE x <= Len(S)
          <5>1. x \in 1..Len(S) /\ x \in (c + 2)..Len(S)
            BY <1>0, <4>1
          <5> QED BY <3>1, <5>1 DEF NoneCame, KeepsClean
        <4>2. CASE ~ (x <= Len(S))
          <5>1. x \in (Len(S) + 1)..Len(S1)
            BY <1>0, <4>2
          <5> QED BY <5>1 DEF KeepsClean
        <4> QED BY <4>1, <4>2
      <3> QED BY <3>2, <3>3, <3>4
    <2>2. CASE c = Len(S)
      <3>1. B = {} /\ e = NoEnd
        BY <1>2, <2>2 DEF Clean
      <3>2. \A x \in (c + 1)..Len(S1), i \in Nat : ~ Come(L1, p1, S1, x, i)
        BY <2>2 DEF KeepsClean
      <3>3. c + 1 \in (c + 1)..Len(S1) /\ \A x \in (c + 2)..Len(S1) : x \in (c + 1)..Len(S1)
        BY <1>0, <1>6
      <3>4. NoneCame(L1, p1, S1, c + 2)
        BY <3>2, <3>3 DEF NoneCame
      <3>5. Receiving(B, A, L1, p1, S1, g, e, r, c + 1)
        BY <3>1, <3>2, <3>3 DEF Receiving
      <3> QED BY <3>4, <3>5
    <2> QED BY <1>0, <2>1, <2>2
  <1>7. c \in 0..Len(S1)
    BY <1>0
  <1>8. Clean(B, A, L1, p1, S1, O, g, e, r, c)
    BY <1>3, <1>4, <1>5, <1>6 DEF Clean
  <1> QED BY <1>1, <1>7, <1>8 DEF CleanRx

\* What MixedState says of the bitmap
LEMMA MixedFacts ==
    ASSUME NEW st, NEW g \in SliceIds, NEW e \in 0..U8, NEW r \in 0..(MaxP - 1),
           MixedState(st, g, e, r)
    PROVE  /\ st \in SliceStates /\ st.watermark = g * MaxP
           /\ st.bitmap \in SUBSET SliceIds /\ st.bitmap \subseteq Nat
           /\ g \notin st.bitmap /\ \A j \in 0..(g - 1) : j \in st.bitmap
           /\ e # NoEnd => e \in st.bitmap /\ g < e
           /\ g \in Nat /\ e \in Nat /\ r \in Nat /\ r < MaxP /\ MaxP \in Nat \ {0}
  <1>1. MaxP \in Nat \ {0} /\ SliceIds \subseteq Nat /\ U8 \in Nat
    BY MaxPFacts, Widths DEF SliceIds
  <1>2. st \in SliceStates
    BY DEF MixedState
  <1>3. st.bitmap \in SUBSET SliceIds
    BY <1>2 DEF SliceStates
  <1>4. /\ st.watermark = g * MaxP /\ g \notin st.bitmap /\ \A j \in 0..(g - 1) : j \in st.bitmap
        /\ e # NoEnd => e \in st.bitmap /\ g < e
    BY DEF MixedState
  <1>5. g \in Nat /\ e \in Nat /\ r \in Nat /\ r < MaxP
    BY <1>1
  <1> QED BY <1>1, <1>2, <1>3, <1>4, <1>5

\* A step of the sender leaves the receiver as it was.
LEMMA ReceiverKept ==
    ASSUME NEW L, NEW p, NEW S, SentOK(S), NEW L1, NEW p1, NEW S1, SentOK(S1), Extends(S, S1),
           LessAway(L, p, S, L1, p1, S1), NEW st, NEW A, NEW O, NEW flt,
           ~ flt => KeepsClean(L, p, S, L1, p1, S1),
           ReceiverOK(st, A, L, p, S, O, flt), TrackOK(L1, S1, p1, st.bitmap)
    PROVE  ReceiverOK(st, A, L1, p1, S1, O, flt)
  <1>1. PICK g \in SliceIds, e \in 0..U8, r \in 0..(MaxP - 1) :
            RxOK(st, A, L, p, S, O, g, e, r)
            /\ (~ flt => CleanRx(st.bitmap, A, L, p, S, O, g, e, r))
    BY DEF ReceiverOK
  <1>2. MixedState(st, g, e, r)
    BY <1>1 DEF RxOK
  <1>3. /\ st.bitmap \in SUBSET SliceIds /\ st.bitmap \subseteq Nat /\ e \in Nat
        /\ e # NoEnd => e \in st.bitmap
    BY <1>2, MixedFacts
  <1>4. EndedAt(L1, p1, S1, st.bitmap, e)
    BY <1>1, <1>3, EndedKept DEF RxOK
  <1>5. PendingOK(L1, p1, S1, st.bitmap, A, O, g, e, r)
    <2> SUFFICES ASSUME NEW i \in st.bitmap, g <= i
                 PROVE  Pending(L1, p1, S1, A, O, i, Held(i, e, r))
      BY DEF PendingOK
    <2>1. Pending(L, p, S, A, O, i, Held(i, e, r))
      BY <1>1 DEF RxOK, PendingOK
    <2>2. i \in Nat
      BY <1>3
    <2> QED BY <2>1, <2>2, PendingKept
  <1>6. ~ flt => CleanRx(st.bitmap, A, L1, p1, S1, O, g, e, r)
    BY <1>1, <1>3, CleanKept
  <1>7. RxOK(st, A, L1, p1, S1, O, g, e, r)
    BY <1>1, <1>2, <1>4, <1>5 DEF RxOK
  <1> QED BY <1>6, <1>7 DEF ReceiverOK

-----------------------------------------------------------------------------
(* tx starts                                                                   *)

\* Without a process nothing is still to be sent.
LEMMA NothingRuns ==
    ASSUME NEW p, p = NoProcess, NEW S
    PROVE  \A m : ~ Running(p, S, m) /\ \A i : ~ Unsent(p, S, m, i)
  BY DEF Running, Unsent

\* The session and the process that tx starts with
LEMMA StartSending ==
    ASSUME NEW coord, SessionOK(coord), NEW sender \in SenderIds,
           NEW coord1, coord1 = [coord EXCEPT !.sender_id = sender],
           NEW p1, p1 = [running |-> TRUE,
                         stream  |-> [cursor |-> coord1, fill |-> 0],
                         fill    |-> 0,
                         block   |-> [k \in 1..MaxP |-> Fresh],
                         read    |-> 0],
           NEW S1, SentOK(S1), Len(S1) # 0
    PROVE  SessionOK(coord1) /\ Sending(p1, S1, coord1, 0, 0)
  <1>0. MaxP \in Nat \ {0} /\ 0 * MaxP = 0
    BY MaxPFacts
  <1>1. coord \in Coordinates /\ coord.offset = 0
    BY DEF SessionOK
  <1>2. coord1 \in Coordinates /\ coord1.offset = 0
    BY <1>1 DEF Coordinates
  <1>3. coord1 = [sender_id |-> coord1.sender_id, package_id |-> coord1.package_id,
                  offset |-> 0]
        /\ coord1.sender_id \in SenderIds /\ coord1.package_id \in PackageIds
    BY <1>2 DEF Coordinates
  <1>4. CursorAt(coord1, coord1, 0)
    BY <1>0, <1>3 DEF CursorAt
  <1>5. PICK block : block = [k \in 1..MaxP |-> Fresh]
    OBVIOUS
  <1>6. block \in [1..MaxP -> Pairs]
    <2>1. Fresh \in Pairs
      BY ToolAssumption DEF Fresh, Pairs
    <2> QED BY <1>5, <2>1
  <1>7. Holds(block, Len(S1), 0 * MaxP, 0)
    BY DEF Holds
  <1>8. IsTx(p1, [cursor |-> coord1, fill |-> 0], 0, block, 0 * MaxP + 0)
    <2>1. PICK s : s = [cursor |-> coord1, fill |-> 0]
      OBVIOUS
    <2>2. p1 = [running |-> TRUE, stream |-> s, fill |-> 0, block |-> block, read |-> 0]
      BY <1>5, <2>1
    <2>3. IsTx(p1, s, 0, block, 0)
      BY <2>2 DEF IsTx
    <2>4. 0 * MaxP + 0 = 0
      BY <1>0
    <2> QED BY <2>1, <2>3, <2>4
  <1>9. 0 * MaxP + 0 <= S1[Len(S1)]
    <2>1. Len(S1) \in 1..Len(S1)
      BY SentFacts
    <2>2. S1[Len(S1)] \in Nat
      BY <2>1, SentFacts
    <2> QED BY <1>0, <2>2
  <1>10. Sending(p1, S1, coord1, 0, 0)
    BY <1>4, <1>6, <1>7, <1>8, <1>9 DEF Sending
  <1> QED BY <1>2, <1>10 DEF SessionOK

\* A message more, nothing of which has been read
LEMMA StartMoves ==
    ASSUME NEW L, NEW p, p = NoProcess, NEW S, SentOK(S), LinkOK(L, S, p),
           NEW S1, SentOK(S1), Len(S1) = Len(S) + 1, \A m \in 1..Len(S) : S1[m] = S[m],
           NEW coord1, NEW p1, Sending(p1, S1, coord1, 0, 0)
    PROVE  /\ Extends(S, S1) /\ LessAway(L, p, S, L, p1, S1) /\ KeepsClean(L, p, S, L, p1, S1)
           /\ LinkOK(L, S1, p1)
           /\ KeepsTrack(L, p, S, L, p1, S1)
  <1>0. Len(S) \in Nat /\ Len(S1) = Len(S) + 1
    BY SentFacts
  <1>1. \A m : ~ Running(p, S, m) /\ \A i : ~ Unsent(p, S, m, i)
    BY NothingRuns
  <1>a. PICK n \in Nat, r \in 0..(MaxP - 1) : n = 0 /\ r = 0
    <2>1. MaxP \in Nat \ {0}
      BY MaxPFacts
    <2>2. 0 \in 0..(MaxP - 1)
      BY <2>1
    <2> QED BY <2>2
  <1>b. Sending(p1, S1, coord1, n, r)
    BY <1>a
  <1>2. \A m : Running(p1, S1, m) <=> m = Len(S) + 1
    <2>1. p1 # NoProcess
      BY <1>b, SendingFacts
    <2> QED BY <2>1 DEF Running
  <1>3. \A m, i \in Nat : Unsent(p1, S1, m, i) <=> m = Len(S) + 1
    <2>1. \A m, i \in Nat : Unsent(p1, S1, m, i) <=> m = Len(S1) /\ n <= i
      BY <1>b, SendingFacts DEF SentUpTo
    <2>2. \A i \in Nat : n <= i
      BY <1>a
    <2> QED BY <2>1, <2>2
  <1>4. Extends(S, S1)
    BY <1>0 DEF Extends
  <1>5. \A m \in 1..Len(S) : m # Len(S) + 1 /\ m \in Nat
    BY <1>0
  <1>6. \A m \in 1..Len(S), i \in Nat : Away(L, p1, S1, m, i) <=> Away(L, p, S, m, i)
    BY <1>1, <1>3, <1>5 DEF Away
  <1>7. LessAway(L, p, S, L, p1, S1)
    BY <1>2, <1>5, <1>6 DEF LessAway
  <1>8. \A k \in 1..Len(L) : FrameOK(L[k], S, p)
    BY DEF LinkOK
  <1>9. \A k \in 1..Len(L) : L[k].msg \in 1..Len(S) /\ Slice(L[k]) \in Nat
    <2> TAKE k \in 1..Len(L)
    <2>1. Carries(L[k], S)
      BY <1>8 DEF FrameOK
    <2> QED BY <2>1, Widths DEF Carries, SliceIds
  <1>10. LinkOK(L, S1, p1)
    <2>1. ASSUME NEW k \in 1..Len(L) PROVE FrameOK(L[k], S1, p1)
      <3>1. Carries(L[k], S)
        BY <1>8 DEF FrameOK
      <3>a. 0 < Slice(L[k]) * MaxP + Size(L[k])
        BY <1>8 DEF FrameOK
      <3>2. L[k].msg \in 1..Len(S1) /\ S1[L[k].msg] = S[L[k].msg]
        BY <1>0, <1>9
      <3>3. Carries(L[k], S1)
        BY <3>1, <3>2 DEF Carries
      <3>4. ~ Running(p1, S1, L[k].msg) /\ ~ Unsent(p1, S1, L[k].msg, Slice(L[k]))
        BY <1>2, <1>3, <1>5, <1>9
      <3> QED BY <3>a, <3>3, <3>4 DEF FrameOK
    <2> QED BY <2>1 DEF LinkOK
  <1>11. KeepsClean(L, p, S, L, p1, S1)
    <2>1. EndsWhole(L, S) => EndsWhole(L, S1)
      BY <1>9 DEF EndsWhole
    <2>2. \A m \in 1..Len(S), i \in Nat : Come(L, p1, S1, m, i) <=> Come(L, p, S, m, i)
      BY <1>6 DEF Come
    <2>3. \A m \in (Len(S) + 1)..Len(S1), i \in Nat : ~ Come(L, p1, S1, m, i)
      <3> TAKE m \in (Len(S) + 1)..Len(S1), i \in Nat
      <3>1. m \in Nat /\ m = Len(S) + 1
        BY <1>0
      <3> QED BY <1>3, <3>1 DEF Come, Away
    <2>4. Len(S1) # Len(S)
      BY <1>0
    <2> QED BY <2>1, <2>2, <2>3, <2>4 DEF KeepsClean
  <1>12. ASSUME NEW B, TrackOK(L, S, p, B) PROVE TrackOK(L, S1, p1, B)
    <2>1. ASSUME NEW m \in Nat, NEW j \in Nat, Behind(L, p1, S1, m, j)
          PROVE  Behind(L, p, S, m, j)
      <3>1. ~ (Running(p1, S1, m) /\ ~ Unsent(p1, S1, m, j))
        BY <1>2, <1>3
      <3> QED BY <2>1, <3>1 DEF Behind
    <2> QED BY <1>12, <2>1 DEF TrackOK
  <1> QED BY <1>4, <1>7, <1>10, <1>11, <1>12 DEF KeepsTrack

\* A message that fits can be added.
LEMMA OneMore ==
    ASSUME NEW S, SentOK(S), Len(S) < MaxMessages, NEW length \in Lengths, Fits(length),
           NEW S1, S1 = Append(S, length)
    PROVE  SentOK(S1) /\ Len(S1) = Len(S) + 1 /\ \A m \in 1..Len(S) : S1[m] = S[m]
  <1>1. S \in Seq(Lengths) /\ Len(S) \in Nat /\ MaxMessages \in Nat
    BY SentFacts DEF SentOK
  <1>2. /\ S1 \in Seq(Lengths) /\ Len(S1) = Len(S) + 1
        /\ \A m \in 1..Len(S) : S1[m] = S[m]
        /\ S1[Len(S) + 1] = length
    BY <1>1, AppendProperties
  <1>3. ASSUME NEW m \in 1..Len(S1) PROVE Fits(S1[m])
    <2>1. CASE m \in 1..Len(S)
      BY <1>2, <2>1 DEF SentOK
    <2>2. CASE m = Len(S) + 1
      BY <1>2, <2>2
    <2> QED BY <1>1, <1>2, <2>1, <2>2
  <1> QED BY <1>1, <1>2, <1>3 DEF SentOK

-----------------------------------------------------------------------------
(* tx reads                                                                    *)

\* A process with other values
WithTx(p, s1, a1, b1, n) ==
    [p EXCEPT !.stream = s1, !.fill = a1, !.block = b1, !.read = @ + n]

\* The values of that process
LEMMA TxData ==
    ASSUME NEW p, NEW s, NEW a, NEW block, NEW x, IsTx(p, s, a, block, x),
           NEW s1, NEW a1, NEW b1, NEW n, NEW y, y = x + n
    PROVE  IsTx(WithTx(p, s1, a1, b1, n), s1, a1, b1, y)
  <1> DEFINE p1 == [p EXCEPT !.stream = s1, !.fill = a1, !.block = b1, !.read = @ + n]
  <1>1. p = [running |-> TRUE, stream |-> s, fill |-> a, block |-> block, read |-> x]
    BY DEF IsTx
  <1>2. PICK v1 : v1 = [p EXCEPT !.stream = s1]
    OBVIOUS
  <1>3. v1 = [running |-> TRUE, stream |-> s1, fill |-> a, block |-> block, read |-> x]
    BY <1>1, <1>2
  <1>4. PICK v2 : v2 = [v1 EXCEPT !.fill = a1]
    OBVIOUS
  <1>5. v2 = [running |-> TRUE, stream |-> s1, fill |-> a1, block |-> block, read |-> x]
    BY <1>3, <1>4
  <1>6. PICK v3 : v3 = [v2 EXCEPT !.block = b1]
    OBVIOUS
  <1>7. v3 = [running |-> TRUE, stream |-> s1, fill |-> a1, block |-> b1, read |-> x]
    BY <1>5, <1>6
  <1>8. v3.read = x
    BY <1>7
  <1>9. p1 = [v3 EXCEPT !.read = y]
    BY <1>2, <1>4, <1>6, <1>8
  <1> HIDE DEF p1
  <1>10. p1 = [running |-> TRUE, stream |-> s1, fill |-> a1, block |-> b1, read |-> y]
    BY <1>7, <1>9
  <1> QED BY <1>10 DEF IsTx, WithTx, p1

\* What has been sent after a read
LEMMA ReadSending ==
    ASSUME NEW p, NEW S, NEW coord, NEW n \in Nat, NEW r \in 0..(MaxP - 1),
           Sending(p, S, coord, n, r),
           NEW m, m = Len(S), NEW sz \in Nat, NEW q \in Nat, NEW t \in 0..(MaxP - 1),
           r + sz = q * MaxP + t, n * MaxP + r + sz <= S[m],
           NEW call, FeedsTo(call, coord, m, n, r, q, t), NEW u, NEW L, PushedTo(u, L, m, n, q, t),
           NEW p1, p1 = WithTx(p, call.stream, u.fill, u.block, sz),
           NEW n1, n1 = n + q
    PROVE  Sending(p1, S, coord, n1, t)
  <1>1. PICK c, block : /\ CursorAt(c, coord, n) /\ block \in [1..MaxP -> Pairs]
                        /\ IsTx(p, [cursor |-> c, fill |-> r], r, block, n * MaxP + r)
                        /\ Holds(block, Len(S), n * MaxP, r)
    BY DEF Sending
  <1>2. PICK c1 : CursorAt(c1, coord, n1) /\ call.stream = [cursor |-> c1, fill |-> t]
    BY DEF FeedsTo
  <1>3. u.fill = t /\ u.block \in [1..MaxP -> Pairs] /\ Holds(u.block, m, n1 * MaxP, t)
    <2>1. IsUser(u, t, u.block, m, u.written)
      BY DEF PushedTo
    <2>2. u.fill = t
      BY <2>1, UserData
    <2> QED BY <2>2 DEF PushedTo
  <1>4. PICK x, y : x = n * MaxP + r /\ y = x + sz
    OBVIOUS
  <1>5. y = n1 * MaxP + t /\ y <= S[m]
    <2>1. PICK a \in Nat, b \in Nat : a = n * MaxP /\ b = q * MaxP /\ n1 * MaxP = a + b
      <3>1. (n + q) * MaxP = n * MaxP + q * MaxP /\ n * MaxP \in Nat /\ q * MaxP \in Nat
        BY ONLY MaxPFacts, n \in Nat, q \in Nat
      <3> QED BY <3>1
    <2>2. x = a + r /\ r + sz = b + t /\ r \in Nat /\ t \in Nat
      BY <1>4, <2>1
    <2>3. y = n * MaxP + r + sz
      BY <1>4
    <2>4. y = a + b + t /\ n1 * MaxP + t = a + b + t
      BY ONLY <2>1, <2>2, <2>3, a \in Nat, b \in Nat, sz \in Nat
    <2> QED BY <2>3, <2>4
  <1>6. IsTx(p1, call.stream, u.fill, u.block, y)
    BY <1>1, <1>4, TxData
  <1>7. IsTx(p1, [cursor |-> c1, fill |-> t], t, u.block, n1 * MaxP + t)
    BY <1>2, <1>3, <1>5, <1>6
  <1>8. Len(S) # 0 /\ n1 * MaxP + t <= S[Len(S)]
    BY <1>5 DEF Sending
  <1> QED BY <1>2, <1>3, <1>7, <1>8 DEF Sending

\* A whole slice of a message that fits may be on the link.
LEMMA FramedCarries ==
    ASSUME NEW S, SentOK(S), NEW m \in 1..Len(S), NEW f, NEW i \in Nat, Framed(f, m, i),
           i * MaxP + MaxP <= S[m]
    PROVE  Carries(f, S) /\ 0 < Slice(f) * MaxP + Size(f)
  <1>1. MaxP \in Nat \ {0} /\ i * MaxP \in Nat /\ MaxP \in 0..MaxP
    BY MaxPFacts
  <1>2. i \in SliceIds
    <2>1. S[m] \in Nat /\ Fits(S[m])
      BY SentFacts
    <2> QED BY <1>1, <2>1, SliceInMessage
  <1>3. f \in Frames /\ f.msg = m /\ Slice(f) = i /\ Eop(f) = 0 /\ Size(f) = MaxP
        /\ Holds(f.payload, m, i * MaxP, MaxP)
    BY DEF Framed
  <1>4. 0 < i * MaxP + MaxP
    BY <1>1
  <1> QED BY <1>1, <1>2, <1>3, <1>4 DEF Carries

IsOld(L, f) == \E a \in 1..Len(L) : f = L[a]
IsNew(L, q, h) == \E j \in 1..q : h = Len(L) + j

\* A frame of the longer link is an old or a new one.
LEMMA OldOrNew ==
    ASSUME NEW L \in Seq(Frames), NEW L1, NEW m, NEW n, NEW q \in Nat, NEW x,
           Grown(L, L1, m, n, q, x), NEW h \in 1..Len(L1)
    PROVE  IsOld(L, L1[h]) \/ IsNew(L, q, h)
  <1>0. Len(L) \in Nat /\ Len(L1) = Len(L) + q /\ \A a \in 1..Len(L) : L1[a] = L[a]
    BY LenProperties DEF Grown
  <1>1. CASE h <= Len(L)
    <2>1. h \in 1..Len(L)
      BY <1>0, <1>1
    <2> QED BY <1>0, <2>1 DEF IsOld
  <1>2. CASE ~ (h <= Len(L))
    <2>1. h - Len(L) \in 1..q /\ h = Len(L) + (h - Len(L))
      BY <1>0, <1>2
    <2> QED BY <2>1 DEF IsNew
  <1> QED BY <1>1, <1>2

\* Slices n .. n + q - 1 go from the process to the link.
LEMMA ReadMoves ==
    ASSUME NEW L, NEW p, NEW S, SentOK(S), LinkOK(L, S, p), NEW coord,
           NEW n \in Nat, NEW r \in 0..(MaxP - 1), Sending(p, S, coord, n, r),
           NEW q \in Nat, NEW t \in 0..(MaxP - 1), NEW n1, n1 = n + q,
           NEW p1, Sending(p1, S, coord, n1, t), NEW m, m = Len(S),
           NEW L1, Grown(L, L1, m, n, q, 0),
           \A j \in 1..q : Framed(L1[Len(L) + j], m, n + j - 1)
    PROVE  /\ LessAway(L, p, S, L1, p1, S) /\ KeepsClean(L, p, S, L1, p1, S)
           /\ LinkOK(L1, S, p1)
           /\ KeepsTrack(L, p, S, L1, p1, S)
  <1>0. /\ Len(S) \in Nat /\ L \in Seq(Frames) /\ Len(L) \in Nat /\ n1 \in Nat
        /\ Len(S) # 0 /\ m \in 1..Len(S) /\ m \in Nat
    <2>1. Len(S) \in Nat /\ L \in Seq(Frames)
      BY SentFacts DEF LinkOK
    <2>2. Len(S) # 0
      BY DEF Sending
    <2> QED BY <2>1, <2>2, LenProperties
  <1>a. n1 \in Nat /\ t \in 0..(MaxP - 1) /\ Sending(p1, S, coord, n1, t)
    BY <1>0
  <1>1. p # NoProcess /\ p1 # NoProcess
    <2>1. p # NoProcess
      BY SendingFacts
    <2>2. p1 # NoProcess
      BY ONLY <1>a, SendingFacts
    <2> QED BY <2>1, <2>2
  <1>2. \A x : (Running(p, S, x) <=> x = m) /\ (Running(p1, S, x) <=> x = m)
    BY <1>1 DEF Running
  <1>3. \A x, i \in Nat : Unsent(p, S, x, i) <=> x = m /\ n <= i
    <2>1. SentUpTo(p, S, n)
      BY SendingFacts
    <2> QED BY ONLY <2>1, m = Len(S) DEF SentUpTo
  <1>4. \A x, i \in Nat : Unsent(p1, S, x, i) <=> x = m /\ n1 <= i
    <2>1. SentUpTo(p1, S, n1)
      BY ONLY <1>a, SendingFacts
    <2> QED BY ONLY <2>1, m = Len(S) DEF SentUpTo
  <1>5. With(L, L1, m, n, q, 0)
    BY <1>0, GrownLink
  <1>6. \A x, i \in Nat : OnLink(L1, x, i) <=> OnLink(L, x, i) \/ (x = m /\ i \in n..(n + q - 1))
    BY <1>5 DEF With
  <1>7. \A x, i \in Nat : EndsAt(L1, x, i) => EndsAt(L, x, i)
    <2>1. 0 # 1
      OBVIOUS
    <2> QED BY <1>5, <2>1 DEF With
  <1>8. \A x, i \in Nat : Away(L1, p1, S, x, i) <=> Away(L, p, S, x, i)
    <2> TAKE x, i \in Nat
    <2>1. (i \in n..(n + q - 1) \/ n1 <= i) <=> n <= i
      OBVIOUS
    <2>2. Away(L1, p1, S, x, i) <=>
              OnLink(L, x, i) \/ (x = m /\ i \in n..(n + q - 1)) \/ (x = m /\ n1 <= i)
      BY <1>4, <1>6 DEF Away
    <2>3. Away(L, p, S, x, i) <=> OnLink(L, x, i) \/ (x = m /\ n <= i)
      BY <1>3 DEF Away
    <2> QED BY <2>1, <2>2, <2>3
  <1>9. \A x \in 1..Len(S) : x \in Nat /\ x <= m
    BY <1>0
  <1>10. LessAway(L, p, S, L1, p1, S)
    <2>1. \A x \in Nat : x <= m /\ IsHead(L, x) => IsHead(L1, x)
      BY <1>5 DEF With
    <2> QED BY <1>2, <1>6, <1>7, <1>8, <1>9, <2>1 DEF LessAway
  <1>11. \A k \in 1..q : /\ Carries(L1[Len(L) + k], S)
                         /\ 0 < Slice(L1[Len(L) + k]) * MaxP + Size(L1[Len(L) + k])
                         /\ L1[Len(L) + k].msg = m /\ Eop(L1[Len(L) + k]) = 0
                         /\ Slice(L1[Len(L) + k]) = n + k - 1
    <2> TAKE k \in 1..q
    <2>a. PICK f : f = L1[Len(L) + k]
      OBVIOUS
    <2>1. PICK i \in Nat : i = n + k - 1 /\ f = L1[Len(L) + k] /\ i < n1
      BY <2>a
    <2>2. Framed(f, m, i)
      BY <2>1
    <2>3. i * MaxP + MaxP <= S[m]
      <3>1. i * MaxP + MaxP <= n1 * MaxP /\ i * MaxP \in Nat /\ n1 * MaxP \in Nat
        BY <1>0, <2>1, SliceOrder
      <3>2. n1 * MaxP + t <= S[m] /\ t \in Nat /\ MaxP \in Nat
        BY MaxPFacts DEF Sending
      <3>3. S[m] \in Nat
        BY <1>0, SentFacts
      <3> QED BY <3>1, <3>2, <3>3
    <2>4. Carries(f, S) /\ 0 < Slice(f) * MaxP + Size(f)
      BY <1>0, <2>2, <2>3, FramedCarries
    <2> QED BY <2>1, <2>2, <2>4 DEF Framed
  <1>12. \A j \in 1..q : FrameOK(L1[Len(L) + j], S, p1)
    <2> TAKE j \in 1..q
    <2>1. n + j - 1 \in Nat /\ ~ (n1 <= n + j - 1)
      OBVIOUS
    <2>2. ~ Unsent(p1, S, m, n + j - 1)
      BY <1>0, <1>4, <2>1
    <2> QED BY <1>11, <2>2 DEF FrameOK
  <1>13. LinkOK(L1, S, p1)
    <2>1. \A y : Running(p1, S, y) => Running(p, S, y)
      BY <1>2
    <2>2. \A y, j \in Nat : Unsent(p1, S, y, j) => Unsent(p, S, y, j)
      BY <1>3, <1>4, <1>0
    <2>3. PICK x \in 0..1 : x = 0 /\ (x = 1 => q = 1)
      OBVIOUS
    <2>4. /\ LinkOK(L, S, p) /\ n \in Nat /\ r \in 0..(MaxP - 1) /\ Sending(p, S, coord, n, r)
          /\ m = Len(S) /\ m \in Nat /\ q \in Nat /\ x \in 0..1 /\ (x = 1 => q = 1)
          /\ Grown(L, L1, m, n, q, x)
      BY <1>0, <2>3
    <2>5. NothingMoreToSend(p, S, p1)
      BY ONLY <2>1, <2>2 DEF NothingMoreToSend
    <2>6. NewFramesOK(L, L1, q, S, p1)
      BY ONLY <1>12 DEF NewFramesOK
    <2> QED BY ONLY <2>4, <2>5, <2>6, LinkMore
  <1>14. KeepsClean(L, p, S, L1, p1, S)
    <2>1. ASSUME EndsWhole(L, S) PROVE EndsWhole(L1, S)
      <3> SUFFICES ASSUME NEW k \in 1..Len(L1), Eop(L1[k]) = 1
                   PROVE  Slice(L1[k]) * MaxP + Size(L1[k]) = S[L1[k].msg]
        BY DEF EndsWhole
      <3>1. IsOld(L, L1[k])
        <4>1. IsOld(L, L1[k]) \/ IsNew(L, q, k)
          BY <1>0, OldOrNew
        <4>2. ASSUME IsNew(L, q, k) PROVE FALSE
          <5>1. PICK h \in 1..q : k = Len(L) + h
            BY ONLY <4>2 DEF IsNew
          <5>2. Eop(L1[k]) = 0
            BY ONLY <1>11, <5>1, h \in 1..q
          <5> QED BY ONLY <5>2, Eop(L1[k]) = 1
        <4> QED BY ONLY <4>1, <4>2
      <3> QED BY <2>1, <3>1 DEF EndsWhole, IsOld
    <2>2. \A x \in 1..Len(S), i \in Nat : Come(L1, p1, S, x, i) <=> Come(L, p, S, x, i)
      BY <1>8, <1>9 DEF Come
    <2>3. (Len(S) + 1)..Len(S) = {}
      BY <1>0
    <2>4. ASSUME NEW c \in 0..Len(S), \A k \in 1..Len(L) : c < L[k].msg,
                 c = Len(S) => p = NoProcess, NEW k \in 1..Len(L1)
          PROVE  c < L1[k].msg
      <3>1. IsOld(L, L1[k]) \/ IsNew(L, q, k)
        BY <1>0, OldOrNew
      <3>2. c < m
        BY <1>0, <1>1, <2>4
      <3>3. CASE IsOld(L, L1[k])
        BY <2>4, <3>3 DEF IsOld
      <3>4. CASE IsNew(L, q, k)
        BY <1>11, <3>2, <3>4 DEF IsNew
      <3> QED BY <3>1, <3>3, <3>4
    <2> QED BY <1>1, <2>1, <2>2, <2>3, <2>4 DEF KeepsClean
  <1>15. ASSUME NEW B, TrackOK(L, S, p, B) PROVE TrackOK(L1, S, p1, B)
    <2> SUFFICES ASSUME NEW x \in Nat, NEW j \in Nat, Behind(L1, p1, S, x, j),
                        ~ OnLink(L1, x, j)
                 PROVE  IsHead(L1, x) /\ j \in B
      BY DEF TrackOK
    <2>1. Behind(L, p, S, x, j)
      <3>1. CASE Running(p1, S, x) /\ ~ Unsent(p1, S, x, j)
        <4>1. x = m /\ ~ (n1 <= j)
          BY <1>2, <1>4, <3>1
        <4>2. ~ (j \in n..(n + q - 1))
          BY <1>6, <4>1
        <4>3. ~ (n <= j)
          BY <4>1, <4>2
        <4> QED BY <1>2, <1>3, <4>1, <4>3 DEF Behind
      <3>2. CASE \E e \in Nat : EndsAt(L1, x, e) /\ j < e
        BY <1>7, <3>2 DEF Behind
      <3> QED BY <3>1, <3>2 DEF Behind
    <2>2. ~ OnLink(L, x, j)
      BY <1>6
    <2>3. IsHead(L, x) /\ j \in B
      BY <1>15, <2>1, <2>2 DEF TrackOK
    <2>4. x <= m
      <3>1. CASE Running(p1, S, x)
        BY <1>0, <1>2, <3>1
      <3>2. CASE \E e \in Nat : EndsAt(L1, x, e)
        <4>1. PICK e \in Nat : EndsAt(L, x, e)
          BY <1>7, <3>2
        <4>2. PICK k \in 1..Len(L) : L[k].msg = x
          BY <4>1 DEF EndsAt
        <4>3. x \in 1..Len(S)
          BY <4>2, FrameFacts
        <4> QED BY <1>9, <4>3
      <3> QED BY <3>1, <3>2 DEF Behind
    <2> QED BY <1>5, <2>3, <2>4 DEF With
  <1> QED BY <1>10, <1>13, <1>14, <1>15 DEF KeepsTrack

\* What PushedTo says of the link
LEMMA PushedLink ==
    ASSUME NEW u, NEW L, NEW m, NEW n \in Nat, NEW q \in Nat, NEW t, PushedTo(u, L, m, n, q, t),
           NEW L1, L1 = u.written
    PROVE  /\ Grown(L, L1, m, n, q, 0)
           /\ \A j \in 1..q : Framed(L1[Len(L) + j], m, n + j - 1)
  <1>1. /\ L1 \in Seq(Frames) /\ Len(L1) = Len(L) + q
        /\ \A j \in 1..Len(L) : L1[j] = L[j]
        /\ \A j \in 1..q : Framed(L1[Len(L) + j], m, n + j - 1)
    BY DEF PushedTo
  <1>2. \A j \in 1..q : /\ L1[Len(L) + j].msg = m /\ Slice(L1[Len(L) + j]) = n + j - 1
                        /\ Eop(L1[Len(L) + j]) = 0
    BY <1>1 DEF Framed
  <1> QED BY <1>1, <1>2 DEF Grown

\* The bytes a read returns
LEMMA ReadBytes ==
    ASSUME NEW m \in Nat, sent[m] \in Nat, NEW x \in Nat, NEW sz \in Nat, 0 < sz,
           x + sz <= sent[m]
    PROVE  SubSeq(Message(m), x + 1, x + sz) = BytesOf(m, x, sz)
  <1>1. PICK k \in Nat : k = sent[m]
    OBVIOUS
  <1>2. Message(m) = BytesOf(m, 0, k)
    <2>1. \A i \in 1..k : 0 + i - 1 = i - 1
      OBVIOUS
    <2> QED BY <1>1, <2>1 DEF Message, BytesOf
  <1>3. PICK i, j : i = x + 1 /\ j = x + sz
    OBVIOUS
  <1>4. i \in 1..(k + 1) /\ j \in 0..k /\ i <= j + 1 /\ x = 0 + i - 1 /\ sz = j - i + 1
    BY <1>1, <1>3
  <1>5. Part(BytesOf(m, 0, k), i, j) = BytesOf(m, x, sz)
    <2>1. 0 \in Nat
      OBVIOUS
    <2> QED BY <1>4, <2>1, PartOfBytes
  <1> QED BY <1>2, <1>3, <1>5 DEF Part

\* Process p of the last message sends slices n .. n + q - 1 of it, and is p1 then.
SendsOn(p, S, coord, p1, L, L1, n, r, q, t) ==
    /\ n \in Nat /\ r \in 0..(MaxP - 1) /\ q \in Nat /\ t \in 0..(MaxP - 1)
    /\ Sending(p, S, coord, n, r) /\ Sending(p1, S, coord, n + q, t)
    /\ Grown(L, L1, Len(S), n, q, 0)
    /\ \A j \in 1..q : Framed(L1[Len(L) + j], Len(S), n + j - 1)

\* What a read makes of a process and of the link
LEMMA ReadSends ==
    ASSUME SentOK(sent), TxOK(tx, sent, txSession), tx # NoProcess, link \in Seq(Frames),
           NEW m, m = Len(sent), NEW sz \in Nat, 0 < sz, tx.read + sz <= sent[m],
           NEW call,
           call = mp_tx_stream_feed(tx.stream, SubSeq(Message(m), tx.read + 1, tx.read + sz)),
           NEW u, u = Push(call), NEW L1, L1 = u.written,
           NEW p1, p1 = WithTx(tx, call.stream, u.fill, u.block, sz)
    PROVE  \E n, r, q, t : SendsOn(tx, sent, txSession, p1, link, L1, n, r, q, t)
  <1>1. SentOK(sent) /\ TxOK(tx, sent, txSession) /\ link \in Seq(Frames)
    OBVIOUS
  <1>2. PICK n \in Nat, r \in 0..(MaxP - 1) : Sending(tx, sent, txSession, n, r)
    BY <1>1 DEF TxOK
  <1>3. PICK c, x, s : c = s.cursor /\ x = n * MaxP + r /\ s = tx.stream
    OBVIOUS
  <1>4. /\ tx.fill = r /\ tx.read = x
        /\ tx.block \in [1..MaxP -> Pairs] /\ Holds(tx.block, m, n * MaxP, r)
        /\ CursorAt(c, txSession, n) /\ s.fill = r
        /\ m # 0
    <2>1. Fields(tx, sent, txSession, n, r)
      BY ONLY <1>2, SendingFacts, n \in Nat, r \in 0..(MaxP - 1)
    <2> QED BY ONLY <1>3, <2>1, m = Len(sent) DEF Fields
  <1>5. /\ MaxP \in Nat \ {0} /\ m \in 1..Len(sent) /\ m \in Nat /\ m \in 0..MaxMessages
        /\ sent[m] \in Nat /\ Fits(sent[m]) /\ x \in Nat /\ link \in Seq(Frames)
    <2>1. Len(sent) \in Nat /\ Len(sent) <= MaxMessages /\ MaxMessages \in Nat
      BY <1>1, SentFacts
    <2>2. m \in 1..Len(sent) /\ m \in Nat /\ m \in 0..MaxMessages
      BY <1>4, <2>1
    <2>3. sent[m] \in Nat /\ Fits(sent[m])
      BY <1>1, <2>2, SentFacts
    <2>4. MaxP \in Nat \ {0} /\ n * MaxP \in Nat
      BY MaxPFacts
    <2> QED BY <1>1, <1>3, <2>2, <2>3, <2>4
  <1>6. PICK q \in Nat, t \in 0..(MaxP - 1) : r + sz = q * MaxP + t
    <2>1. r + sz \in Nat
      OBVIOUS
    <2> QED BY <1>5, <2>1, Division
  <1>7. PICK data : data = SubSeq(Message(m), x + 1, x + sz)
    OBVIOUS
  <1>8. data = BytesOf(m, n * MaxP + r, sz)
    <2>1. x + sz <= sent[m]
      BY <1>4
    <2>2. data = BytesOf(m, x, sz)
      BY <1>5, <1>7, <2>1, ReadBytes
    <2> QED BY <1>3, <2>2
  <1>9. call = mp_tx_stream_feed(s, data)
    BY <1>3, <1>4, <1>7
  <1>10. n * MaxP + r + sz <= sent[m]
    BY <1>3, <1>4
  <1>11. FeedsTo(call, txSession, m, n, r, q, t)
    <2>1. PICK length : length = sent[m]
      OBVIOUS
    <2>2. /\ length \in Nat /\ Fits(length) /\ m \in Nat /\ s.cursor = c /\ s.fill = r
          /\ CursorAt(c, txSession, n) /\ r + sz = q * MaxP + t
          /\ n * MaxP + r + sz <= length /\ data = BytesOf(m, n * MaxP + r, sz)
          /\ sz \in Nat /\ 0 < sz
      BY <2>1, <1>3, <1>4, <1>5, <1>6, <1>8, <1>10
    <2>3. FeedsTo(mp_tx_stream_feed(s, data), txSession, m, n, r, q, t)
      BY ONLY <2>2, FeedPushes, n \in Nat, q \in Nat, r \in 0..(MaxP - 1), t \in 0..(MaxP - 1)
    <2> QED BY <1>9, <2>3
  <1>12. PushedTo(u, link, m, n, q, t)
    BY <1>4, <1>5, <1>11, FeedWrites
  <1>13. PICK n1 : n1 = n + q
    OBVIOUS
  <1>14. Sending(p1, sent, txSession, n1, t)
    BY <1>2, <1>6, <1>10, <1>11, <1>12, <1>13, ReadSending
  <1>15. /\ Grown(link, L1, m, n, q, 0)
         /\ \A j \in 1..q : Framed(L1[Len(link) + j], m, n + j - 1)
    BY <1>12, PushedLink
  <1> QED BY <1>2, <1>6, <1>13, <1>14, <1>15 DEF SendsOn

\* A read keeps the invariant.
LEMMA ReadStep ==
    ASSUME ToolsOK(txSession, tx, link, sent, out), tx # NoProcess,
           NEW st, NEW A, ReceiverOK(st, A, link, tx, sent, out, faults),
           NEW m, m = Len(sent), NEW sz \in Nat, 0 < sz, tx.read + sz <= sent[m],
           NEW call,
           call = mp_tx_stream_feed(tx.stream, SubSeq(Message(m), tx.read + 1, tx.read + sz)),
           NEW u, u = Push(call), NEW L1, L1 = u.written,
           NEW p1, p1 = WithTx(tx, call.stream, u.fill, u.block, sz)
    PROVE  /\ ToolsOK(txSession, p1, L1, sent, out)
           /\ ReceiverOK(st, A, L1, p1, sent, out, faults)
  <1>1. /\ SentOK(sent) /\ SessionOK(txSession) /\ TxOK(tx, sent, txSession)
        /\ LinkOK(link, sent, tx) /\ OutOK(out, link, tx, sent)
    BY DEF ToolsOK
  <1>2. PICK n, r, q, t : SendsOn(tx, sent, txSession, p1, link, L1, n, r, q, t)
    <2>1. link \in Seq(Frames)
      BY <1>1 DEF LinkOK
    <2> QED BY <1>1, <2>1, ReadSends
  <1>3. n \in Nat /\ r \in 0..(MaxP - 1) /\ q \in Nat /\ t \in 0..(MaxP - 1)
    BY <1>2 DEF SendsOn
  <1>13. PICK n1 : n1 = n + q
    OBVIOUS
  <1>14. Sending(tx, sent, txSession, n, r) /\ Sending(p1, sent, txSession, n1, t)
    BY <1>2, <1>13 DEF SendsOn
  <1>15. /\ Grown(link, L1, m, n, q, 0)
         /\ \A j \in 1..q : Framed(L1[Len(link) + j], m, n + j - 1)
    BY <1>2 DEF SendsOn
  <1>16. /\ LessAway(link, tx, sent, L1, p1, sent) /\ KeepsClean(link, tx, sent, L1, p1, sent)
         /\ LinkOK(L1, sent, p1)
         /\ KeepsTrack(link, tx, sent, L1, p1, sent)
    BY <1>1, <1>3, <1>13, <1>14, <1>15, ReadMoves
  <1>17. Extends(sent, sent)
    BY <1>1, SentFacts DEF Extends
  <1>18. OutOK(out, L1, p1, sent)
    <2>1. /\ SentOK(sent) /\ Extends(sent, sent) /\ OutOK(out, link, tx, sent)
          /\ LessAway(link, tx, sent, L1, p1, sent)
      BY ONLY <1>1, <1>16, <1>17
    <2> QED BY ONLY <2>1, DeliveredKept
  <1>19. TxOK(p1, sent, txSession)
    <2>1. n1 \in Nat
      BY <1>3, <1>13
    <2> QED BY <1>3, <1>14, <2>1 DEF TxOK
  <1>20. TrackOK(L1, sent, p1, st.bitmap)
    BY <1>16 DEF ReceiverOK, KeepsTrack
  <1>21. ReceiverOK(st, A, L1, p1, sent, out, faults)
    <2>1. /\ SentOK(sent) /\ ReceiverOK(st, A, link, tx, sent, out, faults)
          /\ LessAway(link, tx, sent, L1, p1, sent) /\ KeepsClean(link, tx, sent, L1, p1, sent)
          /\ Extends(sent, sent) /\ TrackOK(L1, sent, p1, st.bitmap)
      BY <1>1, <1>16, <1>17, <1>20
    <2> QED BY ONLY <2>1, ReceiverKept
  <1> QED BY <1>1, <1>16, <1>18, <1>19, <1>21 DEF ToolsOK

\* p1 is a new process of sender, whose session was coord and is coord1.
Started(coord, sender, coord1, p1) ==
    /\ coord1 = [coord EXCEPT !.sender_id = sender]
    /\ p1 = [running |-> TRUE,
             stream  |-> [cursor |-> coord1, fill |-> 0],
             fill    |-> 0,
             block   |-> [k \in 1..MaxP |-> Fresh],
             read    |-> 0]

\* A start keeps the invariant.
LEMMA StartStep ==
    ASSUME NEW coord, NEW p, NEW L, NEW S, NEW O, ToolsOK(coord, p, L, S, O), p = NoProcess,
           NEW st, NEW A, NEW flt, ReceiverOK(st, A, L, p, S, O, flt),
           Len(S) < MaxMessages, NEW length \in Lengths, Fits(length), NEW sender \in SenderIds,
           NEW coord1, NEW p1, Started(coord, sender, coord1, p1),
           NEW S1, S1 = Append(S, length)
    PROVE  ToolsOK(coord1, p1, L, S1, O) /\ ReceiverOK(st, A, L, p1, S1, O, flt)
  <1>1. SentOK(S) /\ SessionOK(coord) /\ LinkOK(L, S, p) /\ OutOK(O, L, p, S)
    BY DEF ToolsOK
  <1>2. SentOK(S1) /\ Len(S1) = Len(S) + 1 /\ \A m \in 1..Len(S) : S1[m] = S[m]
    BY <1>1, OneMore
  <1>3. Len(S1) # 0
    BY <1>1, <1>2, SentFacts
  <1>4. SessionOK(coord1) /\ Sending(p1, S1, coord1, 0, 0)
    BY <1>1, <1>2, <1>3, StartSending DEF Started
  <1>5. /\ Extends(S, S1) /\ LessAway(L, p, S, L, p1, S1) /\ KeepsClean(L, p, S, L, p1, S1)
        /\ LinkOK(L, S1, p1)
        /\ KeepsTrack(L, p, S, L, p1, S1)
    <2>1. p = NoProcess /\ SentOK(S) /\ LinkOK(L, S, p)
      BY <1>1
    <2> QED BY ONLY <1>2, <1>4, <2>1, StartMoves
  <1>6. OutOK(O, L, p1, S1)
    BY ONLY <1>1, <1>2, <1>5, DeliveredKept
  <1>7. TxOK(p1, S1, coord1)
    <2>1. MaxP \in Nat \ {0}
      BY MaxPFacts
    <2>2. 0 \in Nat /\ 0 \in 0..(MaxP - 1)
      BY <2>1
    <2> QED BY <1>4, <2>2 DEF TxOK
  <1>8. TrackOK(L, S1, p1, st.bitmap)
    BY <1>5 DEF ReceiverOK, KeepsTrack
  <1>9. ReceiverOK(st, A, L, p1, S1, O, flt)
    BY <1>1, <1>2, <1>5, <1>8, ReceiverKept
  <1> QED BY <1>2, <1>4, <1>5, <1>6, <1>7, <1>9 DEF ToolsOK

-----------------------------------------------------------------------------
(* tx ends                                                                     *)

\* Frame f is slice i of message m, its last, with r bytes.
Ended(f, m, i, r) ==
    /\ f \in Frames /\ f.msg = m /\ Slice(f) = i /\ Eop(f) = 1 /\ Size(f) = r
    /\ Holds(f.payload, m, i * MaxP, r)

\* The session of the next package
LEMMA NextSession ==
    ASSUME NEW c, NEW coord, NEW n, CursorAt(c, coord, n), NEW z,
           NEW c1, c1 = mp_tx_prepare(TU, c, z, TRUE).next,
           NEW coord1, coord1 = [c1 EXCEPT !.package_id = (@ + 1) % U8, !.offset = 0]
    PROVE  SessionOK(coord1)
  <1>1. c = [sender_id |-> coord.sender_id, package_id |-> coord.package_id,
             offset |-> n * MaxP]
        /\ coord.sender_id \in SenderIds /\ coord.package_id \in PackageIds
    BY DEF CursorAt
  <1>2. PICK x, y : x = (c.offset + mp_max_payload(TU)) % U16 /\ y = (coord.package_id + 1) % U8
    OBVIOUS
  <1>3. c1 = [c EXCEPT !.offset = x]
    BY <1>2 DEF mp_tx_prepare, mp_tx_advance
  <1>4. c1 = [sender_id |-> coord.sender_id, package_id |-> coord.package_id, offset |-> x]
    BY <1>1, <1>3
  <1>5. coord1 = [sender_id |-> coord.sender_id, package_id |-> y, offset |-> 0]
    <2>1. c1.package_id = coord.package_id
      BY ONLY <1>4
    <2>2. PICK v : v = [c1 EXCEPT !.package_id = y]
      OBVIOUS
    <2>3. v = [sender_id |-> coord.sender_id, package_id |-> y, offset |-> x]
      BY <1>4, <2>2
    <2>4. coord1 = [v EXCEPT !.offset = 0]
      BY <1>2, <2>1, <2>2
    <2> QED BY <2>3, <2>4
  <1>6. y \in PackageIds /\ 0 \in Offsets
    <2>1. U8 \in Nat /\ 2 <= U8 /\ U16 \in Nat /\ 2 <= U16
      BY Widths
    <2>2. PICK k \in Nat : k = coord.package_id + 1
      BY <1>1 DEF PackageIds
    <2>3. k % U8 \in 0..(U8 - 1)
      BY <2>1, <2>2
    <2> QED BY <1>2, <2>1, <2>2, <2>3 DEF PackageIds, Offsets
  <1>7. coord1 \in Coordinates /\ coord1.offset = 0
    <2>1. coord1.offset = 0
      BY <1>5
    <2>2. [sender_id |-> coord.sender_id, package_id |-> y, offset |-> 0] \in Coordinates
      BY <1>1, <1>6 DEF Coordinates
    <2> QED BY <1>5, <2>1, <2>2
  <1> QED BY <1>7 DEF SessionOK

\* What finalize pushes becomes one frame.
LEMMA EofWrites ==
    ASSUME SentOK(sent), link \in Seq(Frames), NEW n \in Nat, NEW r \in 0..(MaxP - 1),
           NEW coord, Sending(tx, sent, coord, n, r), NEW m, m = Len(sent),
           NEW call, call = mp_tx_stream_finalize(tx.stream),
           NEW L1, L1 = Push(call).written
    PROVE  \E f : Ended(f, m, n, r) /\ L1 = Append(link, f)
  <1>1. PICK c, block, s : c = s.cursor /\ block = tx.block /\ s = tx.stream
    OBVIOUS
  <1>2. /\ tx.fill = r /\ block \in [1..MaxP -> Pairs] /\ Holds(block, m, n * MaxP, r)
        /\ CursorAt(c, coord, n) /\ s.fill = r /\ m # 0 /\ n * MaxP + r <= sent[m]
    <2>1. Fields(tx, sent, coord, n, r)
      BY SendingFacts
    <2> QED BY ONLY <1>1, <2>1, m = Len(sent) DEF Fields
  <1>3. m \in 1..Len(sent) /\ m \in Nat /\ m \in 0..MaxMessages /\ sent[m] \in Nat /\ Fits(sent[m])
    <2>1. Len(sent) \in Nat /\ Len(sent) <= MaxMessages /\ MaxMessages \in Nat
      BY SentFacts
    <2>2. m \in 1..Len(sent) /\ m \in Nat /\ m \in 0..MaxMessages
      BY <1>2, <2>1
    <2> QED BY <2>2, SentFacts
  <1>4. n \in SliceIds /\ r \in PayloadSizes
    <2>1. r \in 0..MaxP
      BY MaxPFacts
    <2> QED BY <1>2, <1>3, <2>1, SliceInMessage
  <1>5. PICK h : h = mp_tx_prepare(TU, c, r, TRUE).header
    OBVIOUS
  <1>6. /\ h \in Headers /\ h # NoHeader
        /\ h.slice_serial = n /\ h.eop = 1 /\ h.slice_payload_size = r
    <2>1. h = HeaderFor(c, r, 1)
      BY <1>5 DEF HeaderFor
    <2>2. 1 \in 0..1
      OBVIOUS
    <2> QED BY <1>2, <1>4, <2>1, <2>2, HeaderAt
  <1>7. PICK push : push = [header |-> h, data |-> <<>>]
    OBVIOUS
  <1>8. call.pushes = << push >> /\ push.header = h /\ push.data = <<>>
    BY <1>1, <1>2, <1>5, <1>7 DEF mp_tx_stream_finalize
  <1>9. PICK u : /\ u[0] = [fill |-> tx.fill, block |-> tx.block, msg |-> Len(sent),
                            written |-> link]
                 /\ \A k \in 1..1 : u[k] = push_cb(u[k - 1], call.pushes[k])
                 /\ Push(call) = u[1]
    <2>1. PICK N \in Nat : N = 1 /\ Len(call.pushes) = N
      BY <1>8
    <2>2. \E u : /\ u[0] = [fill |-> tx.fill, block |-> tx.block, msg |-> Len(sent),
                             written |-> link]
                 /\ \A k \in 1..N : u[k] = push_cb(u[k - 1], call.pushes[k])
                 /\ Push(call) = u[N]
      BY ONLY <2>1, PushRuns, N \in Nat
    <2> QED BY <2>1, <2>2
  <1>10. PICK u0, v : u0 = u[0] /\ v = push_cb(u0, push) /\ Push(call) = v
    <2>1. call.pushes[1] = push /\ 1 \in 1..1 /\ 1 - 1 = 0
      BY <1>8
    <2> QED BY <1>9, <2>1
  <1>11. IsUser(u0, r, block, m, link)
    BY <1>1, <1>2, <1>9, <1>10 DEF IsUser
  <1>12. PICK B : B = Overwrite(block, r, push.data)
    OBVIOUS
  <1>13. B \in [1..MaxP -> Pairs] /\ Holds(B, m, n * MaxP, r)
    <2>1. PICK from \in Nat, o \in Nat : from = n * MaxP /\ o = from + r
      BY MaxPFacts
    <2>2. push.data = BytesOf(m, o, 0)
      BY <1>3, <1>8, <2>1, NoBytes
    <2>3. PICK d \in Nat : d = 0
      OBVIOUS
    <2>4. r \in 0..MaxP /\ r = r + d /\ r <= MaxP
      BY <2>3, MaxPFacts
    <2>5. PICK D : D = push.data
      OBVIOUS
    <2>6. D = BytesOf(m, o, d) /\ B = Overwrite(block, r, D)
      BY <1>12, <2>2, <2>3, <2>5
    <2>7. Holds(block, m, from, r)
      BY <1>2, <2>1
    <2>8. B \in [1..MaxP -> Pairs] /\ Holds(B, m, from, r)
      BY <1>2, <1>3, <2>1, <2>4, <2>6, <2>7, BlockFilled
    <2> QED BY <2>1, <2>8
  <1>14. PICK f : f = [header |-> mp_header_pack(push.header), payload |-> B, msg |-> m]
    OBVIOUS
  <1>15. PICK y : y = Append(link, f)
    OBVIOUS
  <1>16. IsUser(v, 0, B, m, y)
    BY <1>6, <1>8, <1>10, <1>11, <1>12, <1>14, <1>15, PushCbFrame
  <1>17. v.written = y
    BY <1>16, UserData
  <1>18. /\ mp_header_unpack(mp_header_pack(h)) = h
         /\ mp_header_pack(h) \in Byte \X Byte \X Byte \X Byte
    BY <1>6, HeaderRoundTrip
  <1>19. /\ f \in Frames /\ f.msg = m /\ f.payload = B /\ mp_header_unpack(f.header) = h
    BY <1>3, <1>8, <1>13, <1>14, <1>18 DEF Frames
  <1>20. Ended(f, m, n, r)
    BY <1>6, <1>13, <1>19 DEF Ended, Slice, Eop, Size
  <1> QED BY <1>10, <1>15, <1>17, <1>20

\* The last frame of a message that fits carries a slice of it.
LEMMA EndedCarries ==
    ASSUME NEW S, SentOK(S), NEW p, NEW coord, NEW n \in Nat, NEW r \in 0..(MaxP - 1),
           Sending(p, S, coord, n, r), NEW m, m = Len(S), NEW f, Ended(f, m, n, r)
    PROVE  Carries(f, S)
  <1>1. m \in 1..Len(S) /\ S[m] \in Nat /\ Fits(S[m])
    <2>1. Len(S) \in Nat
      BY SentFacts
    <2>2. Len(S) # 0
      BY DEF Sending
    <2>3. m \in 1..Len(S)
      BY <2>1, <2>2
    <2> QED BY <2>3, SentFacts
  <1>2. n * MaxP + r <= S[m]
    BY DEF Sending
  <1>3. r \in 0..MaxP /\ r < MaxP
    BY MaxPFacts
  <1>4. n \in SliceIds
    BY <1>1, <1>2, <1>3, SliceInMessage
  <1>5. /\ f \in Frames /\ f.msg = m /\ Slice(f) = n /\ Eop(f) = 1 /\ Size(f) = r
        /\ Holds(f.payload, m, n * MaxP, r)
    BY DEF Ended
  <1> QED BY <1>1, <1>2, <1>3, <1>4, <1>5 DEF Carries

\* The last slice goes from the process to the link.
LEMMA EofMoves ==
    ASSUME NEW L, NEW p, NEW S, SentOK(S), LinkOK(L, S, p), NEW coord,
           NEW n \in Nat, NEW r \in 0..(MaxP - 1), Sending(p, S, coord, n, r),
           0 < n * MaxP + r, NEW m, m = Len(S), NEW p1, p1 = NoProcess,
           NEW f, Ended(f, m, n, r), NEW L1, L1 = Append(L, f)
    PROVE  /\ LessAway(L, p, S, L1, p1, S) /\ LinkOK(L1, S, p1)
           /\ n * MaxP + r = S[m] => KeepsClean(L, p, S, L1, p1, S)
           /\ KeepsTrack(L, p, S, L1, p1, S)
  <1>0. /\ Len(S) \in Nat /\ L \in Seq(Frames) /\ Len(L) \in Nat
        /\ Len(S) # 0 /\ m \in 1..Len(S) /\ m \in Nat /\ S[m] \in Nat
    <2>1. Len(S) \in Nat /\ L \in Seq(Frames)
      BY SentFacts DEF LinkOK
    <2>2. Len(S) # 0
      BY DEF Sending
    <2>3. m \in 1..Len(S) /\ m \in Nat
      BY <2>1, <2>2
    <2> QED BY <2>1, <2>2, <2>3, LenProperties, SentFacts
  <1>1. p # NoProcess
    BY SendingFacts
  <1>2. \A x : (Running(p, S, x) <=> x = m) /\ ~ Running(p1, S, x)
    BY <1>1 DEF Running
  <1>3. \A x, i \in Nat : Unsent(p, S, x, i) <=> x = m /\ n <= i
    <2>1. SentUpTo(p, S, n)
      BY SendingFacts
    <2> QED BY ONLY <2>1, m = Len(S) DEF SentUpTo
  <1>4. \A x, i : ~ Unsent(p1, S, x, i)
    BY <1>2 DEF Unsent
  <1>5. /\ f \in Frames /\ f.msg = m /\ Slice(f) = n /\ Eop(f) = 1 /\ Size(f) = r
        /\ Holds(f.payload, m, n * MaxP, r)
    BY DEF Ended
  <1>6. /\ L1 \in Seq(Frames) /\ Len(L1) = Len(L) + 1
        /\ \A j \in 1..Len(L) : L1[j] = L[j]
        /\ L1[Len(L) + 1] = f
    BY <1>0, <1>5, AppendProperties
  <1>7. Grown(L, L1, m, n, 1, 1)
    <2>1. \A j \in 1..1 : /\ L1[Len(L) + j].msg = m /\ Slice(L1[Len(L) + j]) = n + j - 1
                          /\ Eop(L1[Len(L) + j]) = 1
      <3> TAKE j \in 1..1
      <3>1. j = 1 /\ n + j - 1 = n
        OBVIOUS
      <3> QED BY <1>5, <1>6, <3>1
    <2> QED BY <1>6, <2>1 DEF Grown
  <1>8. With(L, L1, m, n, 1, 1)
    <2>1. 1 \in Nat
      OBVIOUS
    <2> QED BY <1>0, <1>7, <2>1, GrownLink
  <1>9. \A j : j \in n..(n + 1 - 1) <=> j = n
    OBVIOUS
  <1>10. \A x, i \in Nat : OnLink(L1, x, i) <=> OnLink(L, x, i) \/ (x = m /\ i = n)
    BY <1>8, <1>9 DEF With
  <1>11. \A x, i \in Nat : EndsAt(L1, x, i) => EndsAt(L, x, i) \/ (x = m /\ i = n)
    BY <1>8, <1>9 DEF With
  <1>12. \A x \in 1..Len(S) : x \in Nat /\ x <= m
    BY <1>0
  <1>13. \A x, i \in Nat : Away(L1, p1, S, x, i) <=> OnLink(L, x, i) \/ (x = m /\ i = n)
    BY <1>4, <1>10 DEF Away
  <1>14. \A x, i \in Nat : Away(L, p, S, x, i) <=> OnLink(L, x, i) \/ (x = m /\ n <= i)
    BY <1>3 DEF Away
  <1>15. LessAway(L, p, S, L1, p1, S)
    <2>1. \A x \in Nat : x <= m /\ IsHead(L, x) => IsHead(L1, x)
      BY <1>8 DEF With
    <2>2. \A x \in 1..Len(S), i \in Nat : Away(L1, p1, S, x, i) => Away(L, p, S, x, i)
      BY <1>12, <1>13, <1>14
    <2> QED BY <1>2, <1>10, <1>11, <1>12, <2>1, <2>2 DEF LessAway
  <1>16. Carries(f, S) /\ 0 < Slice(f) * MaxP + Size(f)
    <2>1. Carries(f, S)
      BY EndedCarries
    <2> QED BY <1>5, <2>1
  <1>17. LinkOK(L1, S, p1)
    <2>1. FrameOK(f, S, p1)
      BY <1>2, <1>4, <1>16 DEF FrameOK
    <2>2. \A j \in 1..1 : FrameOK(L1[Len(L) + j], S, p1)
      BY <1>6, <2>1
    <2>3. 1 \in Nat /\ 1 \in 0..1 /\ (1 = 1 => 1 = 1)
      OBVIOUS
    <2>4. \A y : Running(p1, S, y) => Running(p, S, y)
      BY <1>2
    <2>5. \A y, j \in Nat : Unsent(p1, S, y, j) => Unsent(p, S, y, j)
      BY <1>4
    <2>6. PICK q \in Nat, x \in 0..1 : q = 1 /\ x = 1
      BY <2>3
    <2>7. Grown(L, L1, m, n, q, x) /\ \A j \in 1..q : FrameOK(L1[Len(L) + j], S, p1)
      BY <1>7, <2>2, <2>6
    <2>8. /\ LinkOK(L, S, p) /\ n \in Nat /\ r \in 0..(MaxP - 1) /\ Sending(p, S, coord, n, r)
          /\ m = Len(S) /\ m \in Nat /\ q \in Nat /\ x \in 0..1 /\ (x = 1 => q = 1)
          /\ Grown(L, L1, m, n, q, x)
      BY <1>0, <2>6, <2>7
    <2>9. NothingMoreToSend(p, S, p1)
      BY ONLY <2>4, <2>5 DEF NothingMoreToSend
    <2>10. NewFramesOK(L, L1, q, S, p1)
      BY ONLY <2>7 DEF NewFramesOK
    <2> QED BY ONLY <2>8, <2>9, <2>10, LinkMore
  <1>18. ASSUME n * MaxP + r = S[m] PROVE KeepsClean(L, p, S, L1, p1, S)
    <2>0. ASSUME NEW k \in 1..Len(L1) PROVE (\E a \in 1..Len(L) : L1[k] = L[a]) \/ L1[k] = f
      BY <1>0, <1>6
    <2>1. ASSUME EndsWhole(L, S) PROVE EndsWhole(L1, S)
      <3> SUFFICES ASSUME NEW k \in 1..Len(L1), Eop(L1[k]) = 1
                   PROVE  Slice(L1[k]) * MaxP + Size(L1[k]) = S[L1[k].msg]
        BY DEF EndsWhole
      <3>1. CASE L1[k] = f
        BY <1>5, <1>18, <3>1
      <3>2. CASE \E a \in 1..Len(L) : L1[k] = L[a]
        BY <2>1, <3>2 DEF EndsWhole
      <3> QED BY <2>0, <3>1, <3>2
    <2>2. ASSUME NEW x \in 1..Len(S), NEW i \in Nat
          PROVE  Come(L1, p1, S, x, i) <=> Come(L, p, S, x, i)
      <3>1. i * MaxP <= S[m] => i <= n
        <4>1. ASSUME n < i PROVE S[m] < i * MaxP
          <5>1. n * MaxP + MaxP <= i * MaxP /\ n * MaxP \in Nat /\ i * MaxP \in Nat
            BY <4>1, SliceOrder
          <5>2. r < MaxP /\ r \in Nat /\ MaxP \in Nat
            BY MaxPFacts
          <5> QED BY <1>18, <5>1, <5>2
        <4>2. i * MaxP \in Nat
          BY SliceOrder
        <4> QED BY <1>0, <4>1, <4>2
      <3>2. i * MaxP <= S[m] => (i = n <=> n <= i)
        BY <3>1
      <3>3. (Away(L1, p1, S, x, i) <=> OnLink(L, x, i) \/ (x = m /\ i = n))
            /\ (Away(L, p, S, x, i) <=> OnLink(L, x, i) \/ (x = m /\ n <= i))
        BY <1>12, <1>13, <1>14
      <3> QED BY <3>2, <3>3 DEF Come
    <2>3. (Len(S) + 1)..Len(S) = {}
      BY <1>0
    <2>4. ASSUME NEW c \in 0..Len(S), \A k \in 1..Len(L) : c < L[k].msg,
                 c = Len(S) => p = NoProcess, NEW k \in 1..Len(L1)
          PROVE  c < L1[k].msg
      <3>1. c < m
        BY <1>0, <1>1, <2>4
      <3>2. CASE L1[k] = f
        BY <1>5, <3>1, <3>2
      <3>3. CASE \E a \in 1..Len(L) : L1[k] = L[a]
        BY <2>4, <3>3
      <3> QED BY <2>0, <3>2, <3>3
    <2> QED BY <2>1, <2>2, <2>3, <2>4 DEF KeepsClean
  <1>19. ASSUME NEW B, TrackOK(L, S, p, B) PROVE TrackOK(L1, S, p1, B)
    <2> SUFFICES ASSUME NEW x \in Nat, NEW j \in Nat, Behind(L1, p1, S, x, j),
                        ~ OnLink(L1, x, j)
                 PROVE  IsHead(L1, x) /\ j \in B
      BY DEF TrackOK
    <2>1. PICK e \in Nat : EndsAt(L1, x, e) /\ j < e
      BY <1>2 DEF Behind
    <2>2. Behind(L, p, S, x, j) /\ x <= m
      <3>1. CASE EndsAt(L, x, e)
        <4>1. PICK k \in 1..Len(L) : L[k].msg = x
          BY <3>1 DEF EndsAt
        <4>2. x \in 1..Len(S)
          BY <4>1, FrameFacts
        <4> QED BY <1>12, <2>1, <3>1, <4>2 DEF Behind
      <3>2. CASE x = m /\ e = n
        <4>1. ~ (n <= j)
          BY <2>1, <3>2
        <4> QED BY <1>0, <1>2, <1>3, <3>2, <4>1 DEF Behind
      <3> QED BY <1>11, <2>1, <3>1, <3>2
    <2>3. ~ OnLink(L, x, j)
      BY <1>10
    <2>4. IsHead(L, x) /\ j \in B
      BY <1>19, <2>2, <2>3 DEF TrackOK
    <2> QED BY <1>8, <2>2, <2>4 DEF With
  <1> QED BY <1>15, <1>17, <1>18, <1>19 DEF KeepsTrack

\* What the session of tx is after finalize, or was if tx is killed before it saves it
Saves(call, coord, coord1) ==
    coord1 = [call.stream.cursor EXCEPT !.package_id = (@ + 1) % U8, !.offset = 0]
    \/ coord1 = coord

\* Frame f, slice n of the last message with r bytes, is the last one that p sends.
EndsWith(p, S, coord, L, L1, f, n, r) ==
    /\ n \in Nat /\ r \in 0..(MaxP - 1) /\ Sending(p, S, coord, n, r)
    /\ p.read = n * MaxP + r /\ Ended(f, Len(S), n, r) /\ L1 = Append(L, f)

\* What the end of the input makes of the link and of the session
LEMMA EofSends ==
    ASSUME SentOK(sent), SessionOK(txSession), TxOK(tx, sent, txSession), tx # NoProcess,
           link \in Seq(Frames), NEW call, call = mp_tx_stream_finalize(tx.stream),
           NEW L1, L1 = Push(call).written, NEW coord1, Saves(call, txSession, coord1)
    PROVE  SessionOK(coord1) /\ \E f, n, r : EndsWith(tx, sent, txSession, link, L1, f, n, r)
  <1>2. PICK n \in Nat, r \in 0..(MaxP - 1) : Sending(tx, sent, txSession, n, r)
    BY DEF TxOK
  <1>3. PICK m : m = Len(sent)
    OBVIOUS
  <1>4. /\ tx.read = n * MaxP + r /\ CursorAt(tx.stream.cursor, txSession, n)
        /\ tx.stream.fill = r
    <2>1. Fields(tx, sent, txSession, n, r)
      BY ONLY <1>2, SendingFacts, n \in Nat, r \in 0..(MaxP - 1)
    <2> QED BY ONLY <1>3, <2>1 DEF Fields
  <1>7. PICK f : Ended(f, m, n, r) /\ L1 = Append(link, f)
    BY <1>2, <1>3, EofWrites
  <1>9. SessionOK(coord1)
    <2>a. CASE coord1 = txSession
      BY <2>a
    <2>b. CASE coord1 = [call.stream.cursor EXCEPT !.package_id = (@ + 1) % U8, !.offset = 0]
      <3>1. PICK c, c1 : c = tx.stream.cursor /\ c1 = mp_tx_prepare(TU, c, r, TRUE).next
        OBVIOUS
      <3>2. call.stream.cursor = c1
        BY <1>4, <3>1 DEF mp_tx_stream_finalize
      <3>3. CursorAt(c, txSession, n)
            /\ coord1 = [c1 EXCEPT !.package_id = (@ + 1) % U8, !.offset = 0]
        BY <1>4, <2>b, <3>1, <3>2
      <3> QED BY ONLY <3>1, <3>3, NextSession
    <2> QED BY <2>a, <2>b DEF Saves
  <1>10. EndsWith(tx, sent, txSession, link, L1, f, n, r)
    BY <1>2, <1>3, <1>4, <1>7 DEF EndsWith
  <1> QED BY <1>9, <1>10

\* The end of the input keeps the invariant, if a byte was read.
LEMMA EofStep ==
    ASSUME ToolsOK(txSession, tx, link, sent, out), tx # NoProcess,
           NEW st, NEW A, ReceiverOK(st, A, link, tx, sent, out, faults),
           tx.read = sent[Len(sent)] \/ faults, tx.read # 0,
           NEW call, call = mp_tx_stream_finalize(tx.stream),
           NEW L1, L1 = Push(call).written, NEW coord1, Saves(call, txSession, coord1),
           NEW p1, p1 = NoProcess
    PROVE  /\ ToolsOK(coord1, p1, L1, sent, out)
           /\ ReceiverOK(st, A, L1, p1, sent, out, faults)
  <1>1. /\ SentOK(sent) /\ SessionOK(txSession) /\ TxOK(tx, sent, txSession)
        /\ LinkOK(link, sent, tx) /\ OutOK(out, link, tx, sent)
    BY DEF ToolsOK
  <1>2. /\ SessionOK(coord1)
        /\ \E f, n, r : EndsWith(tx, sent, txSession, link, L1, f, n, r)
    <2>1. link \in Seq(Frames)
      BY <1>1 DEF LinkOK
    <2> QED BY <1>1, <2>1, EofSends
  <1>3. PICK f, n, r : EndsWith(tx, sent, txSession, link, L1, f, n, r)
    BY <1>2
  <1>4. PICK m : m = Len(sent)
    OBVIOUS
  <1>5. /\ n \in Nat /\ r \in 0..(MaxP - 1) /\ Sending(tx, sent, txSession, n, r)
        /\ tx.read = n * MaxP + r /\ Ended(f, m, n, r) /\ L1 = Append(link, f)
    BY <1>3, <1>4 DEF EndsWith
  <1>6. 0 < n * MaxP + r /\ (~ faults => n * MaxP + r = sent[m])
    <2>1. n * MaxP + r \in Nat
      BY <1>5, MaxPFacts
    <2>2. n * MaxP + r # 0
      BY <1>5
    <2>3. ~ faults => n * MaxP + r = sent[m]
      BY <1>4, <1>5
    <2> QED BY <2>1, <2>2, <2>3
  <1>8. /\ LessAway(link, tx, sent, L1, p1, sent) /\ LinkOK(L1, sent, p1)
        /\ n * MaxP + r = sent[m] => KeepsClean(link, tx, sent, L1, p1, sent)
        /\ KeepsTrack(link, tx, sent, L1, p1, sent)
    <2>1. SentOK(sent) /\ LinkOK(link, sent, tx) /\ Sending(tx, sent, txSession, n, r)
          /\ 0 < n * MaxP + r /\ m = Len(sent) /\ p1 = NoProcess /\ Ended(f, m, n, r)
          /\ L1 = Append(link, f) /\ n \in Nat /\ r \in 0..(MaxP - 1)
      BY <1>1, <1>4, <1>5, <1>6
    <2> QED BY ONLY <2>1, EofMoves
  <1>10. Extends(sent, sent)
    BY <1>1, SentFacts DEF Extends
  <1>11. OutOK(out, L1, p1, sent)
    BY ONLY <1>1, <1>8, <1>10, DeliveredKept
  <1>12. TrackOK(L1, sent, p1, st.bitmap)
    BY <1>8 DEF ReceiverOK, KeepsTrack
  <1>13. ReceiverOK(st, A, L1, p1, sent, out, faults)
    BY <1>1, <1>6, <1>8, <1>10, <1>12, ReceiverKept
  <1>14. TxOK(p1, sent, coord1)
    BY DEF TxOK
  <1> QED BY <1>1, <1>2, <1>8, <1>11, <1>13, <1>14 DEF ToolsOK

\* tx is killed: what it had not written never comes.
LEMMA KilledStep ==
    ASSUME NEW coord, NEW p, NEW L, NEW S, NEW O, ToolsOK(coord, p, L, S, O),
           NEW st, NEW A, NEW flt, flt = TRUE, ReceiverOK(st, A, L, p, S, O, flt),
           NEW p1, p1 = NoProcess
    PROVE  ToolsOK(coord, p1, L, S, O) /\ ReceiverOK(st, A, L, p1, S, O, flt)
  <1>1. SentOK(S) /\ SessionOK(coord) /\ LinkOK(L, S, p) /\ OutOK(O, L, p, S)
    BY DEF ToolsOK
  <1>2. \A m : ~ Running(p1, S, m) /\ \A i : ~ Unsent(p1, S, m, i)
    BY NothingRuns
  <1>3. LessAway(L, p, S, L, p1, S)
    BY <1>2 DEF LessAway, Away
  <1>4. LinkOK(L, S, p1)
    <2>1. \A k \in 1..Len(L) : FrameOK(L[k], S, p1)
      BY <1>1, <1>2 DEF LinkOK, FrameOK
    <2> QED BY <1>1, <2>1 DEF LinkOK
  <1>5. Extends(S, S)
    BY <1>1, SentFacts DEF Extends
  <1>6. OutOK(O, L, p1, S)
    BY ONLY <1>1, <1>3, <1>5, DeliveredKept
  <1>7. TrackOK(L, S, p1, st.bitmap)
    <2>1. TrackOK(L, S, p, st.bitmap)
      BY DEF ReceiverOK
    <2>2. \A m, j : Behind(L, p1, S, m, j) => Behind(L, p, S, m, j)
      BY <1>2 DEF Behind
    <2> QED BY <2>1, <2>2 DEF TrackOK
  <1>8. ReceiverOK(st, A, L, p1, S, O, flt)
    BY <1>1, <1>3, <1>5, <1>7, ReceiverKept
  <1>9. TxOK(p1, S, coord)
    BY DEF TxOK
  <1> QED BY <1>1, <1>4, <1>6, <1>8, <1>9 DEF ToolsOK

-----------------------------------------------------------------------------
(* rx takes a frame off the link                                               *)

\* The frames of L1 are frames of L.
NoneNew(L, L1) == \A j \in 1..Len(L1) : IsOld(L, L1[j])

\* Frame f, the slice i of message m with z bytes and the eop bit x, is taken off
\* link L, and L1 is left.
Takes(L, S, p, f, m, i, z, x, L1) ==
    /\ LinkOK(L, S, p) /\ LinkOK(L1, S, p) /\ Without(L, L1, m, i)
    /\ m = f.msg /\ i = Slice(f) /\ z = Size(f) /\ x = Eop(f)
    /\ IsHead(L, m) /\ OnLink(L, m, i) /\ Carries(f, S) /\ 0 < i * MaxP + z
    /\ ~ Unsent(p, S, m, i) /\ (Running(p, S, m) => x = 0) /\ (x = 1 => EndsAt(L, m, i))
    /\ IsOld(L, f) /\ NoneNew(L, L1)

\* The end that is known with slice i of z bytes and the eop bit x, e and r being
\* the end that was known
EndWith(i, z, x, e, r, e1, r1) ==
    /\ e1 = (IF x = 1 THEN i ELSE e) /\ r1 = (IF x = 1 THEN z ELSE r)

\* Every frame that rx may take next is taken like that.
LEMMA FrameTaken ==
    ASSUME NEW L, NEW S, NEW p, LinkOK(L, S, p), NEW k \in 1..Len(L), L[k].msg = L[1].msg,
           NEW f, f = L[k], NEW m, m = f.msg, NEW i, i = Slice(f), NEW z, z = Size(f),
           NEW x, x = Eop(f), NEW L1, L1 = RemoveAt(L, k)
    PROVE  Takes(L, S, p, f, m, i, z, x, L1)
  <1>1. /\ Carries(f, S) /\ ~ Unsent(p, S, m, i) /\ (Running(p, S, m) => x = 0)
        /\ OnLink(L, m, i) /\ (x = 1 => EndsAt(L, m, i)) /\ 0 < i * MaxP + z
    BY FrameFacts
  <1>2. m = L[1].msg
    OBVIOUS
  <1>3. IsHead(L, m)
    BY <1>2, HeadIsFirst
  <1>4. LinkOK(L1, S, p) /\ Without(L, L1, m, i) /\ NoneNew(L, L1)
    BY LinkLess DEF NoneNew, IsOld
  <1>5. IsOld(L, f)
    BY DEF IsOld
  <1>6. m = f.msg /\ i = Slice(f) /\ z = Size(f) /\ x = Eop(f) /\ LinkOK(L, S, p)
    OBVIOUS
  <1>7. Takes(L, S, p, f, m, i, z, x, L1)
    BY ONLY <1>1, <1>3, <1>4, <1>5, <1>6 DEF Takes
  <1> QED BY <1>7

\* The numbers of such a frame
LEMMA TakesFacts ==
    ASSUME NEW L, NEW S, NEW p, NEW f, NEW m, NEW i, NEW z, NEW x, NEW L1,
           SentOK(S), Takes(L, S, p, f, m, i, z, x, L1)
    PROVE  /\ m \in 1..Len(S) /\ m \in Nat /\ i \in Nat /\ i \in SliceIds /\ i < U8
           /\ z \in 0..MaxP /\ z \in Nat /\ x \in 0..1
           /\ S[m] \in Nat /\ Fits(S[m])
           /\ i * MaxP \in Nat /\ i * MaxP + z <= S[m] /\ 0 < i * MaxP + z
           /\ i * MaxP < U16 /\ i * MaxP + z < U16
           /\ (x = 0 => z = MaxP /\ i + 1 < U8) /\ (x = 1 => z < MaxP)
           /\ (0 < z => (i + 1) * MaxP < U16)
           /\ Holds(f.payload, m, i * MaxP, z) /\ f \in Frames
           /\ MaxP \in Nat \ {0} /\ Len(S) \in Nat
  <1>1. /\ Carries(f, S) /\ m = f.msg /\ i = Slice(f) /\ z = Size(f) /\ x = Eop(f)
        /\ 0 < i * MaxP + z
    BY DEF Takes
  <1>2. /\ f \in Frames /\ m \in 1..Len(S) /\ i \in SliceIds /\ z \in 0..MaxP /\ x \in 0..1
        /\ i * MaxP + z <= S[m] /\ (x = 0 => z = MaxP)
        /\ (x = 1 => z < MaxP) /\ Holds(f.payload, m, i * MaxP, z)
    BY <1>1 DEF Carries
  <1>3. S[m] \in Nat /\ Fits(S[m]) /\ m \in Nat /\ Len(S) \in Nat
    BY <1>2, SentFacts
  <1>4. i \in Nat /\ i < U8 /\ z \in Nat /\ MaxP \in Nat \ {0}
    BY <1>2, MaxPFacts, Widths DEF SliceIds
  <1>6. /\ i * MaxP \in Nat /\ i * MaxP < U16 /\ i * MaxP + z < U16
        /\ (z = MaxP => i + 1 < U8) /\ (0 < z => (i + 1) * MaxP < U16)
    BY <1>2, <1>3, <1>4, SliceInMessage
  <1> QED BY <1>1, <1>2, <1>3, <1>4, <1>6

\* Only that slice has reached rx.
LEMMA TakesAway ==
    ASSUME NEW L, NEW S, NEW p, NEW f, NEW m, NEW i, NEW z, NEW x, NEW L1,
           Takes(L, S, p, f, m, i, z, x, L1)
    PROVE  /\ \A y, j \in Nat : Away(L1, p, S, y, j) <=> Away(L, p, S, y, j) /\ ~ (y = m /\ j = i)
           /\ Away(L, p, S, m, i)
  <1>1. /\ \A y, j \in Nat : OnLink(L1, y, j) <=> OnLink(L, y, j) /\ ~ (y = m /\ j = i)
        /\ ~ Unsent(p, S, m, i) /\ OnLink(L, m, i)
    BY DEF Takes, Without
  <1> QED BY <1>1 DEF Away

\* Slices that are behind are on the link still, or in the bitmap.
LEMMA TakesTrack ==
    ASSUME NEW L, NEW S, NEW p, NEW f, NEW m, NEW i, NEW z, NEW x, NEW L1,
           Takes(L, S, p, f, m, i, z, x, L1), m \in Nat, i \in Nat, NEW B, TrackOK(L, S, p, B),
           NEW B1, B1 = B \union {i}
    PROVE  TrackOK(L1, S, p, B1)
  <1>1. Without(L, L1, m, i) /\ IsHead(L, m)
    BY DEF Takes
  <1> SUFFICES ASSUME NEW y \in Nat, NEW j \in Nat, Behind(L1, p, S, y, j)
               PROVE  OnLink(L1, y, j) \/ (IsHead(L1, y) /\ j \in B1)
    BY DEF TrackOK
  <1>2. Behind(L, p, S, y, j)
    BY <1>1 DEF Behind, Without
  <1>3. OnLink(L, y, j) \/ (IsHead(L, y) /\ j \in B)
    BY <1>2 DEF TrackOK
  <1>4. CASE OnLink(L, y, j) /\ ~ (y = m /\ j = i)
    BY <1>1, <1>4 DEF Without
  <1>5. CASE y = m /\ j = i
    BY <1>1, <1>5 DEF Without
  <1>6. CASE IsHead(L, y) /\ j \in B
    BY <1>1, <1>6 DEF Without
  <1> QED BY <1>3, <1>4, <1>5, <1>6

\* The message that ended is the one of the frame.
LEMMA EndedIsHead ==
    ASSUME NEW L, NEW S, NEW p, NEW f, NEW m, NEW i, NEW z, NEW x, NEW L1,
           SentOK(S), Takes(L, S, p, f, m, i, z, x, L1),
           NEW B, NEW g \in Nat, g \notin B, NEW e \in Nat, g < e, NEW y \in Nat,
           EndedAs(L, p, S, B, e, y)
    PROVE  y = m /\ x = 0
  <1>1. IsHead(L, m) /\ OnLink(L, m, i) /\ (x = 1 => EndsAt(L, m, i))
    BY DEF Takes
  <1>2. m \in Nat /\ i \in Nat /\ x \in 0..1
    BY TakesFacts
  <1>3. OnLink(L, y, g) /\ IsHead(L, y) /\ \A j \in Nat : ~ EndsAt(L, y, j)
    <2>1. g \in 0..e
      OBVIOUS
    <2> QED BY <2>1 DEF EndedAs
  <1>4. y = m
    BY <1>1, <1>2, <1>3, OneHead
  <1> QED BY <1>1, <1>2, <1>3, <1>4

\* What is missing of the message that ended is on the link still.
LEMMA TakesEnded ==
    ASSUME NEW L, NEW S, NEW p, NEW f, NEW m, NEW i, NEW z, NEW x, NEW L1,
           SentOK(S), Takes(L, S, p, f, m, i, z, x, L1), NEW B, TrackOK(L, S, p, B),
           NEW g \in Nat, g \notin B, NEW e \in Nat, e # NoEnd => g < e,
           EndedAt(L, p, S, B, e), NEW e1, e1 = (IF x = 1 THEN i ELSE e), e1 # NoEnd,
           NEW B1, B1 = B \union {i}
    PROVE  EndedAs(L1, p, S, B1, e1, m)
  <1>0. /\ Without(L, L1, m, i) /\ IsHead(L, m) /\ LinkOK(L, S, p)
        /\ (Running(p, S, m) => x = 0) /\ (x = 1 => EndsAt(L, m, i))
    BY DEF Takes
  <1>a. m \in 1..Len(S) /\ m \in Nat /\ i \in Nat /\ x \in 0..1
    BY TakesFacts
  <1>1. CASE x = 0
    <2>1. e1 = e
      BY <1>1
    <2>2. PICK y \in Nat : EndedAs(L, p, S, B, e, y)
      BY <2>1 DEF EndedAt
    <2>a. y = m
      BY <2>1, <2>2, EndedIsHead
    <2>3. ASSUME NEW j \in 0..e PROVE j \in B1 \/ OnLink(L1, y, j)
      <3>1. j \in Nat /\ (j \in B \/ OnLink(L, y, j))
        BY <2>2 DEF EndedAs
      <3> QED BY <1>0, <3>1 DEF Without
    <2>4. /\ y \in 1..Len(S) /\ IsHead(L1, y) /\ ~ Running(p, S, y)
          /\ \A j \in Nat : ~ EndsAt(L1, y, j)
      BY <1>0, <2>2 DEF EndedAs, Without
    <2>5. EndedAs(L1, p, S, B1, e, y)
      BY <2>3, <2>4 DEF EndedAs
    <2> QED BY <2>1, <2>a, <2>5
  <1>2. CASE x = 1
    <2>1. e1 = i /\ EndsAt(L, m, i) /\ ~ Running(p, S, m)
      BY <1>0, <1>2
    <2>2. ASSUME NEW j \in Nat, EndsAt(L1, m, j) PROVE FALSE
      <3>1. EndsAt(L, m, j) /\ j # i
        BY <1>0, <1>a, <2>2 DEF Without
      <3>2. PICK a \in 1..Len(L) : L[a].msg = m /\ Slice(L[a]) = j /\ Eop(L[a]) = 1
        BY <3>1 DEF EndsAt
      <3>3. PICK b \in 1..Len(L) : L[b].msg = m /\ Slice(L[b]) = i /\ Eop(L[b]) = 1
        BY <2>1 DEF EndsAt
      <3>4. j <= i /\ i <= j
        BY <1>0, <3>2, <3>3 DEF LinkOK, Ordered
      <3> QED BY <1>a, <3>1, <3>4
    <2>3. ASSUME NEW j \in 0..i PROVE j \in B1 \/ OnLink(L1, m, j)
      <3>1. j \in Nat /\ j <= i
        BY <1>a
      <3>2. CASE j = i
        BY <3>2
      <3>3. CASE j # i
        <4>1. j < i
          BY <1>a, <3>1, <3>3
        <4>2. Behind(L, p, S, m, j)
          BY <1>a, <2>1, <4>1 DEF Behind
        <4>3. OnLink(L, m, j) \/ j \in B
          BY <1>a, <3>1, <4>2 DEF TrackOK
        <4> QED BY <1>0, <1>a, <3>1, <3>3, <4>3 DEF Without
      <3> QED BY <3>2, <3>3
    <2>4. IsHead(L1, m)
      BY <1>0, <1>a DEF Without
    <2>5. EndedAs(L1, p, S, B1, i, m)
      BY <1>a, <2>1, <2>2, <2>3, <2>4 DEF EndedAs
    <2> QED BY <2>1, <2>5
  <1> QED BY <1>a, <1>1, <1>2

\* When nothing is missing of the message that ended, the bitmap is not needed any
\* more to account for the slices that are behind.
LEMMA TrackAfresh ==
    ASSUME NEW L, NEW S, NEW p, NEW f, NEW m, NEW i, NEW z, NEW x, NEW L1,
           SentOK(S), Takes(L, S, p, f, m, i, z, x, L1), NEW B, TrackOK(L, S, p, B),
           NEW B1, NEW e1, EndedAs(L1, p, S, B1, e1, m)
    PROVE  TrackOK(L1, S, p, {})
  <1>0. Without(L, L1, m, i) /\ IsHead(L, m) /\ OnLink(L, m, i)
        /\ \A j \in 1..Len(L1) : IsOld(L, L1[j])
    BY DEF Takes, NoneNew
  <1>1. m \in 1..Len(S) /\ m \in Nat /\ i \in Nat /\ Len(S) \in Nat
    BY TakesFacts
  <1> SUFFICES ASSUME NEW y \in Nat, NEW j \in Nat, Behind(L1, p, S, y, j)
               PROVE  OnLink(L1, y, j)
    BY DEF TrackOK
  <1>2. y # m
    BY DEF EndedAs, Behind
  <1>3. Behind(L, p, S, y, j)
    BY <1>0 DEF Behind, Without
  <1>4. m <= y
    <2>1. CASE Running(p, S, y)
      BY <1>1, <2>1 DEF Running
    <2>2. CASE ~ Running(p, S, y)
      <3>1. PICK e \in Nat : EndsAt(L1, y, e)
        BY <2>2 DEF Behind
      <3>2. PICK a \in 1..Len(L1) : L1[a].msg = y
        BY <3>1 DEF EndsAt
      <3>3. PICK b \in 1..Len(L) : L1[a] = L[b]
        BY <1>0 DEF IsOld
      <3> QED BY <1>0, <3>2, <3>3 DEF IsHead
    <2> QED BY <2>1, <2>2
  <1>5. ~ IsHead(L, y)
    <2>1. ASSUME IsHead(L, y) PROVE FALSE
      <3>1. y <= m
        BY <1>0, <2>1 DEF OnLink, IsHead
      <3> QED BY <1>1, <1>2, <1>4, <3>1
    <2> QED BY <2>1
  <1>6. OnLink(L, y, j)
    BY <1>3, <1>5 DEF TrackOK
  <1> QED BY <1>0, <1>2, <1>6 DEF Without

-----------------------------------------------------------------------------
(* payload_put                                                                 *)

\* A1 is A with the z bytes of slice i of message m in their place.
PutIn(A, A1, m, i, z) ==
    /\ BufferOK(A1) /\ InBuffer(A1, m, i, z) /\ (0 < z => i * MaxP + z <= AssemblySize)
    /\ \A y, j \in Nat, t \in 0..MaxP :
          j # i /\ (0 < t => j * MaxP + t <= AssemblySize) /\ InBuffer(A, y, j, t)
              => InBuffer(A1, y, j, t)

\* Where a byte of a slice lies
LEMMA ByteOutside ==
    ASSUME NEW i \in Nat, NEW j \in Nat, i # j, NEW z \in 0..MaxP, NEW b \in 1..MaxP,
           NEW a, a = i * MaxP, NEW k, k = j * MaxP + b
    PROVE  k - a \notin 1..z
  <1>1. MaxP \in Nat \ {0} /\ z \in Nat /\ b \in Nat
    BY MaxPFacts
  <1>2. i * MaxP \in Nat /\ j * MaxP \in Nat
    BY SliceOrder
  <1>3. i * MaxP + MaxP <= j * MaxP \/ j * MaxP + MaxP <= i * MaxP
    BY SliceOrder
  <1> QED BY <1>1, <1>2, <1>3

\* A frame is put into the assembly buffer.
LEMMA PutFacts ==
    ASSUME NEW A, BufferOK(A), NEW m \in 0..MaxMessages, NEW i \in Nat, NEW z \in 0..MaxP,
           NEW a, a = i * MaxP, 0 < z => a + z <= AssemblySize, NEW payload \in [1..MaxP -> Pairs],
           Holds(payload, m, a, z), NEW A1, A1 = Overwrite(A, a, SubSeq(payload, 1, z))
    PROVE  PutIn(A, A1, m, i, z)
  <1>0. PICK N : N = AssemblySize
    OBVIOUS
  <1>1. /\ MaxP \in Nat \ {0} /\ z \in Nat /\ z <= MaxP /\ a \in Nat
        /\ A \in Seq(Pairs) /\ Len(A) = N /\ N \in Nat /\ (0 < z => a + z <= N)
        /\ DOMAIN A = 1..N /\ \A k \in 1..N : A[k] \in Pairs
    <2>1. A \in Seq(Pairs) /\ Len(A) = N
      BY <1>0 DEF BufferOK
    <2>2. DOMAIN A = 1..N /\ N \in Nat /\ \A k \in 1..N : A[k] \in Pairs
      BY <2>1, ElementOfSeq, LenProperties
    <2> QED BY <1>0, <2>1, <2>2, MaxPFacts, SliceOrder
  <1>2. PICK data : data = SubSeq(payload, 1, z)
    OBVIOUS
  <1>3. DOMAIN data = 1..z /\ \A b \in 1..z : data[b] = payload[b]
    <2>1. payload \in Seq(Pairs) /\ Len(payload) = MaxP
      BY <1>1
    <2>2. \A k \in 1..z : payload[k] \in Pairs
      BY <1>1
    <2> QED BY <1>1, <1>2, <2>1, <2>2, SubSeqProperties
  <1>4. A1 = [k \in 1..N |-> IF k - a \in 1..z THEN data[k - a] ELSE A[k]]
    BY <1>1, <1>2, <1>3 DEF Overwrite
  <1>5. ASSUME NEW b \in 1..z PROVE data[b] = <<m, a + b - 1>> /\ data[b] \in Pairs
    <2>1. data[b] = <<m, a + b - 1>>
      BY <1>3 DEF Holds
    <2>2. a + b - 1 \in Nat
      BY <1>1
    <2> QED BY <2>1, <2>2 DEF Pairs
  <1>6. BufferOK(A1)
    <2>1. \A k \in 1..N : A1[k] \in Pairs
      BY <1>1, <1>4, <1>5
    <2>2. A1 \in [1..N -> Pairs]
      BY <1>4, <2>1
    <2> QED BY <1>0, <1>1, <2>2 DEF BufferOK
  <1>7. InBuffer(A1, m, i, z)
    <2> SUFFICES ASSUME NEW b \in 1..z PROVE A1[a + b] = <<m, a + b - 1>>
      BY DEF InBuffer
    <2>0. 0 < z
      BY <1>1
    <2>1. PICK k \in 1..N : k = a + b
      BY <1>1, <2>0
    <2>2. k - a = b
      BY <1>1, <2>1
    <2>3. A1[k] = data[b]
      BY <1>4, <2>2
    <2> QED BY <1>5, <2>1, <2>3
  <1>8. ASSUME NEW y \in Nat, NEW j \in Nat, NEW t \in 0..MaxP, j # i,
               0 < t => j * MaxP + t <= N, InBuffer(A, y, j, t)
        PROVE  InBuffer(A1, y, j, t)
    <2> SUFFICES ASSUME NEW b \in 1..t PROVE A1[j * MaxP + b] = <<y, j * MaxP + b - 1>>
      BY DEF InBuffer
    <2>1. j * MaxP \in Nat /\ b \in 1..MaxP /\ 0 < t
      BY <1>1, SliceOrder
    <2>2. PICK k \in 1..N : k = j * MaxP + b
      BY <1>1, <1>8, <2>1
    <2>3. k - a \notin 1..z
      BY ONLY <1>8, <2>1, <2>2, ByteOutside, a = i * MaxP, i \in Nat, j \in Nat, z \in 0..MaxP
    <2>4. A1[k] = A[k]
      BY <1>4, <2>3
    <2>5. A[k] = <<y, j * MaxP + b - 1>>
      BY <1>8, <2>2 DEF InBuffer
    <2> QED BY <2>2, <2>4, <2>5
  <1> QED BY <1>0, <1>6, <1>7, <1>8 DEF PutIn

\* Slices that were pending are pending still, and so is the new one.
LEMMA PendingMore ==
    ASSUME NEW L, NEW S, NEW p, NEW f, NEW m, NEW i, NEW z, NEW x, NEW L1,
           SentOK(S), Takes(L, S, p, f, m, i, z, x, L1),
           NEW B \in SUBSET SliceIds, NEW A, NEW A1, PutIn(A, A1, m, i, z), NEW O,
           OutOK(O, L, p, S), NEW g, NEW e, NEW r \in 0..(MaxP - 1), i \notin B,
           e # NoEnd => e \in B, PendingOK(L, p, S, B, A, O, g, e, r), x = 1 => e = NoEnd,
           NEW e1, e1 = (IF x = 1 THEN i ELSE e), NEW r1, r1 = (IF x = 1 THEN z ELSE r),
           NEW B1, B1 = B \union {i}
    PROVE  PendingOK(L1, p, S, B1, A1, O, g, e1, r1)
  <1>0. /\ m \in 1..Len(S) /\ m \in Nat /\ i \in Nat /\ i \in SliceIds /\ i < U8
        /\ z \in 0..MaxP /\ x \in 0..1 /\ i * MaxP + z <= S[m] /\ MaxP \in Nat \ {0}
        /\ (x = 0 => z = MaxP) /\ (x = 1 => z < MaxP)
    BY TakesFacts
  <1>1. /\ \A y, j \in Nat : Away(L1, p, S, y, j) <=> Away(L, p, S, y, j) /\ ~ (y = m /\ j = i)
        /\ Away(L, p, S, m, i)
    BY <1>0, TakesAway
  <1>2. \A j \in B : j \in Nat /\ j # NoEnd /\ j < U8
    BY Widths DEF SliceIds, NoEnd
  <1>3. ASSUME NEW j \in B, g <= j PROVE Pending(L1, p, S, A1, O, j, Held(j, e1, r1))
    <2>1. j \in Nat /\ j # i /\ Held(j, e1, r1) = Held(j, e, r)
      BY <1>0, <1>2 DEF Held
    <2>2. PICK t : t = Held(j, e, r)
      OBVIOUS
    <2>3. t \in 0..MaxP
      BY <1>0, <2>2 DEF Held
    <2>4. Pending(L, p, S, A, O, j, t)
      BY <1>3, <2>2 DEF PendingOK
    <2>5. PICK y \in Nat : PendingAs(L, p, S, A, O, y, j, t)
      BY <2>4 DEF Pending
    <2>6. /\ y \in 1..Len(S) /\ j * MaxP + t <= S[y] /\ InBuffer(A, y, j, t)
          /\ ~ Away(L, p, S, y, j) /\ Unused(O, y, j)
          /\ (0 < t => j * MaxP + t <= AssemblySize)
      BY <2>5 DEF PendingAs
    <2>8. InBuffer(A1, y, j, t)
      BY <2>1, <2>3, <2>6 DEF PutIn
    <2>9. ~ Away(L1, p, S, y, j)
      BY <1>1, <2>1, <2>6
    <2>10. PendingAs(L1, p, S, A1, O, y, j, t)
      BY <2>6, <2>8, <2>9 DEF PendingAs
    <2> QED BY <2>1, <2>2, <2>10 DEF Pending
  <1>4. Pending(L1, p, S, A1, O, i, Held(i, e1, r1))
    <2>1. Held(i, e1, r1) = z
      <3>1. CASE x = 1
        BY <3>1 DEF Held
      <3>2. CASE x = 0
        <4>1. i # e
          BY <1>0, Widths DEF NoEnd
        <4> QED BY <1>0, <3>2, <4>1 DEF Held
      <3> QED BY <1>0, <3>1, <3>2
    <2>2. ~ Away(L1, p, S, m, i)
      BY <1>0, <1>1
    <2>3. Unused(O, m, i)
      <3> SUFFICES ASSUME NEW k \in 1..Len(O), NEW b \in 0..(MaxP - 1), O[k] = <<m, i * MaxP + b>>
                   PROVE  FALSE
        BY DEF Unused
      <3>1. PICK y \in 1..Len(S), j \in Nat, d \in 0..(MaxP - 1) :
                O[k] = <<y, j * MaxP + d>> /\ ~ Away(L, p, S, y, j)
        BY DEF OutOK, Delivered
      <3>2. y = m /\ i * MaxP + b = j * MaxP + d
        BY <3>1
      <3>3. i = j
        BY <1>0, <3>2, SameSlice
      <3> QED BY <1>1, <3>1, <3>2, <3>3
    <2>4. PendingAs(L1, p, S, A1, O, m, i, z)
      BY <1>0, <2>2, <2>3 DEF PendingAs, PutIn
    <2> QED BY <1>0, <2>1, <2>4 DEF Pending
  <1> QED BY <1>3, <1>4 DEF PendingOK

-----------------------------------------------------------------------------
(* What a flush writes                                                         *)

\* Position q of the buffer holds the byte of a message that waits to be written.
Waits(A, L, p, S, O, q) ==
    \E y \in 1..Len(S), j \in Nat, b \in 0..(MaxP - 1) :
        /\ q = j * MaxP + b /\ A[q + 1] = <<y, q>> /\ q < S[y]
        /\ ~ Away(L, p, S, y, j) /\ Unused(O, y, j)

AllWait(A, L, p, S, O, a, w) == \A q \in Nat : a <= q /\ q < w => Waits(A, L, p, S, O, q)

\* What the watermark moves over waits to be written.
LEMMA CoveredWaits ==
    ASSUME NEW L, NEW S, NEW p, SentOK(S), NEW A, NEW O, NEW B, NEW e, NEW r \in 0..(MaxP - 1),
           NEW g \in Nat, NEW a, a = g * MaxP, PendingOK(L, p, S, B, A, O, g, e, r),
           NEW w \in Nat, Covers(B, e, r, g, w), a <= AssemblySize
    PROVE  AllWait(A, L, p, S, O, a, w) /\ (a <= w => w <= AssemblySize)
  <1>0. MaxP \in Nat \ {0} /\ AssemblySize \in Nat /\ a \in Nat
    BY SliceOrder, Widths, MaxPFacts, WidthAssumption, ToolAssumption
       DEF AssemblySize, cmd_config_accepts
  <1>1. ASSUME NEW q \in Nat, a <= q, q < w
        PROVE  Waits(A, L, p, S, O, q) /\ q < AssemblySize
    <2>1. PICK j \in Nat, b \in 0..(MaxP - 1) : q = j * MaxP + b
      BY <1>0, Division
    <2>2. g <= j
      <3>1. ASSUME j < g PROVE FALSE
        <4>1. j * MaxP + MaxP <= g * MaxP /\ j * MaxP \in Nat
          BY <3>1, SliceOrder
        <4> QED BY <1>0, <1>1, <2>1, <4>1
      <3> QED BY <3>1
    <2>3. j \in B /\ b < Held(j, e, r)
      BY <1>1, <2>1, <2>2 DEF Covers
    <2>4. PICK t : t = Held(j, e, r)
      OBVIOUS
    <2>5. PICK y \in Nat : PendingAs(L, p, S, A, O, y, j, t)
      BY <2>2, <2>3, <2>4 DEF PendingOK, Pending
    <2>6. /\ y \in 1..Len(S) /\ j * MaxP + t <= S[y] /\ InBuffer(A, y, j, t)
          /\ ~ Away(L, p, S, y, j) /\ Unused(O, y, j)
          /\ (0 < t => j * MaxP + t <= AssemblySize)
      BY <2>5 DEF PendingAs
    <2>7. t \in Nat /\ b < t /\ j * MaxP \in Nat
      BY <1>0, <2>3, <2>4, SliceOrder DEF Held
    <2>8. S[y] \in Nat
      BY <2>6, SentFacts
    <2>9. q < S[y] /\ q < AssemblySize
      BY <1>0, <2>1, <2>6, <2>7, <2>8
    <2>10. A[q + 1] = <<y, q>>
      <3>1. PICK d \in 1..t : d = b + 1
        BY <2>7
      <3>2. A[j * MaxP + d] = <<y, j * MaxP + d - 1>>
        BY <2>6 DEF InBuffer
      <3>3. j * MaxP + d = q + 1 /\ j * MaxP + d - 1 = q
        BY <2>1, <2>7, <3>1
      <3> QED BY <3>2, <3>3
    <2>11. Waits(A, L, p, S, O, q)
      BY <2>1, <2>6, <2>9, <2>10 DEF Waits
    <2> QED BY <2>9, <2>11
  <1>2. ASSUME a <= w PROVE w <= AssemblySize
    <2>1. CASE a = w
      BY <2>1
    <2>2. CASE a < w
      <3>1. PICK q \in Nat : q = w - 1
        BY <1>0, <2>2
      <3>2. q < AssemblySize
        BY <1>0, <1>1, <2>2, <3>1
      <3> QED BY <1>0, <3>1, <3>2
    <2> QED BY <1>0, <1>2, <2>1, <2>2
  <1> QED BY <1>1, <1>2 DEF AllWait

\* The n bytes of A from position a on
IsCopy(F, A, a, n) == F \in Seq(BytePairs) /\ Len(F) = n /\ \A k \in 1..n : F[k] = A[a + k]

\* What is written of a flush
LEMMA FlushPart ==
    ASSUME NEW A, BufferOK(A), NEW a \in Nat, NEW w \in Nat, a <= w, w <= AssemblySize,
           NEW G, G = Flush(A, a, w), NEW n \in 0..Len(G), NEW F, F = SubSeq(G, 1, n)
    PROVE  IsCopy(F, A, a, n) /\ Len(G) = w - a /\ a + n <= w
  <1>0. A \in Seq(Pairs) /\ Len(A) \in Nat /\ w <= Len(A)
        /\ \A k \in 1..Len(A) : A[k] \in Pairs
    <2>1. A \in Seq(Pairs) /\ Len(A) = AssemblySize
      BY DEF BufferOK
    <2> QED BY <2>1, ElementOfSeq, LenProperties
  <1>1. G = SubSeq(A, a + 1, w)
    BY <1>0, FlushIs
  <1>2. /\ G \in Seq(Pairs) /\ Len(G) = w - a
        /\ \A k \in 1..(w - a) : G[k] = A[a + k]
    <2>1. PICK b \in Nat, c \in Nat : b = a + 1 /\ c = w
      OBVIOUS
    <2>2. \A k \in b..c : A[k] \in Pairs
      BY <1>0, <2>1
    <2>3. /\ SubSeq(A, b, c) \in Seq(Pairs)
          /\ Len(SubSeq(A, b, c)) = (IF b <= c THEN c - b + 1 ELSE 0)
          /\ \A k \in 1..(c - b + 1) : SubSeq(A, b, c)[k] = A[b + k - 1]
      BY ONLY <1>0, <2>2, SubSeqProperties, b \in Nat, c \in Nat
    <2>4. Len(G) = w - a
      BY <1>1, <2>1, <2>3
    <2>5. ASSUME NEW k \in 1..(w - a) PROVE G[k] = A[a + k]
      <3>1. k \in 1..(c - b + 1) /\ b + k - 1 = a + k
        BY <2>1
      <3> QED BY <1>1, <2>1, <2>3, <3>1
    <2> QED BY <1>1, <2>1, <2>3, <2>4, <2>5
  <1>3. n \in Nat /\ n <= w - a
    BY <1>2
  <1>4. F \in Seq(Pairs) /\ Len(F) = n /\ \A k \in 1..n : F[k] = G[k]
    <2>1. \A k \in 1..n : G[k] \in Pairs
      BY <1>2, <1>3, ElementOfSeq
    <2> QED BY <1>2, <1>3, <2>1, SubSeqProperties
  <1>5. F \in Seq(BytePairs)
    <2>1. Pairs \subseteq BytePairs
      BY ToolAssumption DEF Pairs, BytePairs
    <2>2. F \in [1..n -> Pairs]
      BY <1>4, LenProperties
    <2>3. F \in [1..n -> BytePairs]
      BY <2>1, <2>2
    <2>4. n \in Nat
      BY <1>3
    <2> QED BY ONLY <2>3, <2>4
  <1>6. \A k \in 1..n : F[k] = A[a + k]
    BY <1>2, <1>3, <1>4
  <1> QED BY <1>2, <1>3, <1>4, <1>5, <1>6 DEF IsCopy

\* O1 is O and F behind it.
Joined(O, F, O1) ==
    /\ O1 \in Seq(BytePairs) /\ Len(O1) = Len(O) + Len(F)
    /\ \A k \in 1..Len(O) : O1[k] = O[k]
    /\ \A k \in 1..Len(F) : O1[Len(O) + k] = F[k]
    /\ \A k \in 1..Len(O1) : k \in 1..Len(O) \/ IsNew(O, Len(F), k)

\* The output and what is written behind it
LEMMA JoinedOut ==
    ASSUME NEW O \in Seq(BytePairs), NEW F \in Seq(BytePairs), NEW O1, O1 = O \o F
    PROVE  Joined(O, F, O1)
  <1>1. Len(O) \in Nat /\ Len(F) \in Nat
    BY LenProperties
  <1>2. /\ O1 \in Seq(BytePairs) /\ Len(O1) = Len(O) + Len(F)
        /\ \A k \in 1..(Len(O) + Len(F)) : O1[k] = IF k <= Len(O) THEN O[k] ELSE F[k - Len(O)]
    BY ConcatProperties
  <1>3. \A k \in 1..Len(O) : O1[k] = O[k]
    BY <1>1, <1>2
  <1>4. ASSUME NEW k \in 1..Len(F) PROVE O1[Len(O) + k] = F[k]
    <2>1. PICK h \in 1..(Len(O) + Len(F)) : h = Len(O) + k
      BY <1>1
    <2>2. ~ (h <= Len(O)) /\ h - Len(O) = k
      BY <1>1, <2>1
    <2> QED BY <1>2, <2>1, <2>2
  <1>5. ASSUME NEW k \in 1..Len(O1), ~ (k \in 1..Len(O))
        PROVE  IsNew(O, Len(F), k)
    <2>1. k - Len(O) \in 1..Len(F) /\ k = Len(O) + (k - Len(O))
      BY <1>1, <1>2, <1>5
    <2> QED BY <2>1 DEF IsNew
  <1> QED BY <1>1, <1>2, <1>3, <1>4, <1>5 DEF Joined

\* Bytes that waited were not written before and are delivered.
LEMMA OutGrows ==
    ASSUME NEW L, NEW S, NEW p, NEW A, NEW O, OutOK(O, L, p, S), NEW a \in Nat, NEW w \in Nat,
           AllWait(A, L, p, S, O, a, w), NEW n \in Nat, a + n <= w, NEW F, IsCopy(F, A, a, n),
           NEW O1, O1 = O \o F
    PROVE  /\ OutOK(O1, L, p, S)
           /\ \A y, j \in Nat : Unused(O, y, j) /\ w <= j * MaxP => Unused(O1, y, j)
  <1>0. /\ O \in Seq(BytePairs) /\ Distinct(O) /\ \A k \in 1..Len(O) : Delivered(O[k], L, p, S)
        /\ F \in Seq(BytePairs) /\ Len(F) = n /\ \A k \in 1..n : F[k] = A[a + k]
    BY DEF OutOK, IsCopy
  <1>1. PICK l \in Nat : l = Len(O)
    BY <1>0, LenProperties
  <1>2. /\ O1 \in Seq(BytePairs) /\ Len(O1) = l + n
        /\ \A k \in 1..l : O1[k] = O[k]
        /\ \A k \in 1..n : O1[l + k] = F[k]
        /\ \A k \in 1..Len(O1) : k \in 1..l \/ \E h \in 1..n : k = l + h
    <2>1. O \in Seq(BytePairs) /\ F \in Seq(BytePairs) /\ O1 = O \o F
      BY <1>0
    <2>2. Joined(O, F, O1)
      BY ONLY <2>1, JoinedOut
    <2> QED BY <1>0, <1>1, <2>2 DEF IsNew, Joined
  <1>3. ASSUME NEW k \in 1..n
        PROVE  \E q \in Nat : q = a + k - 1 /\ q < w /\ Waits(A, L, p, S, O, q) /\ F[k] = A[q + 1]
    <2>1. PICK q \in Nat : q = a + k - 1 /\ a <= q /\ q < w /\ q + 1 = a + k
      OBVIOUS
    <2>2. Waits(A, L, p, S, O, q)
      BY <2>1 DEF AllWait
    <2> QED BY <1>0, <2>1, <2>2
  <1>4. ASSUME NEW k \in 1..n
        PROVE  /\ Delivered(F[k], L, p, S) /\ F[k][2] = a + k - 1
               /\ \A h \in 1..l : O[h] # F[k]
    <2>1. PICK q \in Nat : q = a + k - 1 /\ Waits(A, L, p, S, O, q) /\ F[k] = A[q + 1]
      BY <1>3
    <2>2. PICK y \in 1..Len(S), j \in Nat, b \in 0..(MaxP - 1) :
              /\ q = j * MaxP + b /\ A[q + 1] = <<y, q>> /\ q < S[y]
              /\ ~ Away(L, p, S, y, j) /\ Unused(O, y, j)
      BY <2>1 DEF Waits
    <2>3. F[k] = <<y, j * MaxP + b>> /\ j * MaxP + b < S[y] /\ F[k] = <<y, q>>
      BY <2>1, <2>2
    <2>4. Delivered(F[k], L, p, S)
      BY <2>2, <2>3 DEF Delivered
    <2>5. \A h \in 1..l : O[h] # F[k]
      BY <1>1, <2>2, <2>3 DEF Unused
    <2>6. F[k][2] = q
      BY <2>3
    <2> QED BY <2>1, <2>4, <2>5, <2>6
  <1>5. ASSUME NEW k \in 1..Len(O1) PROVE Delivered(O1[k], L, p, S)
    <2>1. CASE k \in 1..l
      <3>1. O1[k] = O[k] /\ Delivered(O[k], L, p, S)
        BY ONLY <1>0, <1>1, <1>2, <2>1
      <3> QED BY ONLY <3>1
    <2>2. CASE ~ (k \in 1..l)
      <3>1. PICK h \in 1..n : k = l + h
        BY ONLY <1>2, <2>2, k \in 1..Len(O1)
      <3>2. O1[k] = F[h]
        BY ONLY <1>2, <3>1, h \in 1..n
      <3>3. Delivered(F[h], L, p, S)
        BY ONLY <1>4, h \in 1..n
      <3> QED BY ONLY <3>2, <3>3
    <2> QED BY ONLY <2>1, <2>2
  <1>6. Distinct(O1)
    <2> SUFFICES ASSUME NEW j \in 1..Len(O1), NEW k \in 1..Len(O1), O1[j] = O1[k]
                 PROVE  j = k
      BY DEF Distinct
    <2>1. CASE j \in 1..l /\ k \in 1..l
      BY <1>0, <1>1, <1>2, <2>1 DEF Distinct
    <2>2. CASE \E h \in 1..n : j = l + h
      <3>1. PICK h \in 1..n : j = l + h
        BY <2>2
      <3>2. O1[j] = F[h]
        BY <1>2, <3>1
      <3>3. ~ (k \in 1..l)
        BY <1>2, <1>4, <3>2
      <3>4. PICK c \in 1..n : k = l + c
        BY <1>2, <3>3
      <3>5. O1[k] = F[c]
        BY <1>2, <3>4
      <3>6. a + h - 1 = a + c - 1
        BY <1>4, <3>2, <3>5
      <3> QED BY <3>1, <3>4, <3>6
    <2>3. CASE j \in 1..l /\ \E h \in 1..n : k = l + h
      <3>1. PICK h \in 1..n : k = l + h
        BY <2>3
      <3>2. O1[k] = F[h] /\ O1[j] = O[j]
        BY <1>2, <2>3, <3>1
      <3> QED BY <1>4, <2>3, <3>2
    <2> QED BY <1>2, <2>1, <2>2, <2>3
  <1>7. ASSUME NEW y \in Nat, NEW j \in Nat, Unused(O, y, j), w <= j * MaxP
        PROVE  Unused(O1, y, j)
    <2> SUFFICES ASSUME NEW k \in 1..Len(O1), NEW b \in 0..(MaxP - 1),
                        O1[k] = <<y, j * MaxP + b>>
                 PROVE  FALSE
      BY DEF Unused
    <2>1. CASE k \in 1..l
      BY <1>1, <1>2, <1>7, <2>1 DEF Unused
    <2>2. CASE \E h \in 1..n : k = l + h
      <3>1. PICK h \in 1..n : k = l + h
        BY <2>2
      <3>2. O1[k] = F[h]
        BY <1>2, <3>1
      <3>3. j * MaxP + b = a + h - 1
        BY <1>4, <3>2
      <3>4. j * MaxP \in Nat /\ b \in Nat
        <4>1. MaxP \in Nat
          BY MaxPFacts
        <4>2. b \in 0..(MaxP - 1) /\ j \in Nat
          OBVIOUS
        <4> QED BY ONLY <4>1, <4>2, SliceOrder
      <3>5. PICK v \in Nat : v = j * MaxP
        BY <3>4
      <3>6. w <= v /\ v + b = a + h - 1
        BY ONLY <1>7, <3>3, <3>5
      <3> QED BY ONLY <3>4, <3>6, a \in Nat, w \in Nat, n \in Nat, a + n <= w, h \in 1..n, v \in Nat
    <2> QED BY <1>2, <2>1, <2>2
  <1> QED BY <1>2, <1>5, <1>6, <1>7 DEF OutOK

-----------------------------------------------------------------------------
(* What the receiver makes of a frame                                          *)

\* Frames are slices as senders send them.
LEMMA SliceIsSent ==
    ASSUME NEW L, NEW S, NEW p, NEW f, NEW m, NEW i, NEW z, NEW x, NEW L1,
           SentOK(S), Takes(L, S, p, f, m, i, z, x, L1), NEW B, NEW g \in Nat, g \notin B,
           NEW e \in Nat, e # NoEnd => g < e, EndedAt(L, p, S, B, e)
    PROVE  SliceSent(i, z, x, e) /\ (x = 1 => e = NoEnd)
  <1>1. x = 1 => e = NoEnd
    <2>1. ASSUME e # NoEnd PROVE x = 0
      <3>1. PICK y \in Nat : EndedAs(L, p, S, B, e, y)
        BY <2>1 DEF EndedAt
      <3> QED BY <2>1, <3>1, EndedIsHead
    <2> QED BY <2>1
  <1>2. /\ i \in SliceIds /\ z \in 0..MaxP /\ x \in 0..1
        /\ 0 < i * MaxP + z /\ i * MaxP + z < U16
        /\ (x = 0 => z = MaxP /\ i + 1 < U8) /\ (x = 1 => z < MaxP)
        /\ (0 < z => (i + 1) * MaxP < U16)
    BY TakesFacts
  <1> QED BY <1>1, <1>2 DEF SliceSent

\* What was written was delivered.
LEMMA OutStays ==
    ASSUME NEW L, NEW S, NEW p, NEW f, NEW m, NEW i, NEW z, NEW x, NEW L1,
           SentOK(S), Takes(L, S, p, f, m, i, z, x, L1), NEW O, OutOK(O, L, p, S)
    PROVE  OutOK(O, L1, p, S)
  <1>1. \A y, j \in Nat : Away(L1, p, S, y, j) => Away(L, p, S, y, j)
    BY TakesAway
  <1>2. \A y \in 1..Len(S) : y \in Nat
    BY SentFacts
  <1>3. ASSUME NEW v, Delivered(v, L, p, S) PROVE Delivered(v, L1, p, S)
    <2>1. PICK y \in 1..Len(S), j \in Nat, b \in 0..(MaxP - 1) :
              v = <<y, j * MaxP + b>> /\ j * MaxP + b < S[y] /\ ~ Away(L, p, S, y, j)
      BY <1>3 DEF Delivered
    <2>2. ~ Away(L1, p, S, y, j)
      BY <1>1, <1>2, <2>1
    <2> QED BY <2>1, <2>2 DEF Delivered
  <1> QED BY <1>3 DEF OutOK

\* A slice that is there already changes nothing.
LEMMA DuplicateKeeps ==
    ASSUME NEW L, NEW S, NEW p, NEW f, NEW m, NEW i, NEW z, NEW x, NEW L1,
           SentOK(S), Takes(L, S, p, f, m, i, z, x, L1), NEW st, TrackOK(L, S, p, st.bitmap),
           NEW A, NEW O, NEW g \in SliceIds, NEW e \in 0..U8, NEW r \in 0..(MaxP - 1),
           RxOK(st, A, L, p, S, O, g, e, r), i \in st.bitmap
    PROVE  RxOK(st, A, L1, p, S, O, g, e, r) /\ TrackOK(L1, S, p, st.bitmap)
  <1>0. /\ MixedState(st, g, e, r) /\ BufferOK(A) /\ EndedAt(L, p, S, st.bitmap, e)
        /\ PendingOK(L, p, S, st.bitmap, A, O, g, e, r) /\ g * MaxP <= AssemblySize
    BY DEF RxOK
  <1>1. /\ st.bitmap \subseteq Nat /\ g \notin st.bitmap /\ (e # NoEnd => g < e)
        /\ g \in Nat /\ e \in Nat
    BY <1>0, MixedFacts
  <1>2. m \in Nat /\ i \in Nat /\ x \in 0..1
    BY TakesFacts
  <1>3. PICK B1 : B1 = st.bitmap \union {i} /\ B1 = st.bitmap
    OBVIOUS
  <1>4. TrackOK(L1, S, p, B1)
    BY <1>2, <1>3, TakesTrack
  <1>5. EndedAt(L1, p, S, B1, e)
    <2>1. x = 1 => e = NoEnd
      BY <1>0, <1>1, SliceIsSent
    <2>2. CASE e = NoEnd
      BY <2>2 DEF EndedAt
    <2>3. CASE e # NoEnd
      <3>1. PICK e1 : e1 = (IF x = 1 THEN i ELSE e) /\ e1 = e
        BY <2>1, <2>3
      <3>2. EndedAs(L1, p, S, B1, e1, m)
        <4>1. PICK B : B = st.bitmap
          OBVIOUS
        <4>2. /\ g \in Nat /\ g \notin B /\ e \in Nat /\ (e # NoEnd => g < e)
              /\ EndedAt(L, p, S, B, e) /\ TrackOK(L, S, p, B) /\ B1 = B \union {i}
              /\ SentOK(S) /\ Takes(L, S, p, f, m, i, z, x, L1)
              /\ e1 = (IF x = 1 THEN i ELSE e) /\ e1 # NoEnd
          BY <1>0, <1>1, <1>3, <2>3, <3>1, <4>1
        <4> QED BY ONLY <4>2, TakesEnded
      <3> QED BY <1>2, <3>1, <3>2 DEF EndedAt
    <2> QED BY <2>2, <2>3
  <1>6. PendingOK(L1, p, S, st.bitmap, A, O, g, e, r)
    <2>1. \A y, j \in Nat : Away(L1, p, S, y, j) => Away(L, p, S, y, j)
      BY TakesAway
    <2> SUFFICES ASSUME NEW j \in st.bitmap, g <= j
                 PROVE  Pending(L1, p, S, A, O, j, Held(j, e, r))
      BY DEF PendingOK
    <2>2. PICK y \in Nat : PendingAs(L, p, S, A, O, y, j, Held(j, e, r))
      BY <1>0 DEF PendingOK, Pending
    <2>3. j \in Nat
      BY <1>1
    <2>4. PendingAs(L1, p, S, A, O, y, j, Held(j, e, r))
      BY <2>1, <2>2, <2>3 DEF PendingAs
    <2> QED BY <2>4 DEF Pending
  <1> QED BY <1>0, <1>3, <1>4, <1>5, <1>6 DEF RxOK

\* What holds once a new slice is in its place and recorded, whatever the watermark
Recorded(A1, L1, p, S, O, B1, g, e1, r1) ==
    /\ TrackOK(L1, S, p, B1) /\ OutOK(O, L1, p, S) /\ BufferOK(A1)
    /\ EndedAt(L1, p, S, B1, e1) /\ PendingOK(L1, p, S, B1, A1, O, g, e1, r1)

\* A slice that is put in its place and recorded leaves all that as it should be.
LEMMA NewRecorded ==
    ASSUME NEW L, NEW S, NEW p, NEW f, NEW m, NEW i, NEW z, NEW x, NEW L1,
           SentOK(S), Takes(L, S, p, f, m, i, z, x, L1), NEW st, TrackOK(L, S, p, st.bitmap),
           NEW A, NEW O, OutOK(O, L, p, S),
           NEW g \in SliceIds, NEW e \in 0..U8, NEW r \in 0..(MaxP - 1),
           RxOK(st, A, L, p, S, O, g, e, r), i \notin st.bitmap,
           NEW A1, PutIn(A, A1, m, i, z),
           NEW e1, NEW r1, EndWith(i, z, x, e, r, e1, r1),
           NEW B1, B1 = st.bitmap \union {i}
    PROVE  /\ Recorded(A1, L1, p, S, O, B1, g, e1, r1)
           /\ e1 # NoEnd => EndedAs(L1, p, S, B1, e1, m)
  <1>0. /\ MixedState(st, g, e, r) /\ EndedAt(L, p, S, st.bitmap, e)
        /\ PendingOK(L, p, S, st.bitmap, A, O, g, e, r)
    BY DEF RxOK
  <1>1. /\ st.bitmap \in SUBSET SliceIds /\ g \notin st.bitmap
        /\ (e # NoEnd => e \in st.bitmap /\ g < e)
        /\ g \in Nat /\ e \in Nat
    BY <1>0, MixedFacts
  <1>2. m \in Nat /\ i \in Nat
    BY TakesFacts
  <1>3. x = 1 => e = NoEnd
    BY <1>0, <1>1, SliceIsSent
  <1>4. TrackOK(L1, S, p, B1)
    BY <1>2, TakesTrack
  <1>5. ASSUME e1 # NoEnd PROVE EndedAs(L1, p, S, B1, e1, m)
    <2>1. PICK B : B = st.bitmap
      OBVIOUS
    <2>2. /\ g \in Nat /\ g \notin B /\ e \in Nat /\ (e # NoEnd => g < e)
          /\ EndedAt(L, p, S, B, e) /\ TrackOK(L, S, p, B) /\ B1 = B \union {i}
          /\ SentOK(S) /\ Takes(L, S, p, f, m, i, z, x, L1)
          /\ e1 = (IF x = 1 THEN i ELSE e) /\ e1 # NoEnd
      BY <1>0, <1>1, <1>5, <2>1 DEF EndWith
    <2> QED BY ONLY <2>2, TakesEnded
  <1>6. EndedAt(L1, p, S, B1, e1)
    BY <1>2, <1>5 DEF EndedAt
  <1>7. PendingOK(L1, p, S, B1, A1, O, g, e1, r1)
    <2>1. PICK B : B = st.bitmap
      OBVIOUS
    <2>2. /\ B \in SUBSET SliceIds /\ (e # NoEnd => e \in B) /\ i \notin B
          /\ PendingOK(L, p, S, B, A, O, g, e, r) /\ B1 = B \union {i} /\ (x = 1 => e = NoEnd)
          /\ SentOK(S) /\ Takes(L, S, p, f, m, i, z, x, L1) /\ PutIn(A, A1, m, i, z)
          /\ OutOK(O, L, p, S)
          /\ e1 = (IF x = 1 THEN i ELSE e) /\ r1 = (IF x = 1 THEN z ELSE r)
      BY <1>0, <1>1, <1>3, <2>1 DEF EndWith
    <2> QED BY ONLY <2>2, PendingMore, r \in 0..(MaxP - 1)
  <1>8. OutOK(O, L1, p, S)
    BY OutStays
  <1>9. BufferOK(A1)
    BY DEF PutIn
  <1> QED BY <1>4, <1>5, <1>6, <1>7, <1>8, <1>9 DEF Recorded

\* A flush that ends at slice h leaves what is behind it pending.
LEMMA FlushKeeps ==
    ASSUME NEW L, NEW S, NEW p, SentOK(S), NEW A, NEW O, NEW B, B \subseteq Nat,
           NEW g \in Nat, NEW e \in 0..U8, NEW r \in 0..(MaxP - 1),
           Recorded(A, L, p, S, O, B, g, e, r), NEW a, a = g * MaxP, a <= AssemblySize,
           NEW w \in Nat, a <= w, Covers(B, e, r, g, w), NEW n \in Nat, a + n <= w,
           NEW F, IsCopy(F, A, a, n), NEW O1, O1 = O \o F
    PROVE  /\ OutOK(O1, L, p, S)
           /\ \A h \in Nat : g <= h /\ w = h * MaxP => PendingOK(L, p, S, B, A, O1, h, e, r)
  <1>0. OutOK(O, L, p, S) /\ PendingOK(L, p, S, B, A, O, g, e, r)
    BY DEF Recorded
  <1>1. AllWait(A, L, p, S, O, a, w) /\ a \in Nat
    BY <1>0, CoveredWaits, SliceOrder
  <1>2. OutOK(O1, L, p, S)
        /\ \A y, j \in Nat : Unused(O, y, j) /\ w <= j * MaxP => Unused(O1, y, j)
    BY <1>0, <1>1, OutGrows
  <1>3. ASSUME NEW h \in Nat, g <= h, w = h * MaxP
        PROVE  PendingOK(L, p, S, B, A, O1, h, e, r)
    <2> SUFFICES ASSUME NEW j \in B, h <= j
                 PROVE  Pending(L, p, S, A, O1, j, Held(j, e, r))
      BY DEF PendingOK
    <2>1. j \in Nat /\ g <= j
      BY <1>3
    <2>2. PICK y \in Nat : PendingAs(L, p, S, A, O, y, j, Held(j, e, r))
      BY <1>0, <2>1 DEF PendingOK, Pending
    <2>3. w <= j * MaxP
      BY <1>3, <2>1, SliceOrder
    <2>4. Unused(O1, y, j)
      BY <1>2, <2>1, <2>2, <2>3 DEF PendingAs
    <2>5. PendingAs(L, p, S, A, O1, y, j, Held(j, e, r))
      BY <2>2, <2>4 DEF PendingAs
    <2> QED BY <2>5 DEF Pending
  <1> QED BY <1>2, <1>3

\* The state in which nothing is recorded
LEMMA ZeroMixed ==
    ASSUME NEW L, NEW S, NEW p, NEW A, BufferOK(A), NEW O
    PROVE  /\ RxOK(ZeroState, A, L, p, S, O, 0, NoEnd, 0) /\ ZeroState.bitmap = {}
           /\ 0 \in SliceIds /\ NoEnd \in 0..U8 /\ 0 \in 0..(MaxP - 1)
  <1>1. 0 \in SliceIds /\ NoEnd \in 0..U8 /\ 0 \in 0..(MaxP - 1) /\ 0 \in Offsets
    <2>1. MaxP \in Nat \ {0}
      BY MaxPFacts
    <2>2. 0 \in 0..(MaxP - 1)
      BY ONLY <2>1
    <2>3. 0 \in SliceIds /\ NoEnd \in 0..U8 /\ 0 \in Offsets
      BY Widths DEF SliceIds, NoEnd, Offsets
    <2> QED BY <2>2, <2>3
  <1>2. /\ ZeroState.bitmap = {} /\ ZeroState.received_count = 0
        /\ ZeroState.termination = 0 /\ ZeroState.watermark = 0
    BY DEF ZeroState
  <1>3. ZeroState \in SliceStates
    BY <1>1 DEF ZeroState, SliceStates
  <1>4. Filled({}, NoEnd, 0) = {} /\ Cardinality({}) = 0
    BY FS_EmptySet DEF Filled
  <1>5. 0 * MaxP = 0
    BY MaxPFacts
  <1>6. MixedState(ZeroState, 0, NoEnd, 0)
    BY <1>2, <1>3, <1>4, <1>5 DEF MixedState
  <1>7. EndedAt(L, p, S, ZeroState.bitmap, NoEnd)
    BY DEF EndedAt
  <1>8. PendingOK(L, p, S, ZeroState.bitmap, A, O, 0, NoEnd, 0)
    BY <1>2 DEF PendingOK
  <1>9. 0 * MaxP <= AssemblySize
    <2>1. AssemblySize \in Nat
      BY Widths, MaxPFacts, WidthAssumption, ToolAssumption DEF AssemblySize, cmd_config_accepts
    <2> QED BY <1>5, <2>1
  <1> QED BY <1>1, <1>2, <1>6, <1>7, <1>8, <1>9 DEF RxOK

-----------------------------------------------------------------------------
(* The receiver while nothing goes wrong                                       *)

\* The frame that is taken is of the message that rx is receiving, and its slice
\* is a new one.
LEMMA CleanHead ==
    ASSUME NEW L, NEW S, NEW p, NEW f, NEW m, NEW i, NEW z, NEW x, NEW L1,
           SentOK(S), Takes(L, S, p, f, m, i, z, x, L1), NEW B, B \subseteq Nat, NEW A, NEW O,
           NEW g \in Nat, NEW e \in Nat, NEW r, g \notin B, \A j \in 0..(g - 1) : j \in B,
           e # NoEnd => g < e, g < NoEnd,
           NEW c \in 0..Len(S), Clean(B, A, L, p, S, O, g, e, r, c)
    PROVE  m = c + 1 /\ c < Len(S) /\ i \notin B /\ c \in Nat
  <1>0. /\ m \in 1..Len(S) /\ m \in Nat /\ i \in Nat /\ Len(S) \in Nat
        /\ IsHead(L, m) /\ OnLink(L, m, i)
    BY TakesFacts DEF Takes
  <1>1. c < m
    BY <1>0 DEF Clean, OnLink
  <1>2. c < Len(S) /\ c \in Nat /\ c + 1 \in 1..Len(S)
    BY <1>0, <1>1
  <1>3. Receiving(B, A, L, p, S, g, e, r, c + 1)
    BY <1>2 DEF Clean
  <1>4. PICK y \in 1..Len(S) : y = c + 1 /\ y \in Nat
    BY <1>2
  <1>5. /\ \A j \in Nat : j \in B <=> Come(L, p, S, y, j)
        /\ \A j \in B : j # e => (j + 1) * MaxP <= S[y]
    BY <1>3, <1>4 DEF Receiving
  <1>6. m = y
    <2> SUFFICES ASSUME m # y PROVE FALSE
      OBVIOUS
    <2>1. y < m
      BY <1>0, <1>1, <1>2, <1>4
    <2>2. ~ OnLink(L, y, g)
      <3>1. ASSUME OnLink(L, y, g) PROVE FALSE
        <4>1. m <= y
          BY <1>0, <3>1 DEF OnLink, IsHead
        <4> QED BY <1>0, <1>4, <2>1, <4>1
      <3> QED BY <3>1
    <2>3. ~ Unsent(p, S, y, g)
      BY <1>0, <1>4, <2>1 DEF Unsent, Running
    <2>4. ~ (g * MaxP <= S[y])
      BY <1>5, <2>2, <2>3 DEF Come, Away
    <2>5. S[y] \in Nat
      BY SentFacts
    <2>6. CASE g = 0
      <3>1. g * MaxP = 0
        BY <2>6, MaxPFacts
      <3> QED BY <2>4, <2>5, <3>1
    <2>7. CASE g # 0
      <3>1. PICK j \in 0..(g - 1) : j + 1 = g /\ j \in B
        <4>1. g - 1 \in 0..(g - 1) /\ (g - 1) + 1 = g
          BY <2>7
        <4> QED BY <4>1
      <3>2. j # e
        BY <3>1
      <3>3. (j + 1) * MaxP <= S[y]
        BY <1>5, <3>1, <3>2
      <3> QED BY <2>4, <3>1, <3>3
    <2> QED BY <2>6, <2>7
  <1>7. i \notin B
    BY <1>0, <1>5, <1>6 DEF Come, Away
  <1> QED BY <1>2, <1>4, <1>6, <1>7

\* What rx has of the message, with the new slice
LEMMA ReceivingMore ==
    ASSUME NEW L, NEW S, NEW p, NEW f, NEW m, NEW i, NEW z, NEW x, NEW L1,
           SentOK(S), Takes(L, S, p, f, m, i, z, x, L1), EndsWhole(L, S),
           NEW B \in SUBSET SliceIds, NEW A, NEW A1, PutIn(A, A1, m, i, z), i \notin B,
           NEW g, NEW e, NEW r \in 0..(MaxP - 1), e # NoEnd => e \in B, x = 1 => e = NoEnd,
           NEW e1, NEW r1, EndWith(i, z, x, e, r, e1, r1),
           NEW B1, B1 = B \union {i}, Receiving(B, A, L, p, S, g, e, r, m),
           NEW O, PendingOK(L, p, S, B, A, O, g, e, r)
    PROVE  Receiving(B1, A1, L1, p, S, g, e1, r1, m)
  <1>a. e1 = (IF x = 1 THEN i ELSE e) /\ r1 = (IF x = 1 THEN z ELSE r)
    BY DEF EndWith
  <1>0. /\ m \in 1..Len(S) /\ m \in Nat /\ i \in Nat /\ i < U8
        /\ z \in 0..MaxP /\ x \in 0..1 /\ i * MaxP + z <= S[m] /\ MaxP \in Nat \ {0}
        /\ (x = 0 => z = MaxP) /\ (x = 1 => z < MaxP) /\ i * MaxP \in Nat
        /\ S[m] \in Nat
    BY TakesFacts
  <1>1. \A j \in Nat : Away(L1, p, S, m, j) <=> Away(L, p, S, m, j) /\ j # i
    BY <1>0, TakesAway
  <1>2. \A j \in B : j \in Nat /\ j # NoEnd /\ j # i
    BY Widths DEF SliceIds, NoEnd
  <1>3. /\ \A j \in Nat : j \in B <=> Come(L, p, S, m, j)
        /\ \A j \in B : j # e => (j + 1) * MaxP <= S[m]
        /\ e # NoEnd => e * MaxP + r = S[m]
        /\ \A j \in B : g <= j => InBuffer(A, m, j, Held(j, e, r))
    BY DEF Receiving
  <1>4. \A j \in Nat : j \in B1 <=> Come(L1, p, S, m, j)
    <2>1. i * MaxP <= S[m]
      BY <1>0
    <2> QED BY <1>1, <1>3, <2>1 DEF Come
  <1>5. ASSUME NEW j \in B1, j # e1 PROVE (j + 1) * MaxP <= S[m]
    <2>1. CASE j = i
      <3>1. x = 0 /\ z = MaxP
        BY <1>a, <1>0, <1>5, <2>1
      <3>2. (i + 1) * MaxP = i * MaxP + MaxP
        BY <1>0, SliceOrder
      <3> QED BY <1>0, <2>1, <3>1, <3>2
    <2>2. CASE j # i
      <3>1. j \in B /\ j # e
        BY <1>a, <1>2, <1>5, <2>2
      <3> QED BY <1>3, <3>1
    <2> QED BY <2>1, <2>2
  <1>6. ASSUME e1 # NoEnd PROVE e1 * MaxP + r1 = S[m]
    <2>1. CASE x = 0
      BY <1>a, <1>3, <1>6, <2>1
    <2>2. CASE x = 1
      <3>1. IsOld(L, f) /\ m = f.msg /\ i = Slice(f) /\ z = Size(f) /\ x = Eop(f)
        BY DEF Takes
      <3>2. i * MaxP + z = S[m]
        BY <2>2, <3>1 DEF EndsWhole, IsOld
      <3> QED BY <1>a, <2>2, <3>2
    <2> QED BY <1>0, <2>1, <2>2
  <1>7. ASSUME NEW j \in B1, g <= j PROVE InBuffer(A1, m, j, Held(j, e1, r1))
    <2>1. CASE j = i
      <3>1. Held(i, e1, r1) = z
        <4>1. i # NoEnd
          BY <1>0, Widths DEF NoEnd
        <4>2. x = 0 => i # e
          BY <4>1
        <4> QED BY <1>a, <1>0, <4>2 DEF Held
      <3> QED BY <2>1, <3>1 DEF PutIn
    <2>2. CASE j # i
      <3>1. j \in B /\ j \in Nat /\ Held(j, e1, r1) = Held(j, e, r)
        BY <1>a, <1>2, <2>2 DEF Held
      <3>2. PICK t : t = Held(j, e, r)
        OBVIOUS
      <3>3. t \in 0..MaxP /\ InBuffer(A, m, j, t)
        BY <1>0, <1>3, <1>7, <3>1, <3>2 DEF Held
      <3>5. 0 < t => j * MaxP + t <= AssemblySize
        BY <1>7, <3>1, <3>2 DEF PendingOK, Pending, PendingAs
      <3>6. InBuffer(A1, m, j, t)
        BY <1>0, <2>2, <3>1, <3>3, <3>5 DEF PutIn
      <3> QED BY <3>1, <3>2, <3>6
    <2> QED BY <2>1, <2>2
  <1> QED BY <1>4, <1>5, <1>6, <1>7 DEF Receiving

\* No slice of another message has come.
LEMMA OthersStay ==
    ASSUME NEW L, NEW S, NEW p, NEW f, NEW m, NEW i, NEW z, NEW x, NEW L1,
           SentOK(S), Takes(L, S, p, f, m, i, z, x, L1), NEW c \in Nat, m = c + 1,
           \A k \in 1..Len(L) : c < L[k].msg, EndsWhole(L, S), NoneCame(L, p, S, c + 2)
    PROVE  /\ \A k \in 1..Len(L1) : c < L1[k].msg
           /\ EndsWhole(L1, S) /\ NoneCame(L1, p, S, c + 2)
  <1>1. \A j \in 1..Len(L1) : IsOld(L, L1[j])
    BY DEF Takes, NoneNew
  <1>2. i \in Nat /\ m \in Nat /\ Len(S) \in Nat
    BY TakesFacts
  <1>3. \A k \in 1..Len(L1) : c < L1[k].msg
    BY <1>1 DEF IsOld
  <1>4. EndsWhole(L1, S)
    BY <1>1 DEF EndsWhole, IsOld
  <1>5. NoneCame(L1, p, S, c + 2)
    <2> SUFFICES ASSUME NEW y \in (c + 2)..Len(S), NEW j \in Nat PROVE ~ Come(L1, p, S, y, j)
      BY DEF NoneCame
    <2>1. y \in Nat /\ y # m
      BY <1>2
    <2>2. Away(L1, p, S, y, j) <=> Away(L, p, S, y, j)
      BY <1>2, <2>1, TakesAway
    <2>3. ~ Come(L, p, S, y, j)
      BY DEF NoneCame
    <2> QED BY <2>2, <2>3 DEF Come
  <1> QED BY <1>3, <1>4, <1>5

-----------------------------------------------------------------------------
(* What is written while nothing goes wrong                                    *)

\* A flush of what rx is receiving writes the bytes of that message.
LEMMA CoveredBytes ==
    ASSUME NEW L, NEW S, NEW p, NEW B, NEW A, NEW m \in Nat,
           NEW g \in Nat, NEW e, NEW r \in 0..(MaxP - 1), Receiving(B, A, L, p, S, g, e, r, m),
           NEW a, a = g * MaxP, NEW w \in Nat, Covers(B, e, r, g, w),
           NEW n \in Nat, a + n = w, NEW F, IsCopy(F, A, a, n)
    PROVE  F = BytesOf(m, a, n)
  <1>0. a \in Nat /\ MaxP \in Nat \ {0}
    BY SliceOrder, MaxPFacts
  <1>1. F \in Seq(BytePairs) /\ Len(F) = n /\ \A k \in 1..n : F[k] = A[a + k]
    BY DEF IsCopy
  <1>2. /\ BytesOf(m, a, n) \in Seq(BytePairs) /\ Len(BytesOf(m, a, n)) = n
        /\ \A k \in 1..n : BytesOf(m, a, n)[k] = <<m, a + k - 1>>
    <2>1. IsBytes(BytesOf(m, a, n), m, a, n)
      BY ONLY <1>0, BytesAre, m \in Nat, n \in Nat
    <2> QED BY ONLY <2>1 DEF IsBytes
  <1>3. ASSUME NEW k \in 1..n PROVE A[a + k] = <<m, a + k - 1>>
    <2>1. PICK q \in Nat : q = a + k - 1 /\ a <= q /\ q < w
      BY <1>0
    <2>2. PICK j \in Nat, b \in 0..(MaxP - 1) : q = j * MaxP + b
      BY <1>0, Division
    <2>3. g <= j
      <3>1. ASSUME j < g PROVE FALSE
        <4>1. j * MaxP + MaxP <= g * MaxP /\ j * MaxP \in Nat
          BY <3>1, SliceOrder
        <4> QED BY <1>0, <2>1, <2>2, <4>1
      <3> QED BY <3>1
    <2>4. j \in B /\ b < Held(j, e, r)
      BY <2>1, <2>2, <2>3 DEF Covers
    <2>5. PICK t : t = Held(j, e, r)
      OBVIOUS
    <2>6. InBuffer(A, m, j, t)
      BY <2>3, <2>4, <2>5 DEF Receiving
    <2>7. t \in Nat /\ b < t /\ j * MaxP \in Nat
      BY <1>0, <2>4, <2>5, SliceOrder DEF Held
    <2>8. PICK d \in 1..t : d = b + 1
      BY <2>7
    <2>9. A[j * MaxP + d] = <<m, j * MaxP + d - 1>>
      BY <2>6 DEF InBuffer
    <2>10. j * MaxP + d = a + k /\ j * MaxP + d - 1 = a + k - 1
      BY <1>0, <2>1, <2>2, <2>7, <2>8
    <2> QED BY <2>9, <2>10
  <1>4. \A k \in 1..n : F[k] = BytesOf(m, a, n)[k]
    BY <1>1, <1>2, <1>3
  <1> QED BY <1>1, <1>2, <1>4, SeqEqual

\* O is U and the first a bytes of message m.
WrittenTo(U, m, a, O) == O = U \o BytesOf(m, 0, a)

\* More bytes of the message are behind those that were written.
LEMMA WrittenOut ==
    ASSUME NEW U \in Seq(BytePairs), NEW m \in Nat, NEW a \in Nat, NEW n \in Nat,
           NEW w, w = a + n, NEW F, F = BytesOf(m, a, n),
           NEW O, WrittenTo(U, m, a, O), NEW O1, O1 = O \o F
    PROVE  WrittenTo(U, m, w, O1)
  <1>1. PICK s : s = BytesOf(m, 0, a)
    OBVIOUS
  <1>2. s \in Seq(BytePairs) /\ F \in Seq(BytePairs)
    <2>1. PICK from \in Nat : from = 0
      OBVIOUS
    <2>2. s = BytesOf(m, from, a)
      BY ONLY <1>1, <2>1
    <2>3. IsBytes(s, m, from, a)
      BY ONLY <2>1, <2>2, BytesAre, m \in Nat, a \in Nat
    <2>4. IsBytes(F, m, a, n)
      BY ONLY BytesAre, m \in Nat, a \in Nat, n \in Nat, F = BytesOf(m, a, n)
    <2> QED BY ONLY <2>3, <2>4 DEF IsBytes
  <1>3. (U \o s) \o F = U \o (s \o F)
    <2>1. Associates(U, s, F)
      BY ONLY <1>2, BytesAssociate, U \in Seq(BytePairs)
    <2> QED BY ONLY <2>1 DEF Associates
  <1>4. s \o F = BytesOf(m, 0, w)
    <2>1. PICK c : c = BytesOf(m, 0, w)
      OBVIOUS
    <2>2. /\ m \in Nat /\ a \in Nat /\ n \in Nat /\ w = a + n
          /\ s = BytesOf(m, 0, a) /\ F = BytesOf(m, a, n) /\ c = BytesOf(m, 0, w)
      BY ONLY <1>1, <2>1, m \in Nat, a \in Nat, n \in Nat, w = a + n, F = BytesOf(m, a, n)
    <2>3. TwoParts(s, F, c)
      BY ONLY <2>2, BytesFromStart
    <2> QED BY ONLY <2>1, <2>3 DEF TwoParts
  <1> QED BY <1>1, <1>3, <1>4 DEF WrittenTo

\* The message that rx receives goes on.
LEMMA CleanGoesOn ==
    ASSUME NEW L, NEW S, NEW p, SentOK(S), NEW B, B \subseteq Nat, NEW A, NEW O,
           NEW g \in Nat, NEW e, NEW r \in 0..(MaxP - 1), NEW c \in 0..Len(S), c < Len(S),
           Clean(B, A, L, p, S, O, g, e, r, c), NEW a, a = g * MaxP,
           NEW h \in Nat, g <= h, NEW w, w = h * MaxP, Covers(B, e, r, g, w),
           NEW n \in Nat, a + n = w, NEW F, IsCopy(F, A, a, n), NEW O1, O1 = O \o F
    PROVE  Clean(B, A, L, p, S, O1, h, e, r, c)
  <1>1. a \in Nat /\ w \in Nat /\ Len(S) \in Nat /\ S \in Seq(Nat)
    BY SliceOrder, SentFacts
  <1>2. PICK m \in Nat : m = c + 1
    BY <1>1
  <1>3. /\ \A k \in 1..Len(L) : c < L[k].msg
        /\ O = Upto(S, c) \o BytesOf(m, 0, a)
        /\ Receiving(B, A, L, p, S, g, e, r, m) /\ NoneCame(L, p, S, c + 2)
    BY <1>2 DEF Clean
  <1>4. F = BytesOf(m, a, n)
    BY <1>1, <1>3, CoveredBytes
  <1>5. O1 = Upto(S, c) \o BytesOf(m, 0, w)
    <2>1. PICK U : U = Upto(S, c)
      OBVIOUS
    <2>2. U \in Seq(BytePairs)
      BY <1>1, <2>1, UptoStep
    <2>3. WrittenTo(U, m, a, O) /\ w = a + n /\ O1 = O \o F
      BY <1>3, <2>1 DEF WrittenTo
    <2>4. WrittenTo(U, m, w, O1)
      BY ONLY <1>1, <1>4, <2>2, <2>3, WrittenOut, m \in Nat, n \in Nat
    <2> QED BY <2>1, <2>4 DEF WrittenTo
  <1>6. Receiving(B, A, L, p, S, h, e, r, m)
    <2>1. ASSUME NEW j \in B, h <= j PROVE InBuffer(A, m, j, Held(j, e, r))
      <3>1. j \in Nat
        OBVIOUS
      <3>2. g <= j
        BY <2>1, <3>1
      <3> QED BY <1>3, <3>2 DEF Receiving
    <2> QED BY <1>3, <2>1 DEF Receiving
  <1> QED BY <1>1, <1>2, <1>3, <1>5, <1>6 DEF Clean

\* The message is written out whole, and rx is ready for the next.
LEMMA CleanEnds ==
    ASSUME NEW L, NEW S, NEW p, SentOK(S), LinkOK(L, S, p), NEW B, B \subseteq Nat,
           NEW A, NEW O,
           NEW g \in Nat, NEW e \in Nat, e # NoEnd, NEW r \in 0..(MaxP - 1),
           NEW c \in 0..Len(S), c < Len(S), Clean(B, A, L, p, S, O, g, e, r, c),
           NEW m \in Nat, m = c + 1, EndedAs(L, p, S, B, e, m), NEW a, a = g * MaxP,
           NEW w \in Nat, Covers(B, e, r, g, w),
           B \subseteq 0..e => 0..e \subseteq B /\ w = e * MaxP + r,
           NEW n \in Nat, a + n = w, NEW F, IsCopy(F, A, a, n), NEW O1, O1 = O \o F
    PROVE  Clean({}, A, L, p, S, O1, 0, NoEnd, 0, m)
  <1>1. a \in Nat /\ Len(S) \in Nat /\ S \in Seq(Nat) /\ m \in 1..Len(S) /\ S[m] \in Nat
    <2>1. Len(S) \in Nat /\ S \in Seq(Nat)
      BY SentFacts
    <2>2. m \in 1..Len(S)
      BY <2>1
    <2> QED BY <2>1, <2>2, SliceOrder, SentFacts
  <1>2. /\ O = Upto(S, c) \o BytesOf(m, 0, a)
        /\ Receiving(B, A, L, p, S, g, e, r, m) /\ NoneCame(L, p, S, c + 2)
    BY DEF Clean
  <1>3. e * MaxP + r = S[m] /\ \A j \in Nat : j \in B <=> Come(L, p, S, m, j)
    BY <1>2 DEF Receiving
  <1>4. ASSUME NEW j \in Nat, j * MaxP <= S[m] PROVE j \in 0..e
    <2>1. ASSUME e < j PROVE FALSE
      <3>1. e * MaxP + MaxP <= j * MaxP /\ e * MaxP \in Nat /\ j * MaxP \in Nat
        BY <2>1, SliceOrder
      <3>2. MaxP \in Nat /\ r \in Nat /\ r < MaxP
        BY MaxPFacts
      <3>3. e * MaxP + r = S[m] /\ j * MaxP <= S[m] /\ S[m] \in Nat
        BY <1>1, <1>3, <1>4
      <3> QED BY ONLY <3>1, <3>2, <3>3
    <2> QED BY <2>1
  <1>5. 0..e \subseteq B /\ w = S[m]
    <2>1. ASSUME NEW j \in B PROVE j \in 0..e
      <3>0. j \in Nat
        OBVIOUS
      <3>1. j \in Nat /\ j * MaxP <= S[m]
        BY <1>3, <3>0 DEF Come
      <3> QED BY <1>4, <3>1
    <2> QED BY <1>3, <2>1
  <1>6. O1 = Upto(S, m) \o BytesOf(m + 1, 0, 0 * MaxP)
    <2>1. F = BytesOf(m, a, n)
      BY <1>1, <1>2, CoveredBytes
    <2>2. PICK U : U = Upto(S, c)
      OBVIOUS
    <2>3. U \in Seq(BytePairs) /\ Upto(S, m) = U \o MessageOf(S, m)
          /\ Upto(S, m) \in Seq(BytePairs)
      <3>1. m \in 0..Len(S)
        BY <1>1
      <3> QED BY <1>1, <2>2, <3>1, UptoStep
    <2>4. WrittenTo(U, m, a, O) /\ w = a + n /\ O1 = O \o F
      BY <1>2, <2>2 DEF WrittenTo
    <2>5. WrittenTo(U, m, w, O1)
      <3>1. U \in Seq(BytePairs)
        BY <2>3
      <3> QED BY ONLY <1>1, <2>1, <2>4, <3>1, WrittenOut, m \in Nat, n \in Nat
    <2>6. O1 = Upto(S, m)
      BY <1>5, <2>3, <2>5 DEF MessageOf, WrittenTo
    <2>7. BytesOf(m + 1, 0, 0 * MaxP) = <<>>
      <3>1. 0 * MaxP = 0 /\ m + 1 \in Nat
        BY MaxPFacts
      <3> QED BY <3>1, NoBytes
    <2> QED BY <2>3, <2>6, <2>7, ConcatEmptySeq
  <1>7. ASSUME NEW k \in 1..Len(L) PROVE m < L[k].msg
    <2>1. PICK y, i : y = L[k].msg /\ i = Slice(L[k])
      OBVIOUS
    <2>2. y \in Nat /\ i \in Nat /\ OnLink(L, y, i) /\ Carries(L[k], S)
      BY <2>1, FrameFacts
    <2>3. m <= y
      BY <2>1 DEF EndedAs, IsHead
    <2>4. ASSUME y = m PROVE FALSE
      <3>1. PICK t : t = Size(L[k])
        OBVIOUS
      <3>2. i * MaxP + t <= S[m] /\ t \in 0..MaxP
        BY <2>1, <2>2, <2>4, <3>1 DEF Carries
      <3>3. i * MaxP <= S[m]
        <4>0. i * MaxP \in Nat /\ MaxP \in Nat
          BY ONLY <2>2, MaxPFacts
        <4>1. i * MaxP \in Nat /\ t \in Nat
          BY ONLY <3>2, <4>0
        <4> QED BY ONLY <1>1, <3>2, <4>1
      <3>4. i \in B
        BY <1>4, <1>5, <2>2, <3>3
      <3>5. ~ OnLink(L, m, i)
        BY <1>3, <2>2, <3>4 DEF Come, Away
      <3> QED BY <2>2, <2>4, <3>5
    <2> QED BY <2>1, <2>2, <2>3, <2>4
  <1>8. ASSUME m = Len(S) PROVE p = NoProcess
    BY <1>8 DEF EndedAs, Running
  <1>9. ASSUME m < Len(S)
        PROVE  Receiving({}, A, L, p, S, 0, NoEnd, 0, m + 1) /\ NoneCame(L, p, S, m + 2)
    <2>1. \A y \in (m + 1)..Len(S), j \in Nat : ~ Come(L, p, S, y, j)
      <3>1. m + 1 = c + 2
        BY <1>1
      <3> QED BY <1>2, <3>1 DEF NoneCame
    <2>2. m + 1 \in (m + 1)..Len(S) /\ \A y \in (m + 2)..Len(S) : y \in (m + 1)..Len(S)
      <3>1. m \in Nat /\ Len(S) \in Nat /\ m < Len(S)
        BY ONLY <1>1, <1>9
      <3> QED BY ONLY <3>1
    <2>3. NoneCame(L, p, S, m + 2)
      BY <2>1, <2>2 DEF NoneCame
    <2>4. Receiving({}, A, L, p, S, 0, NoEnd, 0, m + 1)
      BY <2>1, <2>2 DEF Receiving
    <2> QED BY <2>3, <2>4
  <1> QED BY <1>6, <1>7, <1>8, <1>9 DEF Clean

-----------------------------------------------------------------------------
(* The outcomes of a round of cmd_rx                                           *)

\* Before the round
Reads(L, S, p, f, m, i, z, x, L1, st, A, O, flt, g, e, r) ==
    /\ SentOK(S) /\ Takes(L, S, p, f, m, i, z, x, L1) /\ TrackOK(L, S, p, st.bitmap)
    /\ OutOK(O, L, p, S) /\ g \in SliceIds /\ e \in 0..U8 /\ r \in 0..(MaxP - 1)
    /\ RxOK(st, A, L, p, S, O, g, e, r)
    /\ ~ flt => CleanRx(st.bitmap, A, L, p, S, O, g, e, r)

\* After it
AfterRead(st, A, L, p, S, O, flt) == ReceiverOK(st, A, L, p, S, O, flt) /\ OutOK(O, L, p, S)

\* The numbers of such a round
LEMMA ReadsFacts ==
    ASSUME NEW L, NEW S, NEW p, NEW f, NEW m, NEW i, NEW z, NEW x, NEW L1, NEW st, NEW A, NEW O,
           NEW flt, NEW g, NEW e, NEW r, Reads(L, S, p, f, m, i, z, x, L1, st, A, O, flt, g, e, r),
           NEW e1, NEW r1, EndWith(i, z, x, e, r, e1, r1)
    PROVE  /\ MixedState(st, g, e, r) /\ g \in Nat /\ e \in Nat /\ g \notin st.bitmap
           /\ \A j \in 0..(g - 1) : j \in st.bitmap
           /\ e # NoEnd => e \in st.bitmap /\ g < e
           /\ st.bitmap \in SUBSET SliceIds /\ st.bitmap \subseteq Nat /\ g < NoEnd
           /\ st.watermark = g * MaxP
           /\ e1 \in 0..U8 /\ e1 \in Nat /\ r1 \in 0..(MaxP - 1) /\ (x = 1 => e = NoEnd)
           /\ SliceSent(i, z, x, e) /\ i \in Nat /\ m \in Nat
           /\ st.bitmap \union {i} \subseteq Nat
  <1>1. /\ SentOK(S) /\ Takes(L, S, p, f, m, i, z, x, L1)
        /\ g \in SliceIds /\ e \in 0..U8 /\ r \in 0..(MaxP - 1)
        /\ MixedState(st, g, e, r) /\ EndedAt(L, p, S, st.bitmap, e)
    BY DEF Reads, RxOK
  <1>2. /\ g \in Nat /\ e \in Nat /\ g \notin st.bitmap
        /\ \A j \in 0..(g - 1) : j \in st.bitmap
        /\ e # NoEnd => e \in st.bitmap /\ g < e
        /\ st.bitmap \in SUBSET SliceIds /\ st.bitmap \subseteq Nat
        /\ st.watermark = g * MaxP
    BY <1>1, MixedFacts
  <1>3. g < NoEnd
    BY <1>1, Widths DEF NoEnd, SliceIds
  <1>4. SliceSent(i, z, x, e) /\ (x = 1 => e = NoEnd)
    BY <1>1, <1>2, SliceIsSent
  <1>5. i \in Nat /\ m \in Nat /\ i < U8 /\ z \in Nat /\ x \in 0..1 /\ (x = 1 => z < MaxP)
        /\ MaxP \in Nat \ {0}
    BY <1>1, TakesFacts
  <1>6. U8 \in Nat
    BY Widths
  <1>7. e1 \in 0..U8 /\ e1 \in Nat /\ r1 \in 0..(MaxP - 1)
    <2>1. CASE x = 1
      <3>1. e1 = i /\ r1 = z /\ z < MaxP
        BY <1>5, <2>1 DEF EndWith
      <3> QED BY <1>5, <1>6, <3>1
    <2>2. CASE x # 1
      <3>1. e1 = e /\ r1 = r
        BY <2>2 DEF EndWith
      <3> QED BY <1>1, <1>2, <3>1
    <2> QED BY <2>1, <2>2
  <1> QED BY <1>1, <1>2, <1>3, <1>4, <1>5, <1>7

\* With the new slice, before the flush
LEMMA ReadRecorded ==
    ASSUME NEW L, NEW S, NEW p, NEW f, NEW m, NEW i, NEW z, NEW x, NEW L1, NEW st, NEW A, NEW O,
           NEW flt, NEW g, NEW e, NEW r, Reads(L, S, p, f, m, i, z, x, L1, st, A, O, flt, g, e, r),
           NEW e1, NEW r1, EndWith(i, z, x, e, r, e1, r1),
           i \notin st.bitmap, NEW A1, PutIn(A, A1, m, i, z), NEW B1, B1 = st.bitmap \union {i}
    PROVE  /\ Recorded(A1, L1, p, S, O, B1, g, e1, r1)
           /\ e1 # NoEnd => EndedAs(L1, p, S, B1, e1, m)
  <1>1. /\ SentOK(S) /\ Takes(L, S, p, f, m, i, z, x, L1) /\ TrackOK(L, S, p, st.bitmap)
        /\ OutOK(O, L, p, S) /\ g \in SliceIds /\ e \in 0..U8 /\ r \in 0..(MaxP - 1)
        /\ RxOK(st, A, L, p, S, O, g, e, r)
        /\ EndWith(i, z, x, e, r, e1, r1)
        /\ i \notin st.bitmap /\ PutIn(A, A1, m, i, z) /\ B1 = st.bitmap \union {i}
    BY DEF Reads
  <1> QED BY ONLY <1>1, NewRecorded

\* So far c messages are written out, and message m, the next, is being received.
CleanTo(B, A, L, p, S, O, g, e, r, c, m) ==
    /\ c \in 0..Len(S) /\ c < Len(S) /\ m = c + 1 /\ EndsWhole(L, S)
    /\ Clean(B, A, L, p, S, O, g, e, r, c)

\* While nothing goes wrong the slice is new, and so it goes on.
LEMMA ReadClean ==
    ASSUME NEW L, NEW S, NEW p, NEW f, NEW m, NEW i, NEW z, NEW x, NEW L1, NEW st, NEW A, NEW O,
           NEW flt, NEW g, NEW e, NEW r, Reads(L, S, p, f, m, i, z, x, L1, st, A, O, flt, g, e, r),
           NEW e1, NEW r1, EndWith(i, z, x, e, r, e1, r1), ~ flt
    PROVE  /\ i \notin st.bitmap
           /\ \A A1, B1 : PutIn(A, A1, m, i, z) /\ B1 = st.bitmap \union {i}
                 => \E c : CleanTo(B1, A1, L1, p, S, O, g, e1, r1, c, m)
  <1>1. PICK B : B = st.bitmap
    OBVIOUS
  <1>2. /\ SentOK(S) /\ Takes(L, S, p, f, m, i, z, x, L1)
        /\ CleanRx(B, A, L, p, S, O, g, e, r) /\ r \in 0..(MaxP - 1)
        /\ EndWith(i, z, x, e, r, e1, r1) /\ PendingOK(L, p, S, B, A, O, g, e, r)
    BY <1>1 DEF Reads, RxOK
  <1>3. /\ g \in Nat /\ e \in Nat /\ g \notin B
        /\ \A j \in 0..(g - 1) : j \in B
        /\ e # NoEnd => e \in B /\ g < e
        /\ B \in SUBSET SliceIds /\ B \subseteq Nat /\ g < NoEnd /\ (x = 1 => e = NoEnd)
    BY <1>1, ReadsFacts
  <1>4. PICK c \in 0..Len(S) : Clean(B, A, L, p, S, O, g, e, r, c)
    BY <1>2 DEF CleanRx
  <1>5. m = c + 1 /\ c < Len(S) /\ i \notin B /\ c \in Nat
    BY ONLY <1>2, <1>3, <1>4, CleanHead
  <1>6. /\ EndsWhole(L, S) /\ \A k \in 1..Len(L) : c < L[k].msg
        /\ O = Upto(S, c) \o BytesOf(c + 1, 0, g * MaxP)
        /\ Receiving(B, A, L, p, S, g, e, r, m) /\ NoneCame(L, p, S, c + 2)
    BY <1>2, <1>4, <1>5 DEF CleanRx, Clean
  <1>7. ASSUME NEW A1, NEW B1, PutIn(A, A1, m, i, z), B1 = B \union {i}
        PROVE  CleanTo(B1, A1, L1, p, S, O, g, e1, r1, c, m)
    <2>1. Receiving(B1, A1, L1, p, S, g, e1, r1, m)
      BY ONLY <1>2, <1>3, <1>5, <1>6, <1>7, ReceivingMore
    <2>2. /\ \A k \in 1..Len(L1) : c < L1[k].msg
          /\ EndsWhole(L1, S) /\ NoneCame(L1, p, S, c + 2)
      BY ONLY <1>2, <1>5, <1>6, OthersStay
    <2>3. Len(S) \in Nat
      BY <1>2, SentFacts
    <2>4. Clean(B1, A1, L1, p, S, O, g, e1, r1, c)
      BY <1>4, <1>5, <1>6, <2>1, <2>2, <2>3 DEF Clean
    <2> QED BY <1>4, <1>5, <2>2, <2>4 DEF CleanTo
  <1> QED BY <1>1, <1>5, <1>7

-----------------------------------------------------------------------------
(* What each outcome leaves                                                    *)

\* A slice that was there already: something went wrong before.
LEMMA AfterDuplicate ==
    ASSUME NEW L, NEW S, NEW p, NEW f, NEW m, NEW i, NEW z, NEW x, NEW L1, NEW st, NEW A, NEW O,
           NEW flt, NEW g, NEW e, NEW r, Reads(L, S, p, f, m, i, z, x, L1, st, A, O, flt, g, e, r),
           NEW e1, NEW r1, EndWith(i, z, x, e, r, e1, r1), i \in st.bitmap
    PROVE  AfterRead(st, A, L1, p, S, O, flt)
  <1>1. /\ SentOK(S) /\ Takes(L, S, p, f, m, i, z, x, L1) /\ TrackOK(L, S, p, st.bitmap)
        /\ OutOK(O, L, p, S) /\ g \in SliceIds /\ e \in 0..U8 /\ r \in 0..(MaxP - 1)
        /\ RxOK(st, A, L, p, S, O, g, e, r)
    BY DEF Reads
  <1>2. RxOK(st, A, L1, p, S, O, g, e, r) /\ TrackOK(L1, S, p, st.bitmap)
    BY <1>1, DuplicateKeeps
  <1>3. flt
    BY ReadClean
  <1>4. OutOK(O, L1, p, S)
    BY <1>1, OutStays
  <1>5. ReceiverOK(st, A, L1, p, S, O, flt)
    BY <1>1, <1>2, <1>3 DEF ReceiverOK
  <1> QED BY <1>4, <1>5 DEF AfterRead

\* A slice behind a missing one is kept in the buffer.
LEMMA AfterOutOfOrder ==
    ASSUME NEW L, NEW S, NEW p, NEW f, NEW m, NEW i, NEW z, NEW x, NEW L1, NEW st, NEW A, NEW O,
           NEW flt, NEW g, NEW e, NEW r, Reads(L, S, p, f, m, i, z, x, L1, st, A, O, flt, g, e, r),
           NEW e1, NEW r1, EndWith(i, z, x, e, r, e1, r1),
           i \notin st.bitmap, NEW A1, PutIn(A, A1, m, i, z),
           NEW next, next.bitmap = st.bitmap \union {i}, MixedState(next, g, e1, r1)
    PROVE  AfterRead(next, A1, L1, p, S, O, flt)
  <1>0. PICK B1 : B1 = st.bitmap \union {i} /\ B1 = next.bitmap
    OBVIOUS
  <1>1. Recorded(A1, L1, p, S, O, B1, g, e1, r1)
    BY <1>0, ReadRecorded
  <1>2. /\ g \in SliceIds /\ e1 \in 0..U8 /\ r1 \in 0..(MaxP - 1)
        /\ g * MaxP <= AssemblySize
    BY ReadsFacts DEF Reads, RxOK
  <1>3. RxOK(next, A1, L1, p, S, O, g, e1, r1)
    BY <1>0, <1>1, <1>2 DEF Recorded, RxOK
  <1>4. ASSUME ~ flt PROVE CleanRx(next.bitmap, A1, L1, p, S, O, g, e1, r1)
    <2>1. PICK c : CleanTo(B1, A1, L1, p, S, O, g, e1, r1, c, m)
      BY <1>0, <1>4, ReadClean
    <2> QED BY <1>0, <2>1 DEF CleanTo, CleanRx
  <1>5. ReceiverOK(next, A1, L1, p, S, O, flt)
    BY <1>0, <1>1, <1>2, <1>3, <1>4 DEF ReceiverOK, Recorded
  <1> QED BY <1>1, <1>5 DEF AfterRead, Recorded

\* F is the first n of the bytes that a flush from slice g to w writes, and O1 the
\* output with them.
Flushes(A1, B1, e1, r1, g, w, n, F, O, O1, flt) ==
    /\ w \in Nat /\ g * MaxP <= w /\ Covers(B1, e1, r1, g, w)
    /\ g * MaxP <= AssemblySize /\ w <= AssemblySize
    /\ n \in Nat /\ g * MaxP + n <= w
    /\ IsCopy(F, A1, g * MaxP, n) /\ O1 = O \o F
    /\ ~ flt => g * MaxP + n = w

\* The output holds and what waits is known from the slice the flush reaches.
FlushLeaves(L1, S, p, A1, B1, O1, g, e1, r1, w) ==
    /\ OutOK(O1, L1, p, S)
    /\ \A h \in Nat : g <= h /\ w = h * MaxP => PendingOK(L1, p, S, B1, A1, O1, h, e1, r1)

\* What the flush does to the output
LEMMA ReadFlushes ==
    ASSUME NEW L, NEW S, NEW p, NEW f, NEW m, NEW i, NEW z, NEW x, NEW L1, NEW st, NEW A, NEW O,
           NEW flt, NEW g, NEW e, NEW r, Reads(L, S, p, f, m, i, z, x, L1, st, A, O, flt, g, e, r),
           NEW e1, NEW r1, EndWith(i, z, x, e, r, e1, r1),
           i \notin st.bitmap, NEW A1, PutIn(A, A1, m, i, z), NEW B1, B1 = st.bitmap \union {i},
           NEW w, NEW n, NEW F, NEW O1, Flushes(A1, B1, e1, r1, g, w, n, F, O, O1, flt)
    PROVE  FlushLeaves(L1, S, p, A1, B1, O1, g, e1, r1, w)
  <1>1. Recorded(A1, L1, p, S, O, B1, g, e1, r1)
    BY ReadRecorded
  <1>2. PICK a : a = g * MaxP
    OBVIOUS
  <1>3. /\ g \in Nat /\ e1 \in 0..U8 /\ r1 \in 0..(MaxP - 1) /\ B1 \subseteq Nat /\ SentOK(S)
    BY ReadsFacts DEF Reads
  <1>4. /\ a = g * MaxP /\ a <= AssemblySize /\ w \in Nat /\ a <= w
        /\ Covers(B1, e1, r1, g, w) /\ n \in Nat /\ a + n <= w
        /\ IsCopy(F, A1, a, n) /\ O1 = O \o F
    BY <1>2 DEF Flushes
  <1>5. OutOK(O1, L1, p, S)
    BY ONLY <1>1, <1>3, <1>4, FlushKeeps
  <1>6. ASSUME NEW h \in Nat, g <= h, w = h * MaxP PROVE PendingOK(L1, p, S, B1, A1, O1, h, e1, r1)
    BY ONLY <1>1, <1>3, <1>4, <1>6, FlushKeeps
  <1> QED BY ONLY <1>5, <1>6 DEF FlushLeaves

\* The missing slice comes, and what is contiguous now is written.
LEMMA AfterInOrder ==
    ASSUME NEW L, NEW S, NEW p, NEW f, NEW m, NEW i, NEW z, NEW x, NEW L1, NEW st, NEW A, NEW O,
           NEW flt, NEW g, NEW e, NEW r, Reads(L, S, p, f, m, i, z, x, L1, st, A, O, flt, g, e, r),
           NEW e1, NEW r1, EndWith(i, z, x, e, r, e1, r1),
           i \notin st.bitmap, NEW A1, PutIn(A, A1, m, i, z), NEW B1, B1 = st.bitmap \union {i},
           NEW w, NEW n, NEW F, NEW O1, Flushes(A1, B1, e1, r1, g, w, n, F, O, O1, flt),
           NEW next, next.bitmap = B1, next.watermark = w,
           NEW h \in SliceIds, g < h, MixedState(next, h, e1, r1)
    PROVE  AfterRead(next, A1, L1, p, S, O1, flt)
  <1>1. Recorded(A1, L1, p, S, O, B1, g, e1, r1)
    BY ReadRecorded
  <1>2. /\ g \in Nat /\ e1 \in 0..U8 /\ r1 \in 0..(MaxP - 1) /\ B1 \subseteq Nat /\ SentOK(S)
        /\ h \in Nat /\ g <= h
    <2>1. h \in Nat
      BY Widths DEF SliceIds
    <2>2. /\ g \in Nat /\ e1 \in 0..U8 /\ r1 \in 0..(MaxP - 1) /\ B1 \subseteq Nat /\ SentOK(S)
      BY ReadsFacts DEF Reads
    <2> QED BY <2>1, <2>2
  <1>3. w = h * MaxP /\ h * MaxP <= AssemblySize
    BY DEF MixedState, Flushes
  <1>4. OutOK(O1, L1, p, S) /\ PendingOK(L1, p, S, B1, A1, O1, h, e1, r1)
    <2>1. FlushLeaves(L1, S, p, A1, B1, O1, g, e1, r1, w)
      BY ReadFlushes
    <2> QED BY ONLY <1>2, <1>3, <2>1 DEF FlushLeaves
  <1>5. RxOK(next, A1, L1, p, S, O1, h, e1, r1)
    BY <1>1, <1>3, <1>4 DEF Recorded, RxOK
  <1>6. ASSUME ~ flt PROVE CleanRx(next.bitmap, A1, L1, p, S, O1, h, e1, r1)
    <2>1. PICK c : CleanTo(B1, A1, L1, p, S, O, g, e1, r1, c, m)
      BY <1>6, ReadClean
    <2>2. PICK a : a = g * MaxP
      OBVIOUS
    <2>3. /\ a = g * MaxP /\ n \in Nat /\ a + n = w /\ Covers(B1, e1, r1, g, w)
          /\ IsCopy(F, A1, a, n) /\ O1 = O \o F
      BY <1>6, <2>2 DEF Flushes
    <2>4. c \in 0..Len(S) /\ c < Len(S) /\ Clean(B1, A1, L1, p, S, O, g, e1, r1, c)
          /\ EndsWhole(L1, S)
      BY <2>1 DEF CleanTo
    <2>5. Clean(B1, A1, L1, p, S, O1, h, e1, r1, c)
      BY ONLY <1>2, <1>3, <2>3, <2>4, CleanGoesOn
    <2> QED BY <2>4, <2>5 DEF CleanRx
  <1>7. ReceiverOK(next, A1, L1, p, S, O1, flt)
    BY <1>1, <1>2, <1>5, <1>6 DEF ReceiverOK, Recorded
  <1> QED BY <1>4, <1>7 DEF AfterRead

\* When the slices in B are those of one message, w is the end of it.
EndReached(B, e, r, w) == B \subseteq 0..e => 0..e \subseteq B /\ w = e * MaxP + r

\* Nothing is missing any more of the message that ended: its last bytes are
\* written, and its state is forgotten.
LEMMA AfterComplete ==
    ASSUME NEW L, NEW S, NEW p, NEW f, NEW m, NEW i, NEW z, NEW x, NEW L1, NEW st, NEW A, NEW O,
           NEW flt, NEW g, NEW e, NEW r, Reads(L, S, p, f, m, i, z, x, L1, st, A, O, flt, g, e, r),
           NEW e1, NEW r1, EndWith(i, z, x, e, r, e1, r1), e1 # NoEnd,
           i \notin st.bitmap, NEW A1, PutIn(A, A1, m, i, z), NEW B1, B1 = st.bitmap \union {i},
           NEW w, NEW n, NEW F, NEW O1, Flushes(A1, B1, e1, r1, g, w, n, F, O, O1, flt),
           EndReached(B1, e1, r1, w)
    PROVE  AfterRead(ZeroState, A1, L1, p, S, O1, flt)
  <1>1. Recorded(A1, L1, p, S, O, B1, g, e1, r1) /\ EndedAs(L1, p, S, B1, e1, m)
    BY ReadRecorded
  <1>2. /\ g \in Nat /\ e1 \in Nat /\ r1 \in 0..(MaxP - 1) /\ B1 \subseteq Nat /\ SentOK(S)
        /\ m \in Nat
    BY ReadsFacts DEF Reads
  <1>3. Takes(L, S, p, f, m, i, z, x, L1) /\ TrackOK(L, S, p, st.bitmap)
    BY DEF Reads
  <1>4. OutOK(O1, L1, p, S)
    <2>1. FlushLeaves(L1, S, p, A1, B1, O1, g, e1, r1, w)
      BY ReadFlushes
    <2> QED BY ONLY <2>1 DEF FlushLeaves
  <1>5. TrackOK(L1, S, p, {})
    BY <1>1, <1>2, <1>3, TrackAfresh
  <1>6. /\ RxOK(ZeroState, A1, L1, p, S, O1, 0, NoEnd, 0) /\ ZeroState.bitmap = {}
        /\ 0 \in SliceIds /\ NoEnd \in 0..U8 /\ 0 \in 0..(MaxP - 1)
    BY <1>1, ZeroMixed DEF Recorded
  <1>7. ASSUME ~ flt PROVE CleanRx({}, A1, L1, p, S, O1, 0, NoEnd, 0)
    <2>1. PICK c : CleanTo(B1, A1, L1, p, S, O, g, e1, r1, c, m)
      BY <1>7, ReadClean
    <2>2. PICK a : a = g * MaxP
      OBVIOUS
    <2>3. /\ a = g * MaxP /\ n \in Nat /\ a + n = w /\ w \in Nat /\ Covers(B1, e1, r1, g, w)
          /\ IsCopy(F, A1, a, n) /\ O1 = O \o F
          /\ (B1 \subseteq 0..e1 => 0..e1 \subseteq B1 /\ w = e1 * MaxP + r1)
      BY <1>7, <2>2 DEF Flushes, EndReached
    <2>4. c \in 0..Len(S) /\ c < Len(S) /\ Clean(B1, A1, L1, p, S, O, g, e1, r1, c)
          /\ EndsWhole(L1, S) /\ m = c + 1
      BY <2>1 DEF CleanTo
    <2>5. LinkOK(L1, S, p) /\ EndedAs(L1, p, S, B1, e1, m) /\ e1 # NoEnd
      BY <1>1, <1>3 DEF Takes
    <2>6. Clean({}, A1, L1, p, S, O1, 0, NoEnd, 0, m)
      BY ONLY <1>2, <2>3, <2>4, <2>5, CleanEnds
    <2>7. m \in 0..Len(S)
      <3>1. Len(S) \in Nat
        BY <1>2, SentFacts
      <3> QED BY <2>4, <3>1
    <2> QED BY <2>4, <2>6, <2>7 DEF CleanRx
  <1>8. ReceiverOK(ZeroState, A1, L1, p, S, O1, flt)
    BY <1>5, <1>6, <1>7 DEF ReceiverOK
  <1> QED BY <1>4, <1>8 DEF AfterRead

-----------------------------------------------------------------------------
(* One round of cmd_rx                                                         *)

\* What a round does with the state st and the buffer A when the step of slice i,
\* whose first z bytes payload holds, is step.
RoundIs(call, step, st, A, i, z, payload) ==
    IF step.e = "DUPLICATE"
      THEN call.state = st /\ call.assembly = A /\ call.flush = <<>> /\ ~ call.puts /\ ~ call.reads
      ELSE /\ call.state = (IF step.e = "COMPLETE" THEN ZeroState ELSE step.next_state)
           /\ call.assembly = Overwrite(A, i * MaxP, SubSeq(payload, 1, z))
           /\ ~ call.reads =>
                 call.flush = Flush(call.assembly, st.watermark, step.next_state.watermark)
           /\ call.reads => /\ st.watermark < step.next_state.watermark
                            /\ step.next_state.watermark > AssemblySize
           /\ call.puts <=> z > 0 /\ i * MaxP + z > AssemblySize

\* Putting nothing changes nothing.
LEMMA PutNothing ==
    ASSUME NEW A, BufferOK(A), NEW a
    PROVE  Overwrite(A, a, <<>>) = A
  <1>1. A \in Seq(Pairs)
    BY DEF BufferOK
  <1>2. A = [k \in 1..Len(A) |-> A[k]]
    BY <1>1
  <1>3. DOMAIN <<>> = {} /\ DOMAIN A = 1..Len(A)
    BY <1>1
  <1>4. Overwrite(A, a, <<>>) = [k \in 1..Len(A) |-> A[k]]
    BY <1>3 DEF Overwrite
  <1> QED BY ONLY <1>2, <1>4

\* RxCall is such a round.
LEMMA CallIs ==
    ASSUME NEW f, NEW i \in Nat, i = Slice(f), NEW z, z = Size(f), NEW x, x = Eop(f),
           i * MaxP \in Nat, i * MaxP < U16, BufferOK(rxSession.assembly),
           NEW step, step = mp_rx_calc_slice_step(rxSession.state, i, z, MaxP, x = 1)
    PROVE  RoundIs(RxCall(f), step, rxSession.state, rxSession.assembly, i, z, f.payload)
  <1> DEFINE hdr  == mp_header_unpack(f.header)
             call == mp_rx_stream_feed(rxSession.state, f.header)
             data == IF call.notify THEN SubSeq(f.payload, 1, call.payload_size) ELSE <<>>
  <1>1. /\ hdr.slice_serial = i /\ hdr.slice_payload_size = z /\ (hdr.eop = 1 <=> x = 1)
    BY DEF Slice, Size, Eop
  <1>2. mp_rx_calc_slice_step(rxSession.state, hdr.slice_serial, hdr.slice_payload_size, MaxP,
                              hdr.eop = 1) = step
    BY DEF Slice, Size, Eop
  <1>3. /\ call.notify = (step.e # "DUPLICATE")
        /\ call.stored = (IF step.e = "COMPLETE" THEN ZeroState ELSE step.next_state)
        /\ call.coord = mp_rx_header_to_coordinate(TU, hdr)
        /\ call.old_watermark = rxSession.state.watermark
        /\ call.watermark = step.next_state.watermark
        /\ call.payload_size = z
    BY <1>1, <1>2 DEF mp_rx_stream_feed
  <1>4. call.coord.offset = i * MaxP
    <2>1. call.coord.offset = mp_slice_idx_to_offset(i, MaxP)
      BY <1>1, <1>3 DEF mp_rx_header_to_coordinate, MaxP
    <2>2. mp_slice_idx_to_offset(i, MaxP) = i * MaxP
      <3>1. PICK a : a = i * MaxP
        OBVIOUS
      <3>2. a \in Nat /\ a < U16 /\ U16 \in Nat
        BY <3>1, Widths
      <3>3. a % U16 = a
        BY <3>2
      <3> QED BY <3>1, <3>3 DEF mp_slice_idx_to_offset
    <2> QED BY <2>1, <2>2
  <1>d. data = (IF call.notify THEN SubSeq(f.payload, 1, call.payload_size) ELSE <<>>)
    OBVIOUS
  <1>5. /\ RxCall(f).state = (IF call.notify THEN call.stored ELSE rxSession.state)
        /\ RxCall(f).assembly = Overwrite(rxSession.assembly, call.coord.offset, data)
        /\ RxCall(f).reads = (/\ call.notify /\ call.old_watermark < call.watermark
                              /\ call.watermark > AssemblySize)
        /\ RxCall(f).flush = (IF call.notify /\ ~ RxCall(f).reads
              THEN Flush(RxCall(f).assembly, call.old_watermark, call.watermark) ELSE <<>>)
        /\ RxCall(f).puts = (/\ call.notify /\ call.payload_size > 0
                             /\ call.coord.offset + call.payload_size > AssemblySize)
    BY DEF RxCall
  <1> HIDE DEF call, hdr, data
  <1>6. CASE step.e = "DUPLICATE"
    <2>1. ~ call.notify
      BY <1>3, <1>6
    <2>2. data = <<>>
      BY <1>d, <2>1
    <2>3. RxCall(f).assembly = rxSession.assembly
      BY <1>5, <2>2, PutNothing
    <2>4. /\ RxCall(f).state = rxSession.state
          /\ RxCall(f).flush = <<>> /\ ~ RxCall(f).puts /\ ~ RxCall(f).reads
      BY <1>5, <2>1
    <2> QED BY ONLY <1>6, <2>3, <2>4 DEF RoundIs
  <1>7. CASE step.e # "DUPLICATE"
    <2>1. call.notify
      BY <1>3, <1>7
    <2>2. /\ RxCall(f).state = call.stored
          /\ RxCall(f).assembly = Overwrite(rxSession.assembly, call.coord.offset,
                                            SubSeq(f.payload, 1, call.payload_size))
          /\ ~ RxCall(f).reads => RxCall(f).flush = Flush(RxCall(f).assembly, call.old_watermark,
                                                          call.watermark)
          /\ RxCall(f).reads => /\ call.old_watermark < call.watermark
                                /\ call.watermark > AssemblySize
          /\ RxCall(f).puts <=> /\ call.payload_size > 0
                                /\ call.coord.offset + call.payload_size > AssemblySize
      BY <1>5, <1>d, <2>1
    <2>3. /\ RxCall(f).state = (IF step.e = "COMPLETE" THEN ZeroState ELSE step.next_state)
          /\ RxCall(f).assembly = Overwrite(rxSession.assembly, i * MaxP,
                                            SubSeq(f.payload, 1, z))
          /\ ~ RxCall(f).reads =>
                RxCall(f).flush = Flush(RxCall(f).assembly, rxSession.state.watermark,
                                        step.next_state.watermark)
          /\ RxCall(f).reads => /\ rxSession.state.watermark < step.next_state.watermark
                                /\ step.next_state.watermark > AssemblySize
          /\ RxCall(f).puts <=> z > 0 /\ i * MaxP + z > AssemblySize
      BY ONLY <1>3, <1>4, <2>2
    <2> QED BY ONLY <1>7, <2>3 DEF RoundIs
  <1> QED BY <1>6, <1>7

\* The round writes n bytes, F, of what the flush up to w yields, and O1 is the
\* output with them.
RoundWrites(A1, st, w, n, F, O, O1, flt) ==
    \E G : /\ G = Flush(A1, st.watermark, w) /\ (Len(G) \in Nat => n \in 0..Len(G))
           /\ (~ flt => n = Len(G)) /\ F = SubSeq(G, 1, n) /\ O1 = O \o F

\* The watermark stays inside the buffer.
LEMMA RoundReaches ==
    ASSUME NEW L, NEW S, NEW p, NEW f, NEW m, NEW i, NEW z, NEW x, NEW L1, NEW st, NEW A, NEW O,
           NEW flt, NEW g, NEW e, NEW r, Reads(L, S, p, f, m, i, z, x, L1, st, A, O, flt, g, e, r),
           NEW e1, NEW r1, EndWith(i, z, x, e, r, e1, r1),
           i \notin st.bitmap, NEW A1, PutIn(A, A1, m, i, z), NEW B1, B1 = st.bitmap \union {i},
           NEW w \in Nat, NEW a, a = g * MaxP, a <= w, Covers(B1, e1, r1, g, w)
    PROVE  /\ a \in Nat /\ a <= AssemblySize /\ w <= AssemblySize /\ BufferOK(A1)
           /\ st.watermark = a
  <1>1. Recorded(A1, L1, p, S, O, B1, g, e1, r1)
    BY ReadRecorded
  <1>3. /\ g \in Nat /\ e1 \in 0..U8 /\ r1 \in 0..(MaxP - 1) /\ SentOK(S) /\ st.watermark = a
    BY ReadsFacts DEF Reads
  <1>4. a \in Nat /\ a <= w /\ a <= AssemblySize
    <2>1. g * MaxP <= AssemblySize
      BY DEF Reads, RxOK
    <2> QED BY <1>3, <2>1, SliceOrder
  <1>5. PendingOK(L1, p, S, B1, A1, O, g, e1, r1) /\ BufferOK(A1)
    BY <1>1 DEF Recorded, PutIn
  <1>6. w <= AssemblySize
    <2>1. SentOK(S) /\ r1 \in 0..(MaxP - 1) /\ g \in Nat /\ a = g * MaxP
          /\ PendingOK(L1, p, S, B1, A1, O, g, e1, r1) /\ w \in Nat /\ Covers(B1, e1, r1, g, w)
          /\ a <= AssemblySize
      BY <1>3, <1>4, <1>5
    <2> QED BY ONLY <1>4, <2>1, CoveredWaits
  <1> QED BY <1>3, <1>4, <1>5, <1>6

\* What such a round writes when the slice is the one missing
LEMMA RoundFlushes ==
    ASSUME NEW L, NEW S, NEW p, NEW f, NEW m, NEW i, NEW z, NEW x, NEW L1, NEW st, NEW A, NEW O,
           NEW flt, NEW g, NEW e, NEW r, Reads(L, S, p, f, m, i, z, x, L1, st, A, O, flt, g, e, r),
           NEW e1, NEW r1, EndWith(i, z, x, e, r, e1, r1),
           i \notin st.bitmap, NEW A1, PutIn(A, A1, m, i, z), NEW B1, B1 = st.bitmap \union {i},
           NEW w \in Nat, NEW b, b = g * MaxP, b <= w, Covers(B1, e1, r1, g, w),
           NEW n, NEW F, NEW O1, RoundWrites(A1, st, w, n, F, O, O1, flt)
    PROVE  Flushes(A1, B1, e1, r1, g, w, n, F, O, O1, flt)
  <1>0. PICK G : /\ G = Flush(A1, st.watermark, w) /\ (Len(G) \in Nat => n \in 0..Len(G))
                 /\ (~ flt => n = Len(G)) /\ F = SubSeq(G, 1, n) /\ O1 = O \o F
    BY DEF RoundWrites
  <1>2. PICK a : a = g * MaxP
    OBVIOUS
  <1>3. /\ a \in Nat /\ a <= AssemblySize /\ w <= AssemblySize /\ BufferOK(A1)
        /\ st.watermark = a
    BY <1>2, RoundReaches
  <1>4. a <= w
    BY <1>2
  <1>5. BufferOK(A1)
    BY <1>3
  <1>6. w <= AssemblySize
    BY <1>3
  <1>7. IsCopy(F, A1, a, n) /\ Len(G) = w - a /\ a + n <= w
    <2>1. /\ BufferOK(A1) /\ a \in Nat /\ w \in Nat /\ a <= w /\ w <= AssemblySize
          /\ G = Flush(A1, a, w) /\ n \in 0..Len(G) /\ F = SubSeq(G, 1, n)
      <3>1. Len(G) \in Nat
        <4>1. A1 \in Seq(Pairs) /\ Len(A1) = AssemblySize
          BY <1>5 DEF BufferOK
        <4>2. G = SubSeq(A1, a + 1, w)
          <5>1. G = Flush(A1, a, w)
            BY <1>0, <1>3
          <5> QED BY ONLY <1>3, <1>4, <1>6, <4>1, <5>1, w \in Nat, FlushIs
        <4>3. AssemblySize \in Nat
          BY <4>1, LenProperties
        <4>4. Len(G) = w - a
          BY ONLY <1>3, <1>4, <1>6, <4>1, <4>2, <4>3, w \in Nat
        <4> QED BY ONLY <1>3, <1>4, <4>4, w \in Nat
      <3> QED BY <1>0, <1>3, <1>4, <1>5, <1>6, <3>1
    <2> QED BY ONLY <2>1, FlushPart
  <1>8. n \in Nat /\ (~ flt => a + n = w)
    BY <1>0, <1>3, <1>4, <1>7
  <1>9. O1 = O \o F /\ Covers(B1, e1, r1, g, w)
    BY <1>0
  <1>10. IsCopy(F, A1, g * MaxP, n) /\ g * MaxP + n <= w /\ g * MaxP <= w /\ g * MaxP <= AssemblySize
         /\ (~ flt => g * MaxP + n = w)
    BY ONLY <1>2, <1>3, <1>4, <1>7, <1>8
  <1> QED BY ONLY <1>3, <1>8, <1>9, <1>10, w \in Nat DEF Flushes

\* Nothing is flushed when the watermark stays.
LEMMA NoFlush ==
    ASSUME NEW A, NEW a \in Nat
    PROVE  Flush(A, a, a) = <<>>
  <1> DEFINE n == IF a < a THEN (a - a + MaxP - 1) \div MaxP ELSE 0
             FlushedFrom(off) == SubSeq(A, off + 1, off + mp_rx_deliver_size(off, a, MaxP))
             s == [j \in 1..n |-> FlushedFrom(a + (j - 1) * MaxP)]
  <1>1. Flush(A, a, a) = FlattenSeq(s)
    BY DEF Flush
  <1>2. s = <<>>
    OBVIOUS
  <1>3. FlattenSeq(<<>>) = <<>>
    BY DEF FlattenSeq
  <1> HIDE DEF s
  <1> QED BY ONLY <1>1, <1>2, <1>3

\* What a round needs to know of the step
LEMMA RoundStep ==
    ASSUME NEW L, NEW S, NEW p, NEW f, NEW m, NEW i, NEW z, NEW x, NEW L1, NEW st, NEW A, NEW O,
           NEW flt, NEW g, NEW e, NEW r, Reads(L, S, p, f, m, i, z, x, L1, st, A, O, flt, g, e, r),
           NEW e1, NEW r1, EndWith(i, z, x, e, r, e1, r1),
           NEW step, step = mp_rx_calc_slice_step(st, i, z, MaxP, x = 1)
    PROVE  MixedOutcome(st, g, e1, r1, i, step)
  <1>1. /\ g \in SliceIds /\ e \in 0..U8 /\ r \in 0..(MaxP - 1) /\ MixedState(st, g, e, r)
        /\ SliceSent(i, z, x, e)
    BY ReadsFacts DEF Reads
  <1>2. e1 = (IF x = 1 THEN i ELSE e) /\ r1 = (IF x = 1 THEN z ELSE r)
    BY DEF EndWith
  <1> QED BY ONLY <1>1, <1>2, step = mp_rx_calc_slice_step(st, i, z, MaxP, x = 1), MixedStep

\* The frame is put into the buffer where it belongs.
LEMMA RoundPuts ==
    ASSUME NEW L, NEW S, NEW p, NEW f, NEW m, NEW i, NEW z, NEW x, NEW L1, NEW st, NEW A, NEW O,
           NEW flt, NEW g, NEW e, NEW r, Reads(L, S, p, f, m, i, z, x, L1, st, A, O, flt, g, e, r),
           NEW A1, A1 = Overwrite(A, i * MaxP, SubSeq(f.payload, 1, z)),
           ~ (z > 0 /\ i * MaxP + z > AssemblySize)
    PROVE  PutIn(A, A1, m, i, z)
  <1>1. SentOK(S) /\ Takes(L, S, p, f, m, i, z, x, L1) /\ BufferOK(A)
    BY DEF Reads, RxOK
  <1>2. PICK a : a = i * MaxP
    OBVIOUS
  <1>3. /\ m \in 1..Len(S) /\ i \in Nat /\ z \in 0..MaxP /\ z \in Nat
        /\ a \in Nat
        /\ Holds(f.payload, m, a, z) /\ f \in Frames /\ Len(S) \in Nat
    BY <1>1, <1>2, TakesFacts
  <1>4. AssemblySize \in Nat
    BY Widths, MaxPFacts, WidthAssumption, ToolAssumption DEF AssemblySize, cmd_config_accepts
  <1>5. 0 < z => a + z <= AssemblySize
    <2>1. ~ (z > 0 /\ a + z > AssemblySize)
      BY <1>2
    <2> QED BY ONLY <1>3, <1>4, <2>1
  <1>6. m \in 0..MaxMessages
    <2>1. Len(S) <= MaxMessages /\ MaxMessages \in Nat
      BY <1>1, ToolAssumption DEF SentOK
    <2> QED BY <1>3, <2>1
  <1>7. f.payload \in [1..MaxP -> Pairs]
    BY <1>3 DEF Frames
  <1>8. A1 = Overwrite(A, a, SubSeq(f.payload, 1, z))
    BY <1>2
  <1>9. PutIn(A, A1, m, i, z)
    BY ONLY <1>1, <1>2, <1>3, <1>5, <1>6, <1>7, <1>8, PutFacts
  <1> QED BY <1>9

\* A round on slice i, of z bytes and with the eop bit x
IsRound(call, st, A, i, z, x, payload) ==
    \E step : /\ step = mp_rx_calc_slice_step(st, i, z, MaxP, x = 1)
              /\ RoundIs(call, step, st, A, i, z, payload)

\* O1 is the output with the n bytes that the round writes.
IsOutput(call, n, O, O1, flt) ==
    /\ Len(call.flush) \in Nat => n \in 0..Len(call.flush)
    /\ ~ flt => n = Len(call.flush)
    /\ O1 = O \o SubSeq(call.flush, 1, n)

\* Whatever the step is, a round leaves the receiver in order.
LEMMA RoundKeeps ==
    ASSUME NEW L, NEW S, NEW p, NEW f, NEW m, NEW i, NEW z, NEW x, NEW L1, NEW st, NEW A, NEW O,
           NEW flt, NEW g, NEW e, NEW r, Reads(L, S, p, f, m, i, z, x, L1, st, A, O, flt, g, e, r),
           NEW call, IsRound(call, st, A, i, z, x, f.payload), ~ call.puts,
           NEW n, NEW O1, IsOutput(call, n, O, O1, flt)
    PROVE  AfterRead(call.state, call.assembly, L1, p, S, O1, flt) /\ ~ call.reads
  <1>a. PICK step : /\ step = mp_rx_calc_slice_step(st, i, z, MaxP, x = 1)
                    /\ RoundIs(call, step, st, A, i, z, f.payload)
    BY DEF IsRound
  <1>b. PICK F : F = SubSeq(call.flush, 1, n)
    OBVIOUS
  <1>c. /\ O1 = O \o F /\ (~ flt => n = Len(call.flush))
        /\ Len(call.flush) \in Nat => n \in 0..Len(call.flush)
    BY <1>b DEF IsOutput
  <1>1. PICK e1, r1 : EndWith(i, z, x, e, r, e1, r1)
    BY DEF EndWith
  <1>2. MixedOutcome(st, g, e1, r1, i, step)
    BY <1>1, <1>a, RoundStep
  <1>3. PICK next : next = step.next_state
    OBVIOUS
  <1>4. PICK B1 : B1 = st.bitmap \union {i}
    OBVIOUS
  <1>5. O \in Seq(BytePairs)
    BY DEF Reads, OutOK
  <1>6. CASE i \in st.bitmap
    <2>1. step.e = "DUPLICATE"
      BY <1>2, <1>6 DEF MixedOutcome
    <2>2. call.state = st /\ call.assembly = A /\ call.flush = <<>> /\ ~ call.reads
      BY <1>a, <2>1 DEF RoundIs
    <2>3. F = <<>>
      BY <1>b, <1>c, <2>2
    <2>4. O1 = O
      BY ONLY <1>5, <2>3, <1>c, ConcatEmptySeq
    <2>5. AfterRead(st, A, L1, p, S, O, flt)
      BY <1>1, <1>6, AfterDuplicate
    <2> QED BY ONLY <2>2, <2>4, <2>5
  <1>7. PICK A1 : A1 = Overwrite(A, i * MaxP, SubSeq(f.payload, 1, z))
    OBVIOUS
  <1>8. ASSUME step.e # "DUPLICATE" PROVE PutIn(A, A1, m, i, z)
    <2>1. ~ (z > 0 /\ i * MaxP + z > AssemblySize)
      BY <1>a, <1>8 DEF RoundIs
    <2> QED BY <1>7, <2>1, RoundPuts
  <1>9. CASE i \notin st.bitmap /\ i # g
    <2>1. /\ step.e = "NEW_SLICE_OUT_OF_ORDER" /\ next.bitmap = B1
          /\ MixedState(next, g, e1, r1)
      BY <1>2, <1>3, <1>4, <1>9 DEF MixedOutcome
    <2>a. PutIn(A, A1, m, i, z)
      BY <1>8, <2>1
    <2>b. st.watermark = g * MaxP /\ next.watermark = g * MaxP /\ g * MaxP \in Nat
      BY <1>1, <2>1, ReadsFacts, SliceOrder DEF MixedState
    <2>2. /\ call.state = next /\ call.assembly = A1 /\ ~ call.reads
          /\ call.flush = Flush(A1, st.watermark, next.watermark)
      <3>1. /\ call.state = (IF step.e = "COMPLETE" THEN ZeroState ELSE step.next_state)
            /\ call.assembly = Overwrite(A, i * MaxP, SubSeq(f.payload, 1, z))
            /\ ~ call.reads =>
                  call.flush = Flush(call.assembly, st.watermark, step.next_state.watermark)
            /\ call.reads => st.watermark < step.next_state.watermark
        BY <1>a, <2>1 DEF RoundIs
      <3>2. call.assembly = A1
        BY <1>7, <3>1
      <3>3. ~ call.reads
        BY <1>3, <2>b, <3>1
      <3> QED BY ONLY <1>3, <2>1, <3>1, <3>2, <3>3
    <2>3. AfterRead(next, A1, L1, p, S, O, flt)
      BY <1>1, <1>4, <1>9, <2>a, <2>1, AfterOutOfOrder
    <2>4. O1 = O
      <3>1. PICK a : a = g * MaxP
        OBVIOUS
      <3>2. st.watermark = a /\ next.watermark = a /\ a \in Nat
        BY <1>1, <2>1, <3>1, ReadsFacts, SliceOrder DEF MixedState
      <3>3. call.flush = <<>>
        BY <2>2, <3>2, NoFlush
      <3>4. F = <<>>
        BY <1>b, <1>c, <3>3
      <3> QED BY ONLY <1>5, <3>4, <1>c, ConcatEmptySeq
    <2> QED BY ONLY <2>2, <2>3, <2>4
  <1>10. CASE i \notin st.bitmap /\ i = g
    <2>1. PICK w, b : w = next.watermark /\ b = g * MaxP
      OBVIOUS
    <2>2. /\ w \in Nat /\ b <= w /\ Covers(B1, e1, r1, g, w)
          /\ \/ /\ step.e = "NEW_SLICE_IN_ORDER" /\ next.bitmap = B1
                /\ \E h \in SliceIds : g < h /\ MixedState(next, h, e1, r1)
             \/ /\ step.e = "COMPLETE" /\ e1 # NoEnd /\ EndReached(B1, e1, r1, w)
      BY <1>2, <1>3, <1>4, <1>10, <2>1 DEF MixedOutcome, EndReached
    <2>3. step.e # "DUPLICATE"
      BY <2>2
    <2>a. PutIn(A, A1, m, i, z)
      BY <1>8, <2>3
    <2>6. /\ Reads(L, S, p, f, m, i, z, x, L1, st, A, O, flt, g, e, r)
          /\ EndWith(i, z, x, e, r, e1, r1) /\ i \notin st.bitmap
          /\ PutIn(A, A1, m, i, z) /\ B1 = st.bitmap \union {i}
      BY <1>1, <1>4, <2>a, <1>10
    <2>b. w <= AssemblySize /\ AssemblySize \in Nat
      <3>1. w <= AssemblySize
        BY ONLY <2>1, <2>2, <2>6, RoundReaches
      <3> QED BY <3>1, Widths, MaxPFacts, WidthAssumption, ToolAssumption
              DEF AssemblySize, cmd_config_accepts
    <2>4. /\ call.assembly = A1 /\ ~ call.reads
          /\ call.flush = Flush(A1, st.watermark, w)
          /\ call.state = (IF step.e = "COMPLETE" THEN ZeroState ELSE next)
      <3>1. /\ call.state = (IF step.e = "COMPLETE" THEN ZeroState ELSE step.next_state)
            /\ call.assembly = Overwrite(A, i * MaxP, SubSeq(f.payload, 1, z))
            /\ ~ call.reads =>
                  call.flush = Flush(call.assembly, st.watermark, step.next_state.watermark)
            /\ call.reads => step.next_state.watermark > AssemblySize
        BY <1>a, <2>3 DEF RoundIs
      <3>2. call.assembly = A1
        BY <1>7, <3>1
      <3>3. ~ call.reads
        BY <1>3, <2>1, <2>2, <2>b, <3>1
      <3>4. step.next_state.watermark = w
        BY <1>3, <2>1
      <3> QED BY ONLY <1>3, <3>1, <3>2, <3>3, <3>4
    <2>5. RoundWrites(A1, st, w, n, F, O, O1, flt)
      BY <1>b, <1>c, <2>4 DEF RoundWrites
    <2>7. Flushes(A1, B1, e1, r1, g, w, n, F, O, O1, flt)
      BY ONLY <2>1, <2>2, <2>5, <2>6, RoundFlushes
    <2>8. CASE step.e = "NEW_SLICE_IN_ORDER"
      <3>1. PICK h \in SliceIds : g < h /\ MixedState(next, h, e1, r1)
        BY <2>2, <2>8
      <3>2. next.bitmap = B1 /\ next.watermark = w
        BY <2>1, <2>2, <2>8
      <3>3. AfterRead(next, A1, L1, p, S, O1, flt)
        BY ONLY <2>6, <2>7, <3>1, <3>2, AfterInOrder
      <3>4. call.state = next
        BY <2>4, <2>8
      <3> QED BY ONLY <2>4, <3>3, <3>4
    <2>9. CASE step.e = "COMPLETE"
      <3>1. e1 # NoEnd /\ EndReached(B1, e1, r1, w)
        BY <2>2, <2>9
      <3>2. AfterRead(ZeroState, A1, L1, p, S, O1, flt)
        BY ONLY <2>6, <2>7, <3>1, AfterComplete
      <3>3. call.state = ZeroState
        BY <2>4, <2>9
      <3> QED BY ONLY <2>4, <3>2, <3>3
    <2> QED BY <2>2, <2>8, <2>9
  <1> QED BY <1>6, <1>9, <1>10

\* A round of cmd_rx on one of the frames it may read keeps everything in order.
LEMMA FrameStep ==
    ASSUME NEW coord, NEW p, NEW L, NEW S, NEW O, NEW flt, ToolsOK(coord, p, L, S, O),
           ReceiverOK(rxSession.state, rxSession.assembly, L, p, S, O, flt),
           NEW k \in 1..Len(L), L[k].msg = L[1].msg, NEW call, call = RxCall(L[k]), ~ call.puts,
           NEW n, NEW O1, IsOutput(call, n, O, O1, flt),
           NEW L1, L1 = RemoveAt(L, k)
    PROVE  /\ ToolsOK(coord, p, L1, S, O1) /\ ~ call.reads
           /\ ReceiverOK(call.state, call.assembly, L1, p, S, O1, flt)
  <1>1. PICK f, m, i, z, x : f = L[k] /\ m = f.msg /\ i = Slice(f) /\ z = Size(f) /\ x = Eop(f)
    OBVIOUS
  <1>2. PICK st, A : st = rxSession.state /\ A = rxSession.assembly
    OBVIOUS
  <1>3. /\ SentOK(S) /\ SessionOK(coord) /\ TxOK(p, S, coord) /\ LinkOK(L, S, p)
        /\ OutOK(O, L, p, S)
    BY DEF ToolsOK
  <1>4. Takes(L, S, p, f, m, i, z, x, L1)
    <2>1. L[k].msg = L[1].msg /\ L1 = RemoveAt(L, k)
      OBVIOUS
    <2> QED BY ONLY <1>1, <1>3, <2>1, k \in 1..Len(L), FrameTaken
  <1>5. PICK g \in SliceIds, e \in 0..U8, r \in 0..(MaxP - 1) :
           /\ RxOK(st, A, L, p, S, O, g, e, r)
           /\ ~ flt => CleanRx(st.bitmap, A, L, p, S, O, g, e, r)
    BY <1>2 DEF ReceiverOK
  <1>6. TrackOK(L, S, p, st.bitmap)
    BY <1>2 DEF ReceiverOK
  <1>7. Reads(L, S, p, f, m, i, z, x, L1, st, A, O, flt, g, e, r)
    BY ONLY <1>3, <1>4, <1>5, <1>6 DEF Reads
  <1>8. i \in Nat /\ i * MaxP \in Nat /\ i * MaxP < U16
    BY <1>3, <1>4, TakesFacts
  <1>9. IsRound(call, st, A, i, z, x, f.payload)
    <2>1. PICK step : step = mp_rx_calc_slice_step(st, i, z, MaxP, x = 1)
      OBVIOUS
    <2>2. RoundIs(RxCall(f), step, rxSession.state, rxSession.assembly, i, z, f.payload)
      <3>1. BufferOK(rxSession.assembly)
        BY <1>2, <1>5 DEF RxOK
      <3> QED BY <1>1, <1>2, <1>8, <2>1, <3>1, CallIs
    <2>3. RoundIs(call, step, st, A, i, z, f.payload)
      BY <1>1, <1>2, <2>2
    <2> QED BY ONLY <2>1, <2>3 DEF IsRound
  <1>10. AfterRead(call.state, call.assembly, L1, p, S, O1, flt) /\ ~ call.reads
    BY <1>7, <1>9, RoundKeeps
  <1>11. ToolsOK(coord, p, L1, S, O1)
    <2>1. LinkOK(L1, S, p)
      BY <1>4 DEF Takes
    <2> QED BY <1>3, <1>10, <2>1 DEF ToolsOK, AfterRead
  <1> QED BY <1>10, <1>11 DEF AfterRead

-----------------------------------------------------------------------------
(* What every step keeps                                                       *)

\* A mishap that leaves rx inside its buffer
LEMMA MishapKept ==
    ASSUME NEW M, NEW S, InBounds(M, S), M \subseteq Mishaps,
           NEW x \in {"emptyPackage", "frameLost", "payloadLost"}, NEW M1, M1 = M \union {x}
    PROVE  /\ M1 \subseteq Mishaps /\ M1 # {} /\ InBounds(M1, S)
           /\ (StrayedIn(M1) => StrayedIn(M))
  <1>1. M1 \subseteq Mishaps /\ x \in M1
    BY DEF Mishaps
  <1>2. "putOutside" \in M1 => "putOutside" \in M
    OBVIOUS
  <1>3. M1 \intersect {"emptyPackage", "frameLost", "payloadLost"} # {}
    BY <1>1
  <1>4. InBounds(M1, S)
    BY <1>2, <1>3 DEF InBounds
  <1>5. StrayedIn(M1) => StrayedIn(M)
    BY DEF StrayedIn
  <1> QED BY <1>1, <1>4, <1>5

\* One message more changes nothing of this.
LEMMA BoundsExtend ==
    ASSUME NEW M, NEW S \in Seq(Nat), InBounds(M, S), NEW length \in Nat,
           NEW S1, S1 = Append(S, length)
    PROVE  InBounds(M, S1)
  <1>1. Len(S) \in Nat /\ DOMAIN S = 1..Len(S)
    BY LenProperties
  <1>2. S1 \in Seq(Nat) /\ Len(S1) = Len(S) + 1 /\ \A m \in 1..Len(S) : S1[m] = S[m]
    BY AppendProperties
  <1>3. DOMAIN S1 = 1..Len(S1)
    BY <1>2, LenProperties
  <1>4. ASSUME NEW m \in DOMAIN S, S[m] > AssemblySize
        PROVE  \E y \in DOMAIN S1 : S1[y] > AssemblySize
    <2>1. m \in DOMAIN S1 /\ S1[m] = S[m]
      BY <1>1, <1>2, <1>3
    <2> QED BY <1>4, <2>1
  <1> QED BY <1>4 DEF InBounds

\* Frames that are behind those of the link
LEMMA CarriesMore ==
    ASSUME NEW S, SentOK(S), NEW p, NEW coord, NEW p1, NEW L, LinkCarries(L, S), NEW L1,
           NEW n, NEW r, NEW q, NEW t, SendsOn(p, S, coord, p1, L, L1, n, r, q, t)
    PROVE  LinkCarries(L1, S) /\ TxOK(p1, S, coord)
  <1>1. /\ n \in Nat /\ q \in Nat /\ t \in 0..(MaxP - 1) /\ Sending(p1, S, coord, n + q, t)
        /\ Grown(L, L1, Len(S), n, q, 0)
        /\ \A j \in 1..q : Framed(L1[Len(L) + j], Len(S), n + j - 1)
    BY DEF SendsOn
  <1>2. PICK n1 \in Nat : n1 = n + q
    BY <1>1
  <1>3. n1 * MaxP + t <= S[Len(S)] /\ Len(S) \in 1..Len(S) /\ S[Len(S)] \in Nat
    <2>1. n1 * MaxP + t <= S[Len(S)] /\ Len(S) # 0
      BY <1>1, <1>2 DEF Sending
    <2> QED BY <2>1, SentFacts
  <1>4. TxOK(p1, S, coord)
    BY <1>1, <1>2 DEF TxOK
  <1>5. L \in Seq(Frames) /\ L1 \in Seq(Frames)
    BY <1>1 DEF LinkCarries, Grown
  <1>6. ASSUME NEW h \in 1..Len(L1) PROVE Carries(L1[h], S)
    <2>1. IsOld(L, L1[h]) \/ IsNew(L, q, h)
      BY <1>1, <1>5, OldOrNew
    <2>2. CASE IsOld(L, L1[h])
      BY <2>2 DEF IsOld, LinkCarries
    <2>3. CASE IsNew(L, q, h)
      <3>1. PICK j \in 1..q : h = Len(L) + j
        BY <2>3 DEF IsNew
      <3>2. PICK i \in Nat : i = n + j - 1 /\ i < n1
        BY <1>1, <1>2
      <3>3. Framed(L1[h], Len(S), i)
        BY <1>1, <3>1, <3>2
      <3>4. i * MaxP + MaxP <= S[Len(S)]
        <4>1. i * MaxP + MaxP <= n1 * MaxP /\ i * MaxP \in Nat /\ n1 * MaxP \in Nat
          BY <3>2, SliceOrder
        <4>2. t \in Nat /\ MaxP \in Nat
          BY <1>1, MaxPFacts
        <4> QED BY ONLY <1>3, <4>1, <4>2
      <3> QED BY <1>3, <3>3, <3>4, FramedCarries
    <2> QED BY <2>1, <2>2, <2>3
  <1> QED BY <1>4, <1>5, <1>6 DEF LinkCarries

\* The last frame of a message too
LEMMA CarriesLast ==
    ASSUME NEW S, SentOK(S), NEW p, NEW coord, NEW L, LinkCarries(L, S), NEW L1,
           NEW f, NEW n, NEW r, EndsWith(p, S, coord, L, L1, f, n, r)
    PROVE  LinkCarries(L1, S)
  <1>1. /\ n \in Nat /\ r \in 0..(MaxP - 1) /\ Sending(p, S, coord, n, r)
        /\ Ended(f, Len(S), n, r) /\ L1 = Append(L, f)
    BY DEF EndsWith
  <1>2. Carries(f, S)
    BY <1>1, EndedCarries
  <1>3. L \in Seq(Frames) /\ Len(L) \in Nat /\ f \in Frames
    BY <1>2, LenProperties DEF LinkCarries, Carries
  <1>4. /\ L1 \in Seq(Frames) /\ Len(L1) = Len(L) + 1
        /\ \A j \in 1..Len(L) : L1[j] = L[j]
        /\ L1[Len(L) + 1] = f
    BY <1>1, <1>3, AppendProperties
  <1>5. \A h \in 1..Len(L1) : h \in 1..Len(L) \/ h = Len(L) + 1
    BY <1>3, <1>4
  <1> QED BY <1>2, <1>4, <1>5 DEF LinkCarries

\* One message more
LEMMA CarriesExtend ==
    ASSUME NEW L, NEW S, SentOK(S), LinkCarries(L, S), NEW S1,
           Len(S1) = Len(S) + 1, \A m \in 1..Len(S) : S1[m] = S[m]
    PROVE  LinkCarries(L, S1)
  <1>1. Len(S) \in Nat
    BY SentFacts
  <1>2. ASSUME NEW k \in 1..Len(L) PROVE Carries(L[k], S1)
    <2>1. Carries(L[k], S)
      BY DEF LinkCarries
    <2>2. L[k].msg \in 1..Len(S1) /\ S1[L[k].msg] = S[L[k].msg]
      BY <1>1, <2>1 DEF Carries
    <2> QED BY <2>1, <2>2 DEF Carries
  <1> QED BY <1>2 DEF LinkCarries

\* One frame less
LEMMA CarriesLess ==
    ASSUME NEW L, NEW S, LinkCarries(L, S), NEW k \in 1..Len(L), NEW L1, L1 = RemoveAt(L, k)
    PROVE  LinkCarries(L1, S)
  <1>1. L \in Seq(Frames) /\ Len(L) \in Nat
    BY LenProperties DEF LinkCarries
  <1>2. /\ L1 \in Seq(Frames) /\ Len(L1) = Len(L) - 1
        /\ \A j \in 1..(Len(L) - 1) : L1[j] = IF j < k THEN L[j] ELSE L[j + 1]
    BY <1>1, RemovedAt
  <1>3. ASSUME NEW h \in 1..Len(L1) PROVE IsOld(L, L1[h])
    <2>1. h \in 1..(Len(L) - 1) /\ h \in 1..Len(L) /\ h + 1 \in 1..Len(L)
      BY <1>1, <1>2
    <2> QED BY <1>2, <2>1 DEF IsOld
  <1> QED BY <1>2, <1>3 DEF LinkCarries, IsOld

\* What is put keeps the buffer one.
LEMMA OverwriteTyped ==
    ASSUME NEW A, BufferOK(A), NEW data \in Seq(Pairs), NEW a
    PROVE  BufferOK(Overwrite(A, a, data))
  <1>1. /\ A \in Seq(Pairs) /\ Len(A) = AssemblySize /\ Len(A) \in Nat /\ DOMAIN A = 1..Len(A)
        /\ \A k \in 1..Len(A) : A[k] \in Pairs
    BY ElementOfSeq, LenProperties DEF BufferOK
  <1>2. \A b \in DOMAIN data : data[b] \in Pairs
    BY ElementOfSeq, LenProperties
  <1>3. PICK N \in Nat : N = Len(A)
    BY <1>1
  <1>4. PICK A1 : A1 = Overwrite(A, a, data)
    OBVIOUS
  <1>5. A1 = [k \in 1..N |-> IF k - a \in DOMAIN data THEN data[k - a] ELSE A[k]]
    BY <1>1, <1>3, <1>4 DEF Overwrite
  <1>6. \A k \in 1..N : A1[k] \in Pairs
    BY <1>1, <1>2, <1>3, <1>5
  <1>7. A1 \in [1..N -> Pairs]
    BY <1>5, <1>6
  <1>8. A1 \in Seq(Pairs) /\ Len(A1) = N
    BY <1>7
  <1> QED BY <1>1, <1>3, <1>4, <1>8 DEF BufferOK

\* What a round makes of the session, and a round that is cut short before the
\* payload is put or after n bytes of it
LEMMA CallTyped ==
    ASSUME NEW S, NEW f, Carries(f, S), rxSession.state \in SliceStates,
           BufferOK(rxSession.assembly), ~ FeedDiverges(rxSession.state, f.header),
           NEW call, call = RxCall(f)
    PROVE  /\ call.state \in SliceStates /\ BufferOK(call.assembly)
           /\ \A n : n \in 0..(Len(call.put) - 1) =>
                BufferOK(Overwrite(rxSession.assembly, call.at, SubSeq(call.put, 1, n)))
  <1>1. PICK i, z, last : i = Slice(f) /\ z = Size(f) /\ last = (Eop(f) = 1)
    OBVIOUS
  <1>2. i \in SliceIds /\ z \in 0..MaxP /\ z \in Nat /\ last \in BOOLEAN /\ MaxP \in Nat
    BY <1>1, MaxPFacts DEF Carries
  <1>3. f.payload \in [1..MaxP -> Pairs]
    BY DEF Carries, Frames
  <1>4. PICK step : step = mp_rx_calc_slice_step(rxSession.state, i, z, MaxP, last)
    OBVIOUS
  <1>5. step.next_state \in SliceStates
    <2>1. ~ StepDiverges(rxSession.state, i, z, MaxP, last)
      BY <1>1 DEF FeedDiverges, Slice, Size, Eop
    <2> QED BY <1>2, <1>4, <2>1, StepTyped
  <1>6. PICK feed, data :
          /\ feed = mp_rx_stream_feed(rxSession.state, f.header)
          /\ data = IF feed.notify THEN SubSeq(f.payload, 1, feed.payload_size) ELSE <<>>
    OBVIOUS
  <1>7. /\ feed.stored = (IF step.e = "COMPLETE" THEN ZeroState ELSE step.next_state)
        /\ feed.payload_size = z
    BY <1>1, <1>4, <1>6 DEF mp_rx_stream_feed, Slice, Size, Eop
  <1>8. /\ call.state = (IF feed.notify THEN feed.stored ELSE rxSession.state)
        /\ call.put = data
        /\ call.assembly = Overwrite(rxSession.assembly, call.at, data)
    BY <1>6 DEF RxCall
  <1>9. call.state \in SliceStates
    <2>1. ZeroState \in SliceStates
      BY Widths DEF ZeroState, SliceStates, SliceIds, Offsets
    <2> QED BY ONLY <1>5, <1>7, <1>8, <2>1, rxSession.state \in SliceStates
  <1>10. data \in Seq(Pairs)
    <2>1. SubSeq(f.payload, 1, z) \in Seq(Pairs)
      <3>1. f.payload \in Seq(Pairs) /\ Len(f.payload) = MaxP
        BY <1>2, <1>3
      <3>2. \A k \in 1..z : f.payload[k] \in Pairs
        BY <1>2, <1>3
      <3> QED BY <1>2, <3>1, <3>2, SubSeqProperties
    <2>2. <<>> \in Seq(Pairs)
      BY EmptySeq
    <2> QED BY ONLY <1>6, <1>7, <2>1, <2>2
  <1>11. ASSUME NEW n \in 0..(Len(call.put) - 1) PROVE SubSeq(call.put, 1, n) \in Seq(Pairs)
    <2>1. Len(data) \in Nat /\ n \in 0..(Len(data) - 1) /\ \A k \in 1..Len(data) : data[k] \in Pairs
      BY <1>8, <1>10, ElementOfSeq, LenProperties
    <2>2. \A k \in 1..n : data[k] \in Pairs
      BY ONLY <2>1
    <2>3. SubSeq(data, 1, n) \in Seq(Pairs)
      BY ONLY <1>10, <2>1, <2>2, SubSeqProperties
    <2> QED BY <1>8, <2>3
  <1>12. BufferOK(call.assembly)
    BY <1>8, <1>10, OverwriteTyped
  <1> QED BY <1>9, <1>11, <1>12, OverwriteTyped

\* A round that puts outside the buffer has a slice of a message that is longer.
LEMMA PutsOfLong ==
    ASSUME NEW S, SentOK(S), NEW f, Carries(f, S), NEW call, call = RxCall(f), call.puts
    PROVE  \E m \in DOMAIN S : S[m] > AssemblySize
  <1>1. PICK i, z, m : i = Slice(f) /\ z = Size(f) /\ m = f.msg
    OBVIOUS
  <1>2. /\ i \in Nat /\ z \in 0..MaxP /\ z \in Nat /\ m \in 1..Len(S) /\ i * MaxP + z <= S[m]
    BY <1>1, MaxPFacts, Widths DEF Carries, SliceIds
  <1>3. S[m] \in Nat /\ Fits(S[m]) /\ DOMAIN S = 1..Len(S)
    BY <1>2, SentFacts, LenProperties
  <1>4. i * MaxP \in Nat /\ i * MaxP < U16
    BY <1>2, <1>3, SliceInMessage
  <1>5. PICK feed : feed = mp_rx_stream_feed(rxSession.state, f.header)
    OBVIOUS
  <1>6. feed.payload_size = z
    BY <1>1, <1>5 DEF mp_rx_stream_feed, Size
  <1>7. feed.coord.offset = mp_slice_idx_to_offset(i, MaxP)
    BY <1>1, <1>5 DEF mp_rx_stream_feed, mp_rx_header_to_coordinate, Slice, MaxP
  <1>8. mp_slice_idx_to_offset(i, MaxP) = i * MaxP
    <2>1. PICK a \in Nat : a = i * MaxP /\ a < U16
      BY <1>4
    <2>2. a % U16 = a
      BY <2>1, Widths
    <2> QED BY <2>1, <2>2 DEF mp_slice_idx_to_offset
  <1>9. call.puts => feed.coord.offset + feed.payload_size > AssemblySize
    BY <1>5 DEF RxCall
  <1>10. i * MaxP + z > AssemblySize
    BY <1>6, <1>7, <1>8, <1>9
  <1>11. AssemblySize \in Nat
    BY Widths, MaxPFacts, WidthAssumption, ToolAssumption DEF AssemblySize, cmd_config_accepts
  <1>12. S[m] > AssemblySize
    BY ONLY <1>2, <1>3, <1>4, <1>10, <1>11
  <1> QED BY <1>2, <1>3, <1>12

-----------------------------------------------------------------------------
(* The invariant is inductive.                                                 *)

\* Fresh sessions and an empty link
LEMMA InitHolds ==
    ASSUME Init
    PROVE  IInv
  <1>1. PICK S, L, O : S = <<>> /\ L = <<>> /\ O = <<>>
    OBVIOUS
  <1>2. /\ faults \in BOOLEAN /\ txSession = mp_session_tx_create
        /\ rxSession = mp_session_rx_create
        /\ tx = NoProcess /\ link = L /\ rxUp = FALSE
        /\ out = O /\ sent = S /\ mishaps = {}
    BY <1>1 DEF Init
  <1>3. Len(S) = 0 /\ Len(L) = 0 /\ Len(O) = 0
    BY <1>1
  <1>4. SentOK(S)
    <2>1. S \in Seq(Lengths)
      BY <1>1, EmptySeq
    <2>2. Len(S) <= MaxMessages
      BY <1>3, ToolAssumption
    <2>3. \A m \in 1..Len(S) : Fits(S[m])
      BY ONLY <1>3
    <2> QED BY <2>1, <2>2, <2>3 DEF SentOK
  <1>5. SessionOK(txSession)
    <2>1. 0 \in SenderIds /\ 0 \in PackageIds /\ 0 \in Offsets
      BY Widths DEF SenderIds, PackageIds, Offsets
    <2> QED BY <1>2, <2>1 DEF SessionOK, mp_session_tx_create, Coordinates
  <1>6. LinkOK(L, S, tx)
    <2>1. L \in Seq(Frames)
      BY <1>1, EmptySeq
    <2>2. Ordered(L)
      BY ONLY <1>3 DEF Ordered
    <2>3. \A k \in 1..Len(L) : FrameOK(L[k], S, tx)
      BY ONLY <1>3
    <2> QED BY <2>1, <2>2, <2>3 DEF LinkOK
  <1>7. OutOK(O, L, tx, S)
    <2>1. O \in Seq(BytePairs)
      BY <1>1, EmptySeq
    <2>2. Distinct(O)
      BY ONLY <1>3 DEF Distinct
    <2>3. \A k \in 1..Len(O) : Delivered(O[k], L, tx, S)
      BY ONLY <1>3
    <2> QED BY <2>1, <2>2, <2>3 DEF OutOK
  <1>8. ToolsOK(txSession, tx, L, S, O)
    <2>1. TxOK(tx, S, txSession)
      BY <1>2 DEF TxOK
    <2> QED BY <1>4, <1>5, <1>6, <1>7, <2>1 DEF ToolsOK
  <1>9. PICK st, A : st = rxSession.state /\ A = rxSession.assembly
    OBVIOUS
  <1>10. st = ZeroState /\ A = [k \in 1..AssemblySize |-> Fresh]
    BY <1>2, <1>9 DEF mp_session_rx_create
  <1>11. BufferOK(A)
    <2>1. AssemblySize \in Nat
      BY Widths, MaxPFacts, WidthAssumption, ToolAssumption DEF AssemblySize, cmd_config_accepts
    <2>2. Fresh \in Pairs
      BY ToolAssumption DEF Fresh, Pairs
    <2>3. PICK N \in Nat : N = AssemblySize
      BY <2>1
    <2>4. A = [k \in 1..N |-> Fresh]
      BY <1>10, <2>3
    <2>5. A \in Seq(Pairs) /\ Len(A) = N
      <3>1. A \in [1..N -> Pairs]
        BY <2>2, <2>4
      <3> QED BY <2>4, <3>1
    <2> QED BY <2>3, <2>5 DEF BufferOK
  <1>12. /\ RxOK(ZeroState, A, L, tx, S, O, 0, NoEnd, 0) /\ ZeroState.bitmap = {}
         /\ 0 \in SliceIds /\ NoEnd \in 0..U8 /\ 0 \in 0..(MaxP - 1)
    BY <1>11, ZeroMixed
  <1>13. TrackOK(L, S, tx, {})
    <2>1. \A m, j \in Nat : ~ Behind(L, tx, S, m, j)
      <3>1. \A m : ~ Running(tx, S, m)
        BY <1>2 DEF Running
      <3>2. \A m, e : ~ EndsAt(L, m, e)
        BY ONLY <1>3 DEF EndsAt
      <3> QED BY <3>1, <3>2 DEF Behind
    <2> QED BY <2>1 DEF TrackOK
  <1>14. CleanRx({}, A, L, tx, S, O, 0, NoEnd, 0)
    <2>1. EndsWhole(L, S)
      BY ONLY <1>3 DEF EndsWhole
    <2>2. \A k \in 1..Len(L) : 0 < L[k].msg
      BY ONLY <1>3
    <2>3. O = Upto(S, 0) \o BytesOf(0 + 1, 0, 0 * MaxP)
      <3>1. S \in Seq(Nat) /\ 0 \in 0..Len(S)
        BY <1>1, <1>3, EmptySeq
      <3>2. Upto(S, 0) = <<>>
        BY <3>1, UptoStep
      <3>3. 0 * MaxP = 0
        BY MaxPFacts
      <3>4. BytesOf(0 + 1, 0, 0) = <<>>
        BY DEF BytesOf
      <3>5. <<>> \o <<>> = <<>>
        OBVIOUS
      <3> QED BY ONLY <1>1, <3>2, <3>3, <3>4, <3>5
    <2>4. Clean({}, A, L, tx, S, O, 0, NoEnd, 0, 0)
      BY <1>2, <1>3, <2>2, <2>3 DEF Clean
    <2>5. 0 \in 0..Len(S)
      BY ONLY <1>3
    <2> QED BY <2>1, <2>4, <2>5 DEF CleanRx
  <1>15. ReceiverOK(st, A, L, tx, S, O, faults)
    BY <1>10, <1>12, <1>13, <1>14 DEF ReceiverOK
  <1>16. faults \in BOOLEAN /\ rxUp \in BOOLEAN
    BY <1>2
  <1>17. {} \subseteq Mishaps /\ ~ StrayedIn({}) /\ InBounds({}, S)
    BY DEF StrayedIn, InBounds
  <1>18. LinkCarries(L, S)
    <2>1. L \in Seq(Frames)
      BY <1>1, EmptySeq
    <2>2. \A k \in 1..Len(L) : Carries(L[k], S)
      BY ONLY <1>3
    <2> QED BY <2>1, <2>2 DEF LinkCarries
  <1>19. st \in SliceStates
    BY <1>10, Widths DEF ZeroState, SliceStates, SliceIds, Offsets
  <1>20. BaseOK({}, rxUp, txSession, tx, L, S, st, A)
    BY ONLY <1>8, <1>11, <1>16, <1>17, <1>18, <1>19 DEF BaseOK, ToolsOK
  <1>21. GoodOK({}, txSession, tx, L, S, O, st, A, faults)
    BY ONLY <1>8, <1>15 DEF GoodOK
  <1> QED BY ONLY <1>2, <1>9, <1>16, <1>20, <1>21 DEF IInv

\* The reads of tx
LEMMA ReadHolds ==
    ASSUME IInv, NEW n \in 1..StdinBuf, TxRead(n)
    PROVE  IInv'
  <1>1. PICK m, call, u, L1, p1 :
           /\ m = Len(sent)
           /\ call = mp_tx_stream_feed(tx.stream, SubSeq(Message(m), tx.read + 1, tx.read + n))
           /\ u = Push(call) /\ L1 = u.written
           /\ p1 = WithTx(tx, call.stream, u.fill, u.block, n)
    OBVIOUS
  <1>2. /\ tx # NoProcess /\ tx.read + n <= sent[m] /\ tx' = p1 /\ link' = L1
        /\ UNCHANGED <<faults, txSession, rxSession, rxUp, out, sent, mishaps>>
    BY <1>1 DEF TxRead, WithTx
  <1>3. n \in Nat /\ 0 < n
    <2>1. StdinBuf \in Nat \/ StdinBuf \notin Nat
      OBVIOUS
    <2> QED OBVIOUS
  <1>4. PICK st, A : st = rxSession.state /\ A = rxSession.assembly
    OBVIOUS
  <1>5. /\ faults \in BOOLEAN
        /\ BaseOK(mishaps, rxUp, txSession, tx, link, sent, st, A)
        /\ GoodOK(mishaps, txSession, tx, link, sent, out, st, A, faults)
    BY <1>4 DEF IInv
  <1>6. GoodOK(mishaps, txSession, p1, L1, sent, out, st, A, faults)
    <2> SUFFICES ASSUME mishaps = {}
                 PROVE  /\ ToolsOK(txSession, p1, L1, sent, out)
                        /\ ReceiverOK(st, A, L1, p1, sent, out, faults)
      BY DEF GoodOK
    <2>1. /\ ToolsOK(txSession, tx, link, sent, out)
          /\ ReceiverOK(st, A, link, tx, sent, out, faults)
      BY <1>5 DEF GoodOK
    <2> QED BY ONLY <1>1, <1>2, <1>3, <2>1, ReadStep
  <1>7. BaseOK(mishaps, rxUp, txSession, p1, L1, sent, st, A)
    <2>1. SentOK(sent) /\ TxOK(tx, sent, txSession) /\ LinkCarries(link, sent)
      BY <1>5 DEF BaseOK
    <2>2. link \in Seq(Frames)
      BY <2>1 DEF LinkCarries
    <2>3. PICK a, r, q, t : SendsOn(tx, sent, txSession, p1, link, L1, a, r, q, t)
      BY ONLY <1>1, <1>2, <1>3, <2>1, <2>2, ReadSends
    <2>4. LinkCarries(L1, sent) /\ TxOK(p1, sent, txSession)
      BY ONLY <2>1, <2>3, CarriesMore
    <2> QED BY ONLY <1>5, <2>4 DEF BaseOK
  <1> QED BY ONLY <1>2, <1>4, <1>5, <1>6, <1>7 DEF IInv

\* The end of tx
LEMMA EofHolds ==
    ASSUME IInv, TxEof
    PROVE  IInv'
  <1>1. PICK call, L1, coord1, p1, M1 :
           /\ call = mp_tx_stream_finalize(tx.stream) /\ L1 = Push(call).written
           /\ coord1 = txSession' /\ p1 = NoProcess
           /\ M1 = IF tx.read = 0 THEN mishaps \union {"emptyPackage"} ELSE mishaps
    OBVIOUS
  <1>2. /\ tx # NoProcess /\ (tx.read = sent[Len(sent)] \/ faults)
        /\ tx' = p1 /\ link' = L1 /\ mishaps' = M1
        /\ UNCHANGED <<faults, rxSession, rxUp, out, sent>>
    BY <1>1 DEF TxEof
  <1>3. Saves(call, txSession, coord1)
    BY <1>1 DEF TxEof, Saves
  <1>4. PICK st, A : st = rxSession.state /\ A = rxSession.assembly
    OBVIOUS
  <1>5. /\ faults \in BOOLEAN
        /\ BaseOK(mishaps, rxUp, txSession, tx, link, sent, st, A)
        /\ GoodOK(mishaps, txSession, tx, link, sent, out, st, A, faults)
    BY <1>4 DEF IInv
  <1>6. /\ M1 \subseteq Mishaps /\ InBounds(M1, sent) /\ (StrayedIn(M1) => StrayedIn(mishaps))
        /\ M1 = {} => mishaps = {} /\ tx.read # 0
    <2>1. mishaps \subseteq Mishaps /\ InBounds(mishaps, sent)
      BY <1>5 DEF BaseOK
    <2>2. CASE tx.read = 0
      BY <1>1, <2>1, <2>2, MishapKept
    <2>3. CASE tx.read # 0
      BY <1>1, <2>1, <2>3
    <2> QED BY <2>2, <2>3
  <1>7. GoodOK(M1, coord1, p1, L1, sent, out, st, A, faults)
    <2> SUFFICES ASSUME M1 = {}
                 PROVE  /\ ToolsOK(coord1, p1, L1, sent, out)
                        /\ ReceiverOK(st, A, L1, p1, sent, out, faults)
      BY DEF GoodOK
    <2>1. /\ ToolsOK(txSession, tx, link, sent, out) /\ tx.read # 0
          /\ ReceiverOK(st, A, link, tx, sent, out, faults)
      BY <1>5, <1>6 DEF GoodOK
    <2> QED BY ONLY <1>1, <1>2, <1>3, <2>1, EofStep
  <1>8. BaseOK(M1, rxUp, coord1, p1, L1, sent, st, A)
    <2>1. /\ SentOK(sent) /\ SessionOK(txSession) /\ TxOK(tx, sent, txSession)
          /\ LinkCarries(link, sent)
      BY <1>5 DEF BaseOK
    <2>2. link \in Seq(Frames)
      BY <2>1 DEF LinkCarries
    <2>3. /\ SessionOK(coord1)
          /\ \E f, n, r : EndsWith(tx, sent, txSession, link, L1, f, n, r)
      BY ONLY <1>1, <1>2, <1>3, <2>1, <2>2, EofSends
    <2>4. LinkCarries(L1, sent)
      BY ONLY <2>1, <2>3, CarriesLast
    <2>5. TxOK(p1, sent, coord1)
      BY <1>1 DEF TxOK
    <2> QED BY ONLY <1>5, <1>6, <2>3, <2>4, <2>5 DEF BaseOK
  <1>9. faults' = faults /\ rxUp' = rxUp /\ txSession' = coord1 /\ out' = out /\ sent' = sent
    BY <1>1, <1>2
  <1> QED BY ONLY <1>2, <1>4, <1>5, <1>7, <1>8, <1>9 DEF IInv

\* The start of tx
LEMMA StartHolds ==
    ASSUME IInv, NEW length \in Inputs, NEW sender \in Senders, TxStart(length, sender)
    PROVE  IInv'
  <1>1. PICK S1 : S1 = Append(sent, length)
    OBVIOUS
  <1>2. /\ tx = NoProcess /\ Len(sent) < MaxMessages /\ sent' = S1
        /\ Started(txSession, sender, txSession', tx')
        /\ UNCHANGED <<faults, link, rxSession, rxUp, out, mishaps>>
    BY <1>1 DEF TxStart, Started
  <1>3. PICK coord1, p1 : coord1 = txSession' /\ p1 = tx'
    OBVIOUS
  <1>4. Started(txSession, sender, coord1, p1)
    BY <1>2, <1>3
  <1>5. length \in Lengths /\ length \in Nat /\ Fits(length)
    BY ToolAssumption DEF Inputs
  <1>6. sender \in SenderIds
    BY ToolAssumption DEF tx_parse_args_accepts
  <1>7. PICK st, A : st = rxSession.state /\ A = rxSession.assembly
    OBVIOUS
  <1>8. /\ faults \in BOOLEAN
        /\ BaseOK(mishaps, rxUp, txSession, tx, link, sent, st, A)
        /\ GoodOK(mishaps, txSession, tx, link, sent, out, st, A, faults)
    BY <1>7 DEF IInv
  <1>9. GoodOK(mishaps, coord1, p1, link, S1, out, st, A, faults)
    <2> SUFFICES ASSUME mishaps = {}
                 PROVE  /\ ToolsOK(coord1, p1, link, S1, out)
                        /\ ReceiverOK(st, A, link, p1, S1, out, faults)
      BY DEF GoodOK
    <2>1. /\ ToolsOK(txSession, tx, link, sent, out)
          /\ ReceiverOK(st, A, link, tx, sent, out, faults)
      BY <1>8 DEF GoodOK
    <2> QED BY ONLY <1>1, <1>2, <1>4, <1>5, <1>6, <2>1, StartStep
  <1>10. BaseOK(mishaps, rxUp, coord1, p1, link, S1, st, A)
    <2>1. SentOK(sent) /\ SessionOK(txSession) /\ LinkCarries(link, sent)
          /\ InBounds(mishaps, sent)
      BY <1>8 DEF BaseOK
    <2>2. SentOK(S1) /\ Len(S1) = Len(sent) + 1 /\ \A m \in 1..Len(sent) : S1[m] = sent[m]
      BY ONLY <1>1, <1>2, <1>5, <2>1, OneMore
    <2>3. sent \in Seq(Nat) /\ Len(S1) # 0
      BY <2>1, <2>2, SentFacts
    <2>4. SessionOK(coord1) /\ Sending(p1, S1, coord1, 0, 0)
      BY ONLY <1>4, <1>6, <2>1, <2>2, <2>3, StartSending DEF Started
    <2>5. TxOK(p1, S1, coord1)
      <3>1. MaxP \in Nat \ {0}
        BY MaxPFacts
      <3>2. 0 \in Nat /\ 0 \in 0..(MaxP - 1)
        BY ONLY <3>1
      <3> QED BY <2>4, <3>2 DEF TxOK
    <2>6. LinkCarries(link, S1)
      BY ONLY <2>1, <2>2, CarriesExtend
    <2>7. InBounds(mishaps, S1)
      BY ONLY <1>1, <1>5, <2>1, <2>3, BoundsExtend
    <2> QED BY ONLY <1>8, <2>2, <2>4, <2>5, <2>6, <2>7 DEF BaseOK
  <1> QED BY ONLY <1>2, <1>3, <1>7, <1>8, <1>9, <1>10 DEF IInv

\* A killed tx
LEMMA KilledHolds ==
    ASSUME IInv, faults, TxKilled
    PROVE  IInv'
  <1>1. PICK p1 : p1 = NoProcess
    OBVIOUS
  <1>2. tx' = p1 /\ UNCHANGED <<faults, txSession, link, rxSession, rxUp, out, sent, mishaps>>
    BY <1>1 DEF TxKilled
  <1>3. PICK st, A : st = rxSession.state /\ A = rxSession.assembly
    OBVIOUS
  <1>4. /\ faults \in BOOLEAN /\ faults = TRUE
        /\ BaseOK(mishaps, rxUp, txSession, tx, link, sent, st, A)
        /\ GoodOK(mishaps, txSession, tx, link, sent, out, st, A, faults)
    BY <1>3 DEF IInv
  <1>5. GoodOK(mishaps, txSession, p1, link, sent, out, st, A, faults)
    <2> SUFFICES ASSUME mishaps = {}
                 PROVE  /\ ToolsOK(txSession, p1, link, sent, out)
                        /\ ReceiverOK(st, A, link, p1, sent, out, faults)
      BY DEF GoodOK
    <2>1. /\ ToolsOK(txSession, tx, link, sent, out)
          /\ ReceiverOK(st, A, link, tx, sent, out, faults)
      BY <1>4 DEF GoodOK
    <2> QED BY ONLY <1>1, <1>4, <2>1, KilledStep
  <1>6. BaseOK(mishaps, rxUp, txSession, p1, link, sent, st, A)
    <2>1. TxOK(p1, sent, txSession)
      BY <1>1 DEF TxOK
    <2> QED BY ONLY <1>4, <2>1 DEF BaseOK
  <1> QED BY ONLY <1>2, <1>3, <1>4, <1>5, <1>6 DEF IInv

\* rx is killed with a frame in hand.
LEMMA LossHolds ==
    ASSUME IInv, NEW k \in InPackage, NEW x \in {"frameLost", "payloadLost"},
           rxUp' = FALSE, mishaps' = mishaps \union {x}, link' = RemoveAt(link, k),
           UNCHANGED <<faults, txSession, tx, out, sent>>,
           rxSession'.state \in SliceStates, BufferOK(rxSession'.assembly)
    PROVE  IInv'
  <1>1. PICK M1, L1, st1, A1 : /\ M1 = mishaps \union {x} /\ L1 = RemoveAt(link, k)
                               /\ st1 = rxSession'.state /\ A1 = rxSession'.assembly
    OBVIOUS
  <1>2. PICK st, A : st = rxSession.state /\ A = rxSession.assembly
    OBVIOUS
  <1>3. faults \in BOOLEAN /\ BaseOK(mishaps, rxUp, txSession, tx, link, sent, st, A)
    BY <1>2 DEF IInv
  <1>4. /\ mishaps \subseteq Mishaps /\ InBounds(mishaps, sent) /\ SentOK(sent)
        /\ LinkCarries(link, sent)
    BY <1>3 DEF BaseOK
  <1>5. M1 \subseteq Mishaps /\ InBounds(M1, sent) /\ M1 # {}
    <2>1. x \in {"emptyPackage", "frameLost", "payloadLost"}
      OBVIOUS
    <2> QED BY ONLY <1>1, <1>4, <2>1, MishapKept
  <1>6. LinkCarries(L1, sent)
    <2>1. link \in Seq(Frames)
      BY <1>4 DEF LinkCarries
    <2>2. k \in 1..Len(link)
      BY <2>1, LenProperties DEF InPackage
    <2> QED BY ONLY <1>1, <1>4, <2>2, CarriesLess
  <1>7. st1 \in SliceStates /\ BufferOK(A1)
    BY <1>1
  <1>8. BaseOK(M1, FALSE, txSession, tx, L1, sent, st1, A1)
    BY ONLY <1>3, <1>5, <1>6, <1>7 DEF BaseOK
  <1>9. GoodOK(M1, txSession, tx, L1, sent, out, st1, A1, faults)
    BY <1>5 DEF GoodOK
  <1>10. /\ rxUp' = FALSE /\ mishaps' = M1 /\ link' = L1
         /\ UNCHANGED <<faults, txSession, tx, out, sent>>
    BY <1>1
  <1> QED BY ONLY <1>1, <1>3, <1>8, <1>9, <1>10 DEF IInv

\* What rx may find on the link
LEMMA FrameInPackage ==
    ASSUME IInv, NEW k \in InPackage
    PROVE  k \in 1..Len(link) /\ link[k].msg = link[1].msg /\ Carries(link[k], sent)
  <1>1. LinkCarries(link, sent)
    BY DEF IInv, BaseOK
  <1>2. DOMAIN link = 1..Len(link)
    BY <1>1, LenProperties DEF LinkCarries
  <1> QED BY <1>1, <1>2 DEF InPackage, LinkCarries

\* rx is killed before it stores anything of a frame.
LEMMA KilledReadingHolds ==
    ASSUME IInv, NEW k \in InPackage, RxKilledReading(k)
    PROVE  IInv'
  <1>1. /\ rxUp' = FALSE /\ mishaps' = mishaps \union {"frameLost"} /\ link' = RemoveAt(link, k)
        /\ UNCHANGED <<faults, txSession, tx, out, sent>> /\ rxSession' = rxSession
    BY DEF RxKilledReading
  <1>2. rxSession.state \in SliceStates /\ BufferOK(rxSession.assembly)
    BY DEF IInv, BaseOK
  <1>3. rxSession'.state \in SliceStates /\ BufferOK(rxSession'.assembly)
    BY <1>1, <1>2
  <1> QED BY <1>1, <1>3, LossHolds

\* rx is killed between state_put and the end of payload_put.
LEMMA KilledPuttingHolds ==
    ASSUME IInv, NEW k \in InPackage, RxKilledPutting(k)
    PROVE  IInv'
  <1>1. PICK call : call = RxCall(link[k])
    OBVIOUS
  <1>2. /\ rxUp' = FALSE /\ mishaps' = mishaps \union {"payloadLost"} /\ link' = RemoveAt(link, k)
        /\ UNCHANGED <<faults, txSession, tx, out, sent>>
        /\ ~ FeedDiverges(rxSession.state, link[k].header)
    BY DEF RxKilledPutting
  <1>3. PICK n \in 0..(Len(call.put) - 1) :
           rxSession' = [state    |-> call.state,
                         assembly |-> Overwrite(rxSession.assembly, call.at,
                                                SubSeq(call.put, 1, n))]
    BY <1>1 DEF RxKilledPutting
  <1>4. rxSession.state \in SliceStates /\ BufferOK(rxSession.assembly)
    BY DEF IInv, BaseOK
  <1>5. Carries(link[k], sent)
    BY FrameInPackage
  <1>6. /\ call.state \in SliceStates
        /\ BufferOK(Overwrite(rxSession.assembly, call.at, SubSeq(call.put, 1, n)))
    BY ONLY <1>1, <1>2, <1>3, <1>4, <1>5, CallTyped
  <1>7. rxSession'.state \in SliceStates /\ BufferOK(rxSession'.assembly)
    BY ONLY <1>3, <1>6
  <1> QED BY <1>2, <1>7, LossHolds

\* A round of rx that is done, as far as it can be
LEMMA FrameHolds ==
    ASSUME IInv, NEW k \in InPackage, RxFrame(k)
    PROVE  IInv'
  <1>1. PICK call, L1 : call = RxCall(link[k]) /\ L1 = RemoveAt(link, k)
    OBVIOUS
  <1>2. /\ rxUp /\ ~ call.puts /\ ~ FeedDiverges(rxSession.state, link[k].header)
        /\ rxSession' = [state |-> call.state, assembly |-> call.assembly]
        /\ link' = L1 /\ rxUp' \in (IF faults THEN BOOLEAN ELSE {TRUE})
        /\ UNCHANGED <<faults, txSession, tx, sent, mishaps>>
    BY <1>1 DEF RxFrame
  <1>3. PICK n : /\ n \in (IF faults THEN 0..Len(call.flush) ELSE {Len(call.flush)})
                 /\ out' = out \o SubSeq(call.flush, 1, n)
    BY <1>1 DEF RxFrame
  <1>4. PICK st1, A1, O1 : st1 = call.state /\ A1 = call.assembly /\ O1 = out'
    OBVIOUS
  <1>5. /\ faults \in BOOLEAN
        /\ BaseOK(mishaps, rxUp, txSession, tx, link, sent, rxSession.state, rxSession.assembly)
        /\ GoodOK(mishaps, txSession, tx, link, sent, out, rxSession.state, rxSession.assembly,
                  faults)
    BY DEF IInv
  <1>6. k \in 1..Len(link) /\ link[k].msg = link[1].msg /\ Carries(link[k], sent)
    BY FrameInPackage
  <1>7. IsOutput(call, n, out, O1, faults)
    <2>1. Len(call.flush) \in Nat => n \in 0..Len(call.flush)
      <3>1. PICK z : z = Len(call.flush)
        OBVIOUS
      <3>2. n \in (IF faults THEN 0..z ELSE {z})
        BY <1>3, <3>1
      <3>3. ASSUME z \in Nat PROVE n \in 0..z
        BY ONLY <3>2, <3>3
      <3> QED BY <3>1, <3>3
    <2>2. ASSUME ~ faults PROVE n = Len(call.flush)
      BY <1>3, <2>2
    <2>3. O1 = out \o SubSeq(call.flush, 1, n)
      BY <1>3, <1>4
    <2> QED BY ONLY <2>1, <2>2, <2>3 DEF IsOutput
  <1>8. GoodOK(mishaps, txSession, tx, L1, sent, O1, st1, A1, faults)
    <2> SUFFICES ASSUME mishaps = {}
                 PROVE  /\ ToolsOK(txSession, tx, L1, sent, O1)
                        /\ ReceiverOK(st1, A1, L1, tx, sent, O1, faults)
      BY DEF GoodOK
    <2>1. /\ ToolsOK(txSession, tx, link, sent, out) /\ ~ call.puts
          /\ ReceiverOK(rxSession.state, rxSession.assembly, link, tx, sent, out, faults)
      BY <1>2, <1>5 DEF GoodOK
    <2>2. /\ ToolsOK(txSession, tx, L1, sent, O1)
          /\ ReceiverOK(call.state, call.assembly, L1, tx, sent, O1, faults)
      BY ONLY <1>1, <1>6, <1>7, <2>1, FrameStep
    <2> QED BY <1>4, <2>2
  <1>9. \A up \in BOOLEAN : BaseOK(mishaps, up, txSession, tx, L1, sent, st1, A1)
    <2>1. /\ LinkCarries(link, sent) /\ SentOK(sent)
          /\ rxSession.state \in SliceStates /\ BufferOK(rxSession.assembly)
      BY <1>5 DEF BaseOK
    <2>2. LinkCarries(L1, sent)
      BY ONLY <1>1, <1>6, <2>1, CarriesLess
    <2>3. st1 \in SliceStates /\ BufferOK(A1)
      BY ONLY <1>1, <1>2, <1>4, <1>6, <2>1, CallTyped
    <2>4. ~ StrayedIn(mishaps)
      BY <1>2, <1>5 DEF BaseOK
    <2> QED BY ONLY <1>5, <2>2, <2>3, <2>4 DEF BaseOK
  <1>10. /\ rxSession'.state = st1 /\ rxSession'.assembly = A1 /\ out' = O1
         /\ rxUp' \in BOOLEAN
    BY <1>2, <1>4, <1>5
  <1> QED BY ONLY <1>2, <1>5, <1>8, <1>9, <1>10 DEF IInv

\* The first access outside the buffer has its reason.
LEMMA StraysHolds ==
    ASSUME IInv, NEW k \in InPackage, RxStrays(k)
    PROVE  IInv'
  <1>1. PICK call, L1 : call = RxCall(link[k]) /\ L1 = RemoveAt(link, k)
    OBVIOUS
  <1>2. PICK M1 : M1 = mishaps \union {IF call.puts THEN "putOutside" ELSE "readOutside"}
    OBVIOUS
  <1>3. /\ rxUp /\ (call.puts \/ call.reads) /\ ~ FeedDiverges(rxSession.state, link[k].header)
        /\ rxSession' = [state |-> call.state, assembly |-> rxSession.assembly]
        /\ link' = L1 /\ rxUp' = FALSE /\ mishaps' = M1
        /\ UNCHANGED <<faults, txSession, tx, out, sent>>
    BY <1>1, <1>2 DEF RxStrays
  <1>4. PICK st1, A1 : st1 = call.state /\ A1 = rxSession.assembly
    OBVIOUS
  <1>5. /\ faults \in BOOLEAN
        /\ BaseOK(mishaps, rxUp, txSession, tx, link, sent, rxSession.state, rxSession.assembly)
        /\ GoodOK(mishaps, txSession, tx, link, sent, out, rxSession.state, rxSession.assembly,
                  faults)
    BY DEF IInv
  <1>6. k \in 1..Len(link) /\ link[k].msg = link[1].msg /\ Carries(link[k], sent)
    BY FrameInPackage
  <1>7. /\ LinkCarries(link, sent) /\ SentOK(sent) /\ mishaps \subseteq Mishaps
        /\ ~ StrayedIn(mishaps)
        /\ rxSession.state \in SliceStates /\ BufferOK(rxSession.assembly)
    BY <1>3, <1>5 DEF BaseOK
  <1>8. InBounds(M1, sent)
    <2>1. CASE call.puts
      <3>1. \E m \in DOMAIN sent : sent[m] > AssemblySize
        BY ONLY <1>1, <1>6, <1>7, <2>1, PutsOfLong
      <3>2. "readOutside" \notin M1
        BY <1>2, <1>7, <2>1 DEF StrayedIn
      <3> QED BY <3>1, <3>2 DEF InBounds
    <2>2. CASE ~ call.puts
      <3>1. mishaps # {}
        <4> SUFFICES ASSUME mishaps = {} PROVE FALSE
          OBVIOUS
        <4>1. /\ ToolsOK(txSession, tx, link, sent, out)
              /\ ReceiverOK(rxSession.state, rxSession.assembly, link, tx, sent, out, faults)
          BY <1>5 DEF GoodOK
        <4>2. PICK n, O1 : n = Len(call.flush) /\ O1 = out \o SubSeq(call.flush, 1, n)
          OBVIOUS
        <4>3. IsOutput(call, n, out, O1, faults)
          <5>1. Len(call.flush) \in Nat => n \in 0..Len(call.flush)
            BY <4>2
          <5> QED BY <4>2, <5>1 DEF IsOutput
        <4>4. ~ call.reads
          BY ONLY <1>1, <1>6, <2>2, <4>1, <4>3, FrameStep
        <4> QED BY <1>3, <2>2, <4>4
      <3>2. mishaps \intersect {"emptyPackage", "frameLost", "payloadLost"} # {}
        BY <1>7, <3>1 DEF Mishaps, StrayedIn
      <3>3. "putOutside" \notin M1
        BY <1>2, <1>7, <2>2 DEF StrayedIn
      <3> QED BY <1>2, <3>2, <3>3 DEF InBounds
    <2> QED BY <2>1, <2>2
  <1>9. M1 # {} /\ M1 \subseteq Mishaps
    BY <1>2, <1>7 DEF Mishaps
  <1>10. BaseOK(M1, FALSE, txSession, tx, L1, sent, st1, A1)
    <2>1. LinkCarries(L1, sent)
      BY ONLY <1>1, <1>6, <1>7, CarriesLess
    <2>2. st1 \in SliceStates /\ BufferOK(A1)
      BY ONLY <1>1, <1>3, <1>4, <1>6, <1>7, CallTyped
    <2> QED BY ONLY <1>5, <1>8, <1>9, <2>1, <2>2 DEF BaseOK
  <1>11. GoodOK(M1, txSession, tx, L1, sent, out, st1, A1, faults)
    BY <1>9 DEF GoodOK
  <1>12. rxSession'.state = st1 /\ rxSession'.assembly = A1
    BY <1>3, <1>4
  <1> QED BY ONLY <1>3, <1>5, <1>10, <1>11, <1>12 DEF IInv

\* Every step keeps the invariant.
LEMMA NextHolds ==
    ASSUME IInv, [Next]_vars
    PROVE  IInv'
  <1>1. CASE Next
    <2>1. CASE \E n \in 1..StdinBuf : TxRead(n)
      BY <2>1, ReadHolds
    <2>2. CASE TxEof
      BY <2>2, EofHolds
    <2>3. CASE \E length \in Inputs, sender \in Senders : TxStart(length, sender)
      BY <2>3, StartHolds
    <2>4. CASE faults /\ TxKilled
      BY <2>4, KilledHolds
    <2>5. CASE RxStart \/ RxEof
      <3>1. rxUp' \in BOOLEAN /\ (StrayedIn(mishaps) => ~ rxUp')
        BY <2>5 DEF RxStart, RxEof, Strayed, StrayedIn
      <3>2. UNCHANGED <<faults, txSession, tx, link, rxSession, out, sent, mishaps>>
        BY <2>5 DEF RxStart, RxEof
      <3> QED BY ONLY <3>1, <3>2, IInv DEF IInv, BaseOK
    <2>6. CASE \E k \in InPackage : RxFrame(k)
      BY <2>6, FrameHolds
    <2>7. CASE \E k \in InPackage : RxStrays(k)
      BY <2>7, StraysHolds
    <2>8. CASE \E k \in InPackage : RxKilledReading(k)
      BY <2>8, KilledReadingHolds
    <2>9. CASE \E k \in InPackage : RxKilledPutting(k)
      BY <2>9, KilledPuttingHolds
    <2> QED BY <1>1, <2>1, <2>2, <2>3, <2>4, <2>5, <2>6, <2>7, <2>8, <2>9
            DEF Next, TxNext, TxStep
  <1>2. CASE UNCHANGED vars
    <2>1. UNCHANGED <<faults, txSession, tx, link, rxSession, rxUp, out, sent, mishaps>>
      BY <1>2 DEF vars
    <2> QED BY ONLY <2>1, IInv DEF IInv
  <1> QED BY <1>1, <1>2

\* Whatever is killed or fails and whatever the length of the messages, the frames
\* of the link, the sessions and the running tx fit together, and until a package
\* is empty, rx is killed with a frame in hand or a message does not fit the
\* assembly buffer, so does what cmd_rx has recorded, buffered and written.
THEOREM ToolInvariant == Spec => []IInv
  <1>1. Init => IInv
    BY InitHolds
  <1>2. IInv /\ [Next]_vars => IInv'
    BY NextHolds
  <1> QED BY <1>1, <1>2, PTL DEF Spec

-----------------------------------------------------------------------------
(* What it says of the runs' properties                                        *)

\* IInv gives the types.
LEMMA TypeFollows ==
    ASSUME IInv
    PROVE  TypeOK
  <1>1. /\ SentOK(sent) /\ SessionOK(txSession) /\ TxOK(tx, sent, txSession)
        /\ rxUp \in BOOLEAN /\ mishaps \subseteq Mishaps
    BY DEF IInv, BaseOK
  <1>2. rxSession.state \in SliceStates /\ rxSession.assembly \in Seq((0..MaxMessages) \X Nat)
    BY DEF IInv, BaseOK, BufferOK, Pairs
  <1>3. ASSUME tx # NoProcess PROVE tx.fill = tx.stream.fill /\ tx.fill \in 0..(MaxP - 1)
    <2>1. PICK n \in Nat, r \in 0..(MaxP - 1) : Sending(tx, sent, txSession, n, r)
      BY <1>1, <1>3 DEF TxOK
    <2>2. PICK c, block : IsTx(tx, [cursor |-> c, fill |-> r], r, block, n * MaxP + r)
      BY <2>1 DEF Sending
    <2>3. tx.fill = r /\ tx.stream = [cursor |-> c, fill |-> r]
      BY <2>2 DEF IsTx
    <2> QED BY <2>3
  <1>4. sent \in Seq(Lengths) /\ Len(sent) <= MaxMessages /\ txSession \in Coordinates
    BY <1>1 DEF SentOK, SessionOK
  <1>5. tx = NoProcess \/ (tx.fill = tx.stream.fill /\ tx.fill \in 0..(MaxP - 1))
    BY <1>3
  <1> QED BY ONLY <1>1, <1>2, <1>4, <1>5 DEF TypeOK

\* It gives the reason of an access outside the buffer.
LEMMA BoundsFollow ==
    ASSUME IInv
    PROVE  PutsInBounds
  <1>1. InBounds(mishaps, sent)
    BY DEF IInv, BaseOK
  <1> QED BY <1>1 DEF InBounds, PutsInBounds

\* IInv gives that no byte is written twice, nor a fresh one.
LEMMA OnceFollows ==
    ASSUME IInv
    PROVE  AtMostOnce
  <1> SUFFICES ASSUME mishaps = {} PROVE Fresh \notin ToSet(out) /\ IsInjective(out)
    BY DEF AtMostOnce
  <1>1. /\ out \in Seq(BytePairs) /\ Distinct(out)
        /\ \A k \in 1..Len(out) : Delivered(out[k], link, tx, sent)
    BY DEF IInv, GoodOK, ToolsOK, OutOK
  <1>2. DOMAIN out = 1..Len(out)
    BY <1>1, LenProperties
  <1>3. Fresh \notin ToSet(out)
    <2>1. ASSUME NEW k \in 1..Len(out), out[k] = Fresh PROVE FALSE
      <3>1. PICK m \in 1..Len(sent), i \in Nat, b \in 0..(MaxP - 1) : out[k] = <<m, i * MaxP + b>>
        BY <1>1 DEF Delivered
      <3>2. m = 0
        BY <2>1, <3>1 DEF Fresh
      <3> QED BY <3>2
    <2> QED BY <1>2, <2>1 DEF ToSet
  <1>4. IsInjective(out)
    BY <1>1, <1>2 DEF IsInjective, Distinct
  <1> QED BY <1>3, <1>4

\* w starts with o.
StartsWith(w, o) == \E t \in Seq(BytePairs) : w = o \o t

\* So o is a prefix of it.
LEMMA StartIsPrefix ==
    ASSUME NEW w, NEW o \in Seq(BytePairs), StartsWith(w, o)
    PROVE  IsPrefix(o, w)
  <1>1. PICK t \in Seq(BytePairs) : w = o \o t
    BY DEF StartsWith
  <1>2. Len(o) \in Nat /\ Len(t) \in Nat
    BY LenProperties
  <1>3. w \in Seq(BytePairs) /\ Len(w) = Len(o) + Len(t) /\ \A k \in 1..Len(o) : w[k] = o[k]
    BY <1>1, <1>2, ConcatProperties
  <1>4. PICK n \in Nat, q \in Nat : n = Len(o) /\ q = Len(w) /\ n <= q
    BY <1>2, <1>3
  <1>5. SubSeq(o, 1, n) = SubSeq(w, 1, n)
    <2>1. PICK u, v : u = SubSeq(o, 1, n) /\ v = SubSeq(w, 1, n)
      OBVIOUS
    <2>2. u \in Seq(BytePairs) /\ Len(u) = n /\ \A k \in 1..n : u[k] = o[k]
      BY ONLY <1>4, <2>1, o \in Seq(BytePairs)
    <2>3. v \in Seq(BytePairs) /\ Len(v) = n /\ \A k \in 1..n : v[k] = w[k]
      BY ONLY <1>3, <1>4, <2>1
    <2>4. \A k \in 1..n : u[k] = v[k]
      BY <1>3, <1>4, <2>2, <2>3
    <2> QED BY ONLY <2>1, <2>2, <2>3, <2>4, SeqEqual
  <1> QED BY <1>4, <1>5 DEF IsPrefix

\* All bytes start with those of c messages and a bytes of the next.
LEMMA PartStarts ==
    ASSUME NEW S \in Seq(Nat), NEW c \in 0..Len(S), c < Len(S), NEW d, d = c + 1,
           NEW a \in Nat, a <= S[d], NEW o, WrittenTo(Upto(S, c), d, a, o)
    PROVE  o \in Seq(BytePairs) /\ StartsWith(Upto(S, Len(S)), o)
  <1>1. d \in 1..Len(S) /\ d \in 0..Len(S) /\ d \in Nat /\ c \in Nat
    BY LenProperties
  <1>2. S[d] \in Nat
    BY <1>1, MessageIsSeq
  <1>3. PICK x \in Nat : x = S[d] - a /\ a + x = S[d]
    BY <1>2
  <1>a. PICK t \in Seq(BytePairs) : Upto(S, Len(S)) = Upto(S, d) \o t
    BY <1>1, UptoPrefix
  <1>b. PICK U, M, p, q :
           /\ U = Upto(S, c) /\ M = MessageOf(S, d)
           /\ p = BytesOf(d, 0, a) /\ q = BytesOf(d, a, x)
    OBVIOUS
  <1>4. /\ U = Upto(S, c) /\ M = MessageOf(S, d)
        /\ p = BytesOf(d, 0, a) /\ q = BytesOf(d, a, x)
        /\ t \in Seq(BytePairs) /\ Upto(S, Len(S)) = Upto(S, d) \o t
    BY ONLY <1>a, <1>b
  <1>5. U \in Seq(BytePairs) /\ Upto(S, d) = U \o M
    BY <1>4, UptoStep
  <1>6. p \in Seq(BytePairs) /\ q \in Seq(BytePairs) /\ M = p \o q
    <2>1. PICK n, z \in Nat : n = S[d] /\ z = 0
      OBVIOUS
    <2>2. /\ d \in Nat /\ a \in Nat /\ x \in Nat /\ n = a + x
          /\ p = BytesOf(d, 0, a) /\ q = BytesOf(d, a, x) /\ M = BytesOf(d, 0, n)
      BY ONLY <1>1, <1>3, <1>4, <2>1, a \in Nat, x \in Nat DEF MessageOf
    <2>3. M = p \o q
      <3>1. TwoParts(p, q, M)
        BY ONLY <2>2, BytesFromStart
      <3> QED BY ONLY <3>1 DEF TwoParts
    <2>a. p = BytesOf(d, z, a)
      BY ONLY <2>1, <2>2
    <2>4. IsBytes(p, d, z, a) /\ IsBytes(q, d, a, x)
      BY ONLY <2>2, <2>a, BytesAre, z \in Nat
    <2>5. p \in Seq(BytePairs) /\ q \in Seq(BytePairs)
      BY ONLY <2>4 DEF IsBytes
    <2> QED BY <2>3, <2>5
  <1>7. o = U \o p
    BY <1>4 DEF WrittenTo
  <1>8. o \in Seq(BytePairs)
    BY ONLY <1>5, <1>6, <1>7, ConcatProperties
  <1>9. Upto(S, Len(S)) = o \o (q \o t)
    <2>1. U \o (p \o q) = (U \o p) \o q
      <3>1. U \in Seq(BytePairs) /\ p \in Seq(BytePairs) /\ q \in Seq(BytePairs)
        BY ONLY <1>5, <1>6
      <3>2. Associates(U, p, q)
        BY ONLY <3>1, BytesAssociate
      <3> QED BY ONLY <3>2 DEF Associates
    <2>2. (o \o q) \o t = o \o (q \o t)
      <3>1. o \in Seq(BytePairs) /\ q \in Seq(BytePairs) /\ t \in Seq(BytePairs)
        BY <1>4, <1>6, <1>8
      <3>2. Associates(o, q, t)
        BY ONLY <3>1, BytesAssociate
      <3> QED BY ONLY <3>2 DEF Associates
    <2>3. Upto(S, Len(S)) = (U \o (p \o q)) \o t
      BY ONLY <1>4, <1>5, <1>6
    <2> QED BY ONLY <1>7, <2>1, <2>2, <2>3
  <1>10. q \o t \in Seq(BytePairs)
    BY ONLY <1>4, <1>6, ConcatProperties
  <1> QED BY <1>8, <1>9, <1>10 DEF StartsWith

\* While nothing goes wrong, c messages and g slices of the next are written.
WrittenSoFar(st, A, L, p, S, O, g, e, r, c) ==
    /\ SentOK(S) /\ MixedState(st, g, e, r) /\ g \in SliceIds /\ e \in 0..U8
    /\ r \in 0..(MaxP - 1) /\ c \in 0..Len(S)
    /\ Clean(st.bitmap, A, L, p, S, O, g, e, r, c)

\* Nothing of the message after the last is written, and never more of the next
\* than there is of it.
LEMMA WrittenFits ==
    ASSUME NEW st, NEW A, NEW L, NEW p, NEW S, NEW O, NEW g, NEW e, NEW r, NEW c,
           WrittenSoFar(st, A, L, p, S, O, g, e, r, c)
    PROVE  /\ c = Len(S) => O = Upto(S, Len(S))
           /\ c < Len(S) => /\ g * MaxP <= S[c + 1] /\ g * MaxP \in Nat
                            /\ WrittenTo(Upto(S, c), c + 1, g * MaxP, O)
  <1>1. PICK B : B = st.bitmap
    OBVIOUS
  <1>2. /\ SentOK(S) /\ MixedState(st, g, e, r) /\ g \in SliceIds /\ e \in 0..U8
        /\ r \in 0..(MaxP - 1) /\ c \in 0..Len(S) /\ Clean(B, A, L, p, S, O, g, e, r, c)
    BY <1>1 DEF WrittenSoFar
  <1>3. /\ g \in Nat /\ \A j \in 0..(g - 1) : j \in B
        /\ e # NoEnd => g < e
        /\ B \subseteq SliceIds
    BY <1>1, <1>2, MixedFacts
  <1>4. WrittenTo(Upto(S, c), c + 1, g * MaxP, O)
    BY <1>2 DEF Clean, WrittenTo
  <1>5. S \in Seq(Nat) /\ Len(S) \in Nat /\ c \in Nat
    BY <1>2, SentFacts
  <1>6. MaxP \in Nat \ {0} /\ g * MaxP \in Nat
    BY <1>3, MaxPFacts, SliceOrder
  <1>7. ASSUME c = Len(S) PROVE O = Upto(S, Len(S))
    <2>1. B = {}
      BY <1>2, <1>7 DEF Clean
    <2>2. g = 0
      <3>1. ASSUME g # 0 PROVE FALSE
        <4>1. 0 \in 0..(g - 1)
          BY <1>3, <3>1
        <4> QED BY <1>3, <2>1, <4>1
      <3> QED BY <3>1
    <2>3. g * MaxP = 0
      BY <1>6, <2>2
    <2>4. O = Upto(S, c) \o BytesOf(c + 1, 0, 0)
      BY <1>4, <2>3 DEF WrittenTo
    <2>5. BytesOf(c + 1, 0, 0) = <<>>
      BY DEF BytesOf
    <2>6. Upto(S, c) \in Seq(BytePairs)
      BY <1>2, <1>5, UptoStep
    <2>7. O = Upto(S, c)
      BY ONLY <2>4, <2>5, <2>6, ConcatEmptySeq
    <2> QED BY <1>7, <2>7
  <1>8. ASSUME c < Len(S) PROVE g * MaxP <= S[c + 1]
    <2>1. CASE g = 0
      <3>1. g * MaxP = 0
        BY <1>6, <2>1
      <3>2. S[c + 1] \in Nat
        <4>1. c + 1 \in 1..Len(S)
          BY <1>5, <1>8
        <4> QED BY <1>5, <4>1, ElementOfSeq
      <3> QED BY <3>1, <3>2
    <2>2. CASE g # 0
      <3>1. PICK j \in Nat : j = g - 1 /\ j + 1 = g /\ j \in 0..(g - 1)
        BY <1>3, <2>2
      <3>2. j \in B
        BY <1>3, <3>1
      <3>3. j # e
        <4>1. CASE e = NoEnd
          BY <1>3, <3>2, <4>1, Widths DEF NoEnd, SliceIds
        <4>2. CASE e # NoEnd
          <5>1. g < e /\ e \in Nat
            BY <1>2, <1>3, <4>2, Widths
          <5> QED BY <1>3, <3>1, <5>1
        <4> QED BY <4>1, <4>2
      <3>4. (j + 1) * MaxP <= S[c + 1]
        BY <1>2, <1>8, <3>2, <3>3 DEF Clean, Receiving
      <3> QED BY <3>1, <3>4
    <2> QED BY <2>1, <2>2
  <1> QED BY <1>4, <1>6, <1>7, <1>8

\* IInv says how far rx has come where nothing goes wrong.
LEMMA SoFar ==
    ASSUME IInv, ~ faults, mishaps = {}
    PROVE  \E st, A, g, e, r, c : WrittenSoFar(st, A, link, tx, sent, out, g, e, r, c)
  <1>1. PICK st, A : st = rxSession.state /\ A = rxSession.assembly
    OBVIOUS
  <1>2. SentOK(sent) /\ ReceiverOK(st, A, link, tx, sent, out, faults)
    BY <1>1 DEF IInv, GoodOK, ToolsOK
  <1>3. PICK g \in SliceIds, e \in 0..U8, r \in 0..(MaxP - 1) :
           /\ RxOK(st, A, link, tx, sent, out, g, e, r)
           /\ CleanRx(st.bitmap, A, link, tx, sent, out, g, e, r)
    BY <1>2 DEF ReceiverOK
  <1>4. PICK c \in 0..Len(sent) : Clean(st.bitmap, A, link, tx, sent, out, g, e, r, c)
    BY <1>3 DEF CleanRx
  <1>5. MixedState(st, g, e, r)
    BY <1>3 DEF RxOK
  <1>6. WrittenSoFar(st, A, link, tx, sent, out, g, e, r, c)
    BY <1>2, <1>3, <1>4, <1>5 DEF WrittenSoFar
  <1> QED BY <1>6

\* IInv gives that the output is a prefix of the messages.
LEMMA OutputFollows ==
    ASSUME IInv
    PROVE  OutputIsMessages
  <1> SUFFICES ASSUME ~ faults, mishaps = {} PROVE IsPrefix(out, Bytes)
    BY DEF OutputIsMessages
  <1>1. PICK st, A, g, e, r, c : WrittenSoFar(st, A, link, tx, sent, out, g, e, r, c)
    BY SoFar
  <1>2. /\ c = Len(sent) => out = Upto(sent, Len(sent))
        /\ c < Len(sent) => /\ g * MaxP <= sent[c + 1] /\ g * MaxP \in Nat
                            /\ WrittenTo(Upto(sent, c), c + 1, g * MaxP, out)
    BY <1>1, WrittenFits
  <1>3. SentOK(sent) /\ c \in 0..Len(sent)
    BY <1>1 DEF WrittenSoFar
  <1>4. sent \in Seq(Nat) /\ Len(sent) \in Nat /\ c \in Nat /\ (c = Len(sent) \/ c < Len(sent))
    BY <1>3, SentFacts
  <1>5. Bytes = Upto(sent, Len(sent))
    BY <1>4, BytesIsUpto
  <1>6. out \in Seq(BytePairs) /\ StartsWith(Upto(sent, Len(sent)), out)
    <2>1. CASE c = Len(sent)
      <3>1. PICK w : w = Upto(sent, Len(sent))
        OBVIOUS
      <3>2. w \in Seq(BytePairs)
        <4>1. Len(sent) \in 0..Len(sent)
          BY <1>4
        <4> QED BY <1>4, <3>1, <4>1, UptoStep
      <3>3. w = w \o <<>> /\ <<>> \in Seq(BytePairs)
        BY <3>2, ConcatEmptySeq, EmptySeq
      <3>4. StartsWith(w, w)
        BY <3>3 DEF StartsWith
      <3> QED BY <1>2, <2>1, <3>1, <3>2, <3>4
    <2>2. CASE c < Len(sent)
      <3>1. PICK d, a : d = c + 1 /\ a = g * MaxP
        OBVIOUS
      <3>2. a <= sent[d] /\ a \in Nat /\ WrittenTo(Upto(sent, c), d, a, out)
        BY <1>2, <2>2, <3>1
      <3> QED BY ONLY <1>3, <1>4, <2>2, <3>1, <3>2, PartStarts
    <2> QED BY <1>4, <2>1, <2>2
  <1>7. IsPrefix(out, Upto(sent, Len(sent)))
    BY ONLY <1>6, StartIsPrefix
  <1> QED BY ONLY <1>5, <1>7

\* IInv gives that nothing is missing in the end.
LEMMA MissingFollows ==
    ASSUME IInv
    PROVE  NothingMissing
  <1> SUFFICES ASSUME ~ faults, mishaps = {}, tx = NoProcess, link = <<>>
               PROVE  ToSet(Bytes) \subseteq ToSet(out)
    BY DEF NothingMissing
  <1>1. PICK st, A, g, e, r, c : WrittenSoFar(st, A, link, tx, sent, out, g, e, r, c)
    BY SoFar
  <1>2. /\ c = Len(sent) => out = Upto(sent, Len(sent))
        /\ c < Len(sent) => g * MaxP <= sent[c + 1]
    BY <1>1, WrittenFits
  <1>3. /\ SentOK(sent) /\ c \in 0..Len(sent) /\ MixedState(st, g, e, r) /\ g \in SliceIds
        /\ Clean(st.bitmap, A, link, tx, sent, out, g, e, r, c)
    BY <1>1 DEF WrittenSoFar
  <1>4. sent \in Seq(Nat) /\ Len(sent) \in Nat /\ c \in Nat /\ (c = Len(sent) \/ c < Len(sent))
    BY <1>3, SentFacts
  <1>5. ASSUME c < Len(sent) PROVE FALSE
    <2>1. \A m, i : ~ Away(link, tx, sent, m, i)
      BY DEF Away, OnLink, Unsent, Running
    <2>2. g * MaxP <= sent[c + 1]
      BY <1>2, <1>5
    <2>3. Come(link, tx, sent, c + 1, g)
      BY <2>1, <2>2 DEF Come
    <2>4. g \in st.bitmap
      <3>1. g \in Nat
        BY <1>3, Widths DEF SliceIds
      <3>2. Receiving(st.bitmap, A, link, tx, sent, g, e, r, c + 1)
        BY <1>3, <1>5 DEF Clean
      <3> QED BY <2>3, <3>1, <3>2 DEF Receiving
    <2> QED BY <1>3, <2>4 DEF MixedState
  <1>6. out = Bytes
    BY <1>2, <1>4, <1>5, BytesIsUpto
  <1> QED BY <1>6

\* tx and rx never store a value out of its type, and the fill counts of the
\* stream and of push_cb agree, whatever is killed or fails in cmd_tx and cmd_rx and
\* whether a message fits the assembly buffer or not, up to an access outside of it.
THEOREM ToolTypes == Spec => []TypeOK
  <1>1. IInv => TypeOK
    BY TypeFollows
  <1> QED BY <1>1, ToolInvariant, PTL

\* payload_put of rx writes past the assembly buffer that mp_session_rx_create sized
\* only when a message is longer than that buffer, and payload_get reads past it only
\* after an empty package or a frame lost with its rx, whatever else goes wrong.
THEOREM PutsStayInBounds == Spec => []PutsInBounds
  <1>1. IInv => PutsInBounds
    BY BoundsFollow
  <1> QED BY <1>1, ToolInvariant, PTL

\* Until a package is empty, rx is killed with a frame in hand or a message is too
\* long for the assembly, rx writes no byte twice, nor one that no tx sent, also when
\* tx is killed at any point, reads and writes fail and rx is killed while it writes.
THEOREM WritesAtMostOnce == Spec => []AtMostOnce
  <1>1. IInv => AtMostOnce
    BY OnceFollows
  <1> QED BY <1>1, ToolInvariant, PTL

\* Where nothing goes wrong and no message is empty or too long for the assembly,
\* what rx writes is at every moment a prefix of the messages given to tx.
THEOREM OutputIsPrefix == Spec => []OutputIsMessages
  <1>1. IInv => OutputIsMessages
    BY OutputFollows
  <1> QED BY <1>1, ToolInvariant, PTL

\* Then too, when both tools have done their work, every byte given to tx has been
\* written by rx.
THEOREM AllIsWritten == Spec => []NothingMissing
  <1>1. IInv => NothingMissing
    BY MissingFollows
  <1> QED BY <1>1, ToolInvariant, PTL
=============================================================================

------------------------------ MODULE Arrivals ------------------------------
(***************************************************************************)
(* What a reassembly state means: which slices of a package it records.    *)
(***************************************************************************)
EXTENDS MPRx, Slicing, FiniteSets

\* The packages a receiver is able to reassemble.
Assemblable == {p \in AllPackages : SafePackage(p)}

\* The state st says that exactly the slices S of package p have arrived.
ArrivalsOf(st, p, S) ==
    /\ st.bitmap = S
    /\ st.received_count = Cardinality({i \in S : i < DataCount(p)})
    /\ st.termination = (IF LastSlice(p) \in S THEN Length(p) ELSE 0)

\* Slice g of package p is the first that is not in S.
FirstGap(p, S, g) ==
    /\ g \in SlicesOf(p) \ S
    /\ \A j \in 0..(g - 1) : j \in S
=============================================================================

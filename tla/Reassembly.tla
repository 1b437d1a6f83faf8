----------------------------- MODULE Reassembly -----------------------------
(***************************************************************************)
(* What a receiver promises its user, with no bitmap, watermark or         *)
(* termination: slices of the current package arrive in any order, the     *)
(* bytes before the first gap are released at once, and completion is      *)
(* reported exactly when the last missing slice arrives.                   *)
(***************************************************************************)
EXTENDS Slicing

CONSTANT Packages       \* the packages a sender may send

VARIABLES
    pkg,            \* the package being received
    got,            \* slices of it that have arrived
    released,       \* bytes handed to the user so far
    completions     \* COMPLETE events reported for it

rvars == <<pkg, got, released, completions>>

\* The number of data slices before the first gap.
GapFree(p, S) ==
    CHOOSE k \in 0..DataCount(p) :
        /\ \A j \in 0..(k - 1) : j \in S
        /\ k = DataCount(p) \/ k \notin S

ReleasableBytes(p, S) ==
    LET bytes == GapFree(p, S) * MaxP
    IN  IF bytes > Length(p) THEN Length(p) ELSE bytes

Init ==
    /\ pkg \in {p \in Packages : SafePackage(p)}
    /\ got = {} /\ released = 0 /\ completions = 0

Receive(i) ==
    /\ completions = 0
    /\ i \in SlicesOf(pkg) \ got
    /\ got' = got \union {i}
    /\ released' = ReleasableBytes(pkg, got')
    /\ completions' = IF got' = SlicesOf(pkg) THEN 1 ELSE 0
    /\ UNCHANGED pkg

NextPackage ==
    /\ completions = 1
    /\ pkg' \in {p \in Packages : SafePackage(p)}
    /\ got' = {} /\ released' = 0 /\ completions' = 0

Next == NextPackage \/ \E i \in SliceIds : Receive(i)

Spec == Init /\ [][Next]_rvars
=============================================================================

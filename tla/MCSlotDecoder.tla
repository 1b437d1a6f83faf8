--------------------------- MODULE MCSlotDecoder ----------------------------
(* Small instances of SlotDecoder. *)
EXTENDS SlotDecoder

\* Packages as the C++ encoder cuts them: one full slice, two and three slices.
MCFullEop ==
    {[full |-> 1, rest |-> 0, style |-> "FullEop"],
     [full |-> 1, rest |-> 1, style |-> "FullEop"],
     [full |-> 2, rest |-> 2, style |-> "FullEop"]}

\* Packages as the C# encoder cuts them.
MCEmptyEop ==
    {[full |-> 2, rest |-> 0, style |-> "EmptyEop"],
     [full |-> 2, rest |-> 1, style |-> "EmptyEop"]}
=============================================================================

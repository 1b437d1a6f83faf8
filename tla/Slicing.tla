------------------------------ MODULE Slicing -------------------------------
(***************************************************************************)
(* How a package is cut into slices: the vocabulary in which senders and   *)
(* receivers are compared.                                                 *)
(*                                                                         *)
(* A package of full * MaxP + rest bytes ends either with a slice of rest  *)
(* bytes, empty when rest = 0 ("EmptyEop": mp_tx_stream_finalize and the   *)
(* C# writer), or, when rest = 0, with its last full slice marked eop      *)
(* ("FullEop": the C++ stream).                                            *)
(***************************************************************************)
EXTENDS MPCommon

Styles == {"EmptyEop", "FullEop"}

AllPackages ==
    [id : PackageIds, sender : SenderIds, full : 0..U8, rest : 0..(MaxP - 1), style : Styles]

Length(p) == p.full * MaxP + p.rest

\* Slices that carry bytes.
DataCount(p) == IF p.rest = 0 THEN p.full ELSE p.full + 1

\* The id of the slice marked eop.
LastSlice(p) == IF p.rest = 0 /\ p.style = "FullEop" THEN p.full - 1 ELSE p.full

SlicesOf(p) == 0..LastSlice(p)

PayloadSize(p, i) == IF i < p.full THEN MaxP ELSE p.rest

\* n bytes of a package behind the first from, a byte being its position
Piece(from, n) == [k \in 1..n |-> from + k - 1]

\* What goes over the link before the payload of slice i.
HeaderBytes(p, i) ==
    mp_header_pack([package_serial     |-> p.id,
                    slice_serial       |-> i,
                    sender_id          |-> p.sender,
                    eop                |-> IF i = LastSlice(p) THEN 1 ELSE 0,
                    slice_payload_size |-> PayloadSize(p, i)])

(***************************************************************************)
(* The packages the receiver is able to reassemble.  The code states none  *)
(* of these limits; each comes from a width: a termination of 0 means      *)
(* "unknown", the slice id is a uint8_t, the watermark a uint16_t that     *)
(* must hold a multiple of MaxP not below the length, and the payload size *)
(* travels in 12 bits.                                                     *)
(***************************************************************************)
SafePackage(p) ==
    /\ Length(p) > 0
    /\ LastSlice(p) < U8
    /\ DataCount(p) * MaxP < U16
    /\ MaxP <= 4095
=============================================================================

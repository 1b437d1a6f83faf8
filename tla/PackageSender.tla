--------------------------- MODULE PackageSender ----------------------------
(***************************************************************************)
(* What an encoder promises the link, with no buffer, fill or cursor.      *)
(* Writers send one package each, at the same time: the packages take the  *)
(* ids in turn, the slices of each are numbered from 0, all are full and   *)
(* unmarked except one that ends the package, and a package of which the   *)
(* link has seen a slice is not abandoned.                                 *)
(***************************************************************************)
EXTENDS MPCommon, Sequences

CONSTANTS
    Writers,    \* the packages to send
    Sender      \* the sender id of the encoder

VARIABLES
    nextId,     \* the id of the next package
    sends       \* of each writer, its phase, package id and headers sent

svars == <<nextId, sends>>

Idle == [phase |-> "idle", id |-> 0, headers |-> <<>>]

Slice(id, i, eop, size) ==
    mp_header_pack([package_serial |-> id, slice_serial |-> i, sender_id |-> Sender,
                    eop |-> eop, slice_payload_size |-> size])

Init == nextId \in PackageIds /\ sends = [w \in Writers |-> Idle]

Open(w) ==
    /\ sends[w] = Idle
    /\ sends' = [sends EXCEPT ![w] = [phase |-> "open", id |-> nextId, headers |-> <<>>]]
    /\ nextId' = (nextId + 1) % U8

Emit(w) ==
    LET s == sends[w]
    IN  /\ s.phase = "open"
        /\ sends' = [sends EXCEPT ![w].headers = Append(@, Slice(s.id, Len(@), 0, MaxP))]
        /\ UNCHANGED nextId

Finish(w) ==
    LET s == sends[w]
    IN  /\ s.phase = "open"
        /\ \E size \in 0..MaxP :
               sends' = [sends EXCEPT ![w] =
                            [s EXCEPT !.phase = "ended",
                                      !.headers = Append(@, Slice(s.id, Len(@), 1, size))]]
        /\ UNCHANGED nextId

\* Nothing to send, or the serialiser failed before the first slice.
Drop(w) ==
    /\ sends[w].phase = "open" /\ sends[w].headers = <<>>
    /\ sends' = [sends EXCEPT ![w].phase = "dropped"]
    /\ UNCHANGED nextId

Next == \E w \in Writers : Open(w) \/ Emit(w) \/ Finish(w) \/ Drop(w)

Spec == Init /\ [][Next]_svars
=============================================================================

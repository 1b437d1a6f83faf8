------------------------------ MODULE MPCommon ------------------------------
(***************************************************************************)
(* Wire header, coordinates and the arithmetic shared by both directions   *)
(* (core/customdata-common.h).                                             *)
(*                                                                         *)
(* U8 and U16 are the number of values of uint8_t and uint16_t.  The code  *)
(* has U8 = 256 and U16 = 65536; smaller instances keep every truncation   *)
(* of the code at a size where TLC reaches it.  The packed header is kept  *)
(* as the four bytes of MP_PACKED_HEADER_TO_ARRAY, at their real widths.   *)
(***************************************************************************)
EXTENDS Integers

CONSTANTS
    U8,     \* number of uint8_t values: package serials and slice serials
    U16,    \* number of uint16_t values: offsets, sizes, watermarks
    TU      \* mp_config_t.transmission_unit

\* The widths of the code bound the scaled ones; tools/main.c (cmd_config)
\* accepts a transmission unit of 7 .. 65535, the library any that leaves room
\* for a payload.
ASSUME WidthAssumption ==
    /\ U8 \in Nat /\ 2 <= U8 /\ U8 <= 256
    /\ U16 \in Nat /\ 2 <= U16 /\ U16 <= 65536
    /\ TU \in 5..(U16 - 1)

MP_HEADER_SIZE == 4

Byte == 0..255
PackageIds == 0..(U8 - 1)
SliceIds == 0..(U8 - 1)
SenderIds == 0..7
Offsets == 0..(U16 - 1)
PayloadSizes == 0..4095

\* mp_coordinate_t
Coordinates == [sender_id : SenderIds, package_id : PackageIds, offset : Offsets]

\* mp_header_meta_t as mp_header_unpack can return it: 3, 1 and 12 bits.
Headers ==
    [package_serial : PackageIds, slice_serial : SliceIds, sender_id : SenderIds,
     eop : 0..1, slice_payload_size : PayloadSizes]

\* mp_header_pack followed by MP_PACKED_HEADER_TO_ARRAY: the sender loses all
\* but 3 bits, the size all but 12.
mp_header_pack(meta) ==
    << meta.package_serial,
       meta.slice_serial,
       (meta.sender_id % 8) + 8 * meta.eop + 16 * (meta.slice_payload_size % 16),
       (meta.slice_payload_size \div 16) % 256 >>

\* Mutant: slice ids counted from 1.
UnpackFromOne(bytes) ==
    [package_serial     |-> bytes[1],
     slice_serial       |-> bytes[2] + 1,
     sender_id          |-> bytes[3] % 8,
     eop                |-> (bytes[3] \div 8) % 2,
     slice_payload_size |-> (bytes[3] \div 16) + 16 * bytes[4]]

\* MP_ARRAY_TO_PACKED_HEADER followed by mp_header_unpack.
mp_header_unpack(bytes) ==
    [package_serial     |-> bytes[1],
     slice_serial       |-> bytes[2],
     sender_id          |-> bytes[3] % 8,
     eop                |-> (bytes[3] \div 8) % 2,
     slice_payload_size |-> (bytes[3] \div 16) + 16 * bytes[4]]

\* mp_max_payload
mp_max_payload(tu) == (tu - MP_HEADER_SIZE) % U16

\* The largest payload of the configured link.
MaxP == mp_max_payload(TU)

\* mp_slice_idx_to_offset: the product is truncated to uint16_t.
mp_slice_idx_to_offset(slice_idx, max_payload) == (slice_idx * max_payload) % U16

\* mp_offset_to_slice_idx: the quotient is truncated to uint8_t.
mp_offset_to_slice_idx(offset, max_payload) == (offset \div max_payload) % U8
=============================================================================

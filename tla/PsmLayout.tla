----------------------------- MODULE PsmLayout -----------------------------
(***************************************************************************)
(* Offsets, sizes and the admission rule of one PSM partition              *)
(* (src/components/boot2_utils/psm-v2.c).                                  *)
(*                                                                         *)
(* A partition of PartSize bytes holds a data area that grows up from      *)
(* offset 0 and, during compaction, a swap area at its end.  The last      *)
(* DescSize bytes are the swap descriptor.  All offsets are bytes from the *)
(* start of the partition.  The three structure sizes are those of the     *)
(* packed C structures; BlockSize and PartSize are parameters, as          *)
(* psm_t.block_size and psm_t.part_size are.                               *)
(***************************************************************************)
EXTENDS Integers

CONSTANTS BlockSize, PartSize

(* _psm_init_verify_params: blocks of at least 64 bytes, at least two of   *)
(* them in a partition that can be written; psm_module_init makes          *)
(* part_size a multiple of block_size.                                     *)
ASSUME BlockSizeAssumption == BlockSize \in Nat /\ BlockSize >= 64
ASSUME PartSizeAssumption ==
    PartSize \in Nat /\ PartSize % BlockSize = 0 /\ PartSize >= 2 * BlockSize

(* A data_len of which only the first byte was programmed reads 0xFFxx: it *)
(* is rejected by psm_is_data_len_sane up to this partition size.          *)
ASSUME TornLengthAssumption == PartSize \div 2 <= 65280

ObjHdr   == 12      \* sizeof(psm_object_t)
DescSize == 12      \* sizeof(psm_swap_desc_t)
Demarc   == 4       \* PSM_DATA_SWAP_DEMARCATION

(* align_to_block_offset: block sizes are powers of two, so the mask is    *)
(* subtraction of the remainder.                                           *)
Align(x) == x - (x % BlockSize)

Aligned(x) == x % BlockSize = 0

(* psm_is_data_len_sane *)
LenSane(len) == len < 65535 /\ len < PartSize \div 2

(* psm_get_swap_start_offset, for `total' bytes of active objects *)
SwapStart(total) == Align(PartSize - DescSize - total)

(* Mutant: no room is kept for the copies *)
MutPlannedSwap(total) == Align(PartSize - DescSize - Demarc)

(* The swap start manage_space_constraints plans with: unlike SwapStart it *)
(* also keeps the Demarc bytes between the two areas.                      *)
PlannedSwap(total) == Align(PartSize - DescSize - Demarc - total)

(* First byte of the copied objects in the swap area, and the end of it    *)
SwapData(start) == start + Demarc
SwapLimit == PartSize - DescSize

(* psm_t.object_offset_limit of a writable partition *)
ObjectOffsetLimit == PartSize - BlockSize - ObjHdr

(* Mutant: rounds down *)
MutEraseStart(free) == Align(free)

(* get_erase_start_offset: the first block that holds no data *)
EraseStart(free) == IF Aligned(free) THEN free ELSE Align(free) + BlockSize

(* Mutant: any free byte will do *)
MutAdmissionUnchecked(total, free, size) == IF LenSane(size) THEN "fits" ELSE "inval"

(* Mutant: the new object is forgotten when the room after a compaction is *)
(* computed                                                                *)
MutAdmission(total, free, size) ==
    IF ~LenSane(size) THEN "inval"
    ELSE IF free + size < PlannedSwap(total + size) THEN "fits"
    ELSE IF total > PlannedSwap(total) THEN "nospace"
    ELSE "compact"

(* manage_space_constraints for a new object of `size' bytes.  The C code  *)
(* computes in uint32_t: were PartSize - DescSize - Demarc smaller than    *)
(* the proposed total, the offset would wrap to a huge one and the object  *)
(* would be admitted.                                                      *)
Admission(total, free, size) ==
    IF ~LenSane(size) THEN "inval"
    ELSE IF total + size > PartSize - DescSize - Demarc THEN "fits"
    ELSE IF free + size < PlannedSwap(total + size) THEN "fits"
    ELSE IF total + size > PlannedSwap(total + size) THEN "nospace"
    ELSE "compact"

(* The two shortfalls of a compaction of `total' bytes of objects.         *)
(* psm_copy_all_objects gives up when the copies end at or after the swap  *)
(* limit; and one byte before it, the 16-bit object type that ends the     *)
(* copies is read half from the swap descriptor and is not blank.          *)
CopiesOverflowSwap(total) == SwapData(SwapStart(total)) + total >= SwapLimit
CopiesTouchDescriptor(total) ==
    SwapData(SwapStart(total)) + total = SwapLimit - 1
=============================================================================

--------------------------- MODULE PsmLayoutProofs ---------------------------
(***************************************************************************)
(* Facts about the layout of a PSM partition, for every block size and     *)
(* partition size.  The proofs about PsmSpace and about Psm rest on them.  *)
(***************************************************************************)
EXTENDS PsmLayout, TLAPS

-----------------------------------------------------------------------------
(* align_to_block_offset moves an offset down by less than a block. *)
LEMMA AlignBounds ==
    ASSUME NEW x \in Int
    PROVE  /\ Align(x) \in Int
           /\ Align(x) <= x
           /\ x < Align(x) + BlockSize
BY BlockSizeAssumption DEF Align

(* An aligned offset is a whole number of blocks. *)
LEMMA AlignMultiple ==
    ASSUME NEW x \in Int
    PROVE  \E q \in Int : Align(x) = BlockSize * q
<1>1. Align(x) = BlockSize * (x \div BlockSize)
    BY BlockSizeAssumption DEF Align
<1>2. x \div BlockSize \in Int
    BY BlockSizeAssumption
<1> QED
    BY <1>1, <1>2

(* Aligning keeps the order of offsets. *)
LEMMA AlignMonotone ==
    ASSUME NEW x \in Int, NEW y \in Int, x <= y
    PROVE  Align(x) <= Align(y)
<1>1. PICK q \in Int : Align(x) = BlockSize * q
    BY AlignMultiple
<1>2. PICK r \in Int : Align(y) = BlockSize * r
    BY AlignMultiple
<1>3. ASSUME r < q PROVE FALSE
    <2>1. BlockSize * r + BlockSize <= BlockSize * q
        BY <1>3, BlockSizeAssumption
    <2> QED
        BY <2>1, <1>1, <1>2, AlignBounds, BlockSizeAssumption
<1>4. BlockSize * q <= BlockSize * r
    BY <1>3, BlockSizeAssumption
<1> QED
    BY <1>1, <1>2, <1>4

(* The swap area only shrinks when the active objects do, and the planned  *)
(* start of it leaves at least as much room as the real one.               *)
LEMMA SwapMonotone ==
    ASSUME NEW s \in Nat, NEW t \in Nat, s <= t
    PROVE  /\ PlannedSwap(s) \in Int /\ SwapStart(s) \in Int
           /\ PlannedSwap(t) <= PlannedSwap(s)
           /\ PlannedSwap(s) <= SwapStart(s)
<1> DEFINE ps == PartSize - DescSize - Demarc - s
           pt == PartSize - DescSize - Demarc - t
           ss == PartSize - DescSize - s
<1>1. /\ ps \in Int /\ pt \in Int /\ ss \in Int
      /\ pt <= ps /\ ps <= ss
    BY PartSizeAssumption DEF DescSize, Demarc
<1> HIDE DEF ps, pt, ss
<1>2. Align(pt) <= Align(ps) /\ Align(ps) <= Align(ss)
    BY <1>1, AlignMonotone
<1>3. Align(ps) \in Int /\ Align(ss) \in Int
    BY <1>1, AlignBounds
<1> QED
    BY <1>2, <1>3 DEF PlannedSwap, SwapStart, ps, pt, ss

(* An empty partition has room for the swap descriptor. *)
LEMMA EmptyFits == 0 <= PlannedSwap(0)
<1>1. PartSize - DescSize - Demarc - 0 \in Int /\ 0 <= PartSize - DescSize - Demarc - 0
    BY BlockSizeAssumption, PartSizeAssumption DEF DescSize, Demarc
<1>2. Align(0) = 0
    BY BlockSizeAssumption DEF Align
<1> QED
    BY <1>1, <1>2, AlignMonotone DEF PlannedSwap

(* The partition is a whole number of blocks. *)
LEMMA WholeBlocks == \E n \in Int : PartSize = BlockSize * n
<1>1. PartSize = BlockSize * (PartSize \div BlockSize)
    BY BlockSizeAssumption, PartSizeAssumption
<1>2. PartSize \div BlockSize \in Int
    BY BlockSizeAssumption, PartSizeAssumption
<1> QED
    BY <1>1, <1>2

(* Objects that leave room for their copies take less than half of the     *)
(* partition, so that one more object of any sane size cannot exceed it.   *)
LEMMA NoWrap ==
    ASSUME NEW t \in Nat, NEW size \in Nat, t <= PlannedSwap(t), LenSane(size)
    PROVE  t + size <= PartSize - DescSize - Demarc
<1>1. PICK n \in Int : PartSize = BlockSize * n
    BY WholeBlocks
<1> DEFINE room == PartSize - 16 - t
<1>2. room \in Int
    BY PartSizeAssumption
<1>3. PICK k \in Int : Align(room) = BlockSize * k
    BY <1>2, AlignMultiple
<1>4. t <= BlockSize * k /\ BlockSize * k <= PartSize - 16 - t
    BY <1>2, <1>3, AlignBounds, PartSizeAssumption DEF PlannedSwap, DescSize, Demarc
<1>5. 2 * size + 2 <= PartSize
    BY PartSizeAssumption DEF LenSane
<1>6. 2 * t <= PartSize - 32
    <2>1. CASE n <= 2 * k
        <3>1. BlockSize * n <= BlockSize * (2 * k)
            BY <2>1, BlockSizeAssumption
        <3>2. BlockSize * (2 * k) = 2 * (BlockSize * k)
            BY BlockSizeAssumption
        <3> QED
            BY <3>1, <3>2, <1>1, <1>4, BlockSizeAssumption, PartSizeAssumption
    <2>2. CASE 2 * k <= n - 1
        <3>1. BlockSize * (2 * k) <= BlockSize * (n - 1)
            BY <2>2, BlockSizeAssumption
        <3>2. /\ BlockSize * (2 * k) = 2 * (BlockSize * k)
              /\ BlockSize * (n - 1) = BlockSize * n - BlockSize
            BY BlockSizeAssumption
        <3> QED
            BY <3>1, <3>2, <1>1, <1>4, BlockSizeAssumption, PartSizeAssumption
    <2> QED
        BY <2>1, <2>2
<1> QED
    BY <1>5, <1>6, PartSizeAssumption DEF DescSize, Demarc

(* Where a compaction fails: exactly when the partition without descriptor *)
(* and active objects is within Demarc + 1 bytes above a block boundary.   *)
THEOREM EdgeWindow ==
    ASSUME NEW t \in Nat
    PROVE  (CopiesOverflowSwap(t) \/ CopiesTouchDescriptor(t))
              <=> (PartSize - DescSize - t) % BlockSize <= Demarc + 1
<1>1. (PartSize - DescSize - t) % BlockSize \in Int
    BY BlockSizeAssumption, PartSizeAssumption DEF DescSize
<1> QED
    BY <1>1, BlockSizeAssumption, PartSizeAssumption
    DEF CopiesOverflowSwap, CopiesTouchDescriptor, SwapData, SwapLimit, SwapStart,
        Align, DescSize, Demarc

(* What the two ways of admitting an object say about the space. *)
LEMMA AdmissionMeans ==
    ASSUME NEW t \in Nat, NEW f \in Nat, NEW size \in Nat, t <= PlannedSwap(t)
    PROVE  /\ Admission(t, f, size) = "fits" => f + size <= PlannedSwap(t + size)
           /\ Admission(t, f, size) = "compact" => t + size <= PlannedSwap(t + size)
<1>1. LenSane(size) => ~(t + size > PartSize - DescSize - Demarc)
    BY NoWrap, PartSizeAssumption DEF DescSize, Demarc
<1>2. PlannedSwap(t + size) \in Int
    BY SwapMonotone
<1> QED
    BY <1>1, <1>2 DEF Admission

(* A block holds more than the descriptor and the demarcation, so that the *)
(* data never reach the last block.                                        *)
LEMMA PlannedBelowLastBlock ==
    ASSUME NEW t \in Nat
    PROVE  PlannedSwap(t) <= PartSize - BlockSize
<1>1. PICK n \in Int : PartSize = BlockSize * n
    BY WholeBlocks
<1> DEFINE room == PartSize - 16 - t
<1>2. room \in Int
    BY PartSizeAssumption
<1>3. PICK k \in Int : Align(room) = BlockSize * k
    BY <1>2, AlignMultiple
<1>4. BlockSize * k < BlockSize * n
    BY <1>1, <1>2, <1>3, AlignBounds, PartSizeAssumption
<1>5. k <= n - 1
    <2>1. CASE n <= k
        BY <2>1, <1>4, BlockSizeAssumption
    <2> QED
        BY <2>1
<1>6. BlockSize * k <= BlockSize * (n - 1)
    BY <1>5, BlockSizeAssumption
<1>7. BlockSize * (n - 1) = BlockSize * n - BlockSize
    BY BlockSizeAssumption
<1> QED
    BY <1>1, <1>3, <1>6, <1>7, PartSizeAssumption, BlockSizeAssumption
    DEF PlannedSwap, DescSize, Demarc

(* Aligned offsets are whole numbers of blocks, and the other way round. *)
LEMMA AlignedMultiple ==
    ASSUME NEW x \in Int
    PROVE  Aligned(x) <=> \E q \in Int : x = BlockSize * q
<1>1. ASSUME Aligned(x) PROVE \E q \in Int : x = BlockSize * q
    <2>1. Align(x) = x
        BY <1>1 DEF Align, Aligned
    <2> QED
        BY <2>1, AlignMultiple
<1>2. ASSUME NEW q \in Int, x = BlockSize * q PROVE Aligned(x)
    BY <1>2, BlockSizeAssumption DEF Aligned
<1> QED
    BY <1>1, <1>2

(* Blocks do not overlap. *)
LEMMA NextBlock ==
    ASSUME NEW x \in Int, NEW y \in Int, Aligned(x), Aligned(y)
    PROVE  Aligned(x + BlockSize) /\ (x < y => x + BlockSize <= y)
<1>1. PICK q \in Int : x = BlockSize * q
    BY AlignedMultiple
<1>2. PICK r \in Int : y = BlockSize * r
    BY AlignedMultiple
<1>3. x + BlockSize = BlockSize * (q + 1) /\ q + 1 \in Int /\ x + BlockSize \in Int
    BY <1>1, BlockSizeAssumption
<1>4. ASSUME x < y PROVE x + BlockSize <= y
    <2>1. q + 1 <= r
        <3>1. CASE r <= q
            <4>1. BlockSize * r <= BlockSize * q
                BY <3>1, BlockSizeAssumption
            <4> QED
                BY <4>1, <1>1, <1>2, <1>4
        <3> QED
            BY <3>1
    <2>2. BlockSize * (q + 1) <= BlockSize * r
        BY <2>1, BlockSizeAssumption
    <2> QED
        BY <2>2, <1>2, <1>3
<1> QED
    BY <1>3, <1>4, AlignedMultiple

LEMMA LayoutAligned ==
    /\ Aligned(0) /\ Aligned(PartSize)
    /\ \A x \in Int : Aligned(Align(x))
    /\ \A t \in Nat : Aligned(SwapStart(t)) /\ Aligned(PlannedSwap(t))
<1>1. Aligned(0) /\ Aligned(PartSize)
    BY BlockSizeAssumption, PartSizeAssumption DEF Aligned
<1>2. ASSUME NEW x \in Int PROVE Aligned(Align(x))
    BY AlignMultiple, AlignedMultiple, AlignBounds
<1>3. ASSUME NEW t \in Nat PROVE Aligned(SwapStart(t)) /\ Aligned(PlannedSwap(t))
    BY <1>2, PartSizeAssumption DEF SwapStart, PlannedSwap, DescSize, Demarc
<1> QED
    BY <1>1, <1>2, <1>3

(* The swap area starts behind what is planned for it and in front of the  *)
(* descriptor; its data do when the edge is avoided.                       *)
LEMMA SwapBounds ==
    ASSUME NEW t \in Nat
    PROVE  /\ SwapStart(t) \in Int /\ PlannedSwap(t) \in Int
           /\ PlannedSwap(t) <= SwapStart(t) /\ SwapStart(t) <= PartSize - DescSize - t
           /\ PlannedSwap(t) <= PartSize - DescSize - Demarc - t
<1>1. /\ PartSize - DescSize - t \in Int /\ PartSize - DescSize - Demarc - t \in Int
    BY PartSizeAssumption DEF DescSize, Demarc
<1> QED
    BY <1>1, AlignBounds, SwapMonotone DEF SwapStart, PlannedSwap

(* get_erase_start_offset skips less than a block *)
LEMMA EraseStartBounds ==
    ASSUME NEW x \in Nat, NEW y \in Int, Aligned(y), x <= y
    PROVE  EraseStart(x) \in Nat /\ Aligned(EraseStart(x)) /\ x <= EraseStart(x) /\ EraseStart(x) <= y
<1>1. CASE Aligned(x)
    BY <1>1 DEF EraseStart
<1>2. CASE ~Aligned(x)
    <2>1. /\ EraseStart(x) = Align(x) + BlockSize /\ Align(x) \in Int
          /\ Align(x) <= x /\ x < Align(x) + BlockSize /\ Aligned(Align(x))
        BY <1>2, AlignBounds, LayoutAligned DEF EraseStart
    <2>2. x # y
        BY <1>2
    <2>3. Aligned(Align(x) + BlockSize) /\ Align(x) + BlockSize <= y
        BY <2>1, <2>2, NextBlock
    <2> QED
        BY <2>1, <2>3, BlockSizeAssumption
<1> QED
    BY <1>1, <1>2

=============================================================================

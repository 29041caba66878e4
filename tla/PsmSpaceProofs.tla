--------------------------- MODULE PsmSpaceProofs ---------------------------
(***************************************************************************)
(* Proofs about PsmSpace, for every block size, partition size and set of  *)
(* object sizes: the step proof shows that IInv is inductive.              *)
(***************************************************************************)
EXTENDS PsmSpace, PsmLayoutProofs

-----------------------------------------------------------------------------
(* Finish: the object written is no longer than the one admitted, so the   *)
(* room planned for the admitted one is enough.                            *)
LEMMA FinishKeepsRoom ==
    ASSUME NEW size \in Nat, NEW old \in Nat, IInv, Finish(size, old)
    PROVE  AreaInv' /\ total' \in Nat
<1>1. /\ phase = "writing" /\ reserved \in Nat
      /\ total = active /\ free = used /\ active <= used
      /\ free + reserved <= PlannedSwap(total + reserved)
    BY SizesAssumption
    DEF IInv, TypeOK, AreaInv, CountersInv, WritingInv, ReservedInv, Finish
<1>2. total + size - old \in Nat /\ total + size - old <= total + reserved
    BY <1>1 DEF IInv, TypeOK, Finish
<1>3. /\ PlannedSwap(total + reserved) <= PlannedSwap(total + size - old)
      /\ PlannedSwap(total + reserved) \in Int
      /\ PlannedSwap(total + size - old) \in Int
    BY <1>1, <1>2, SwapMonotone DEF IInv, TypeOK
<1>4. active' = total + size - old /\ used' = free + size /\ total' = total + size - old
    BY <1>1 DEF Finish
<1>5. free + size <= free + reserved /\ total + size - old <= free + size
    BY <1>1 DEF IInv, TypeOK, Finish
<1> QED
    BY <1>1, <1>2, <1>3, <1>4, <1>5 DEF AreaInv, IInv, TypeOK

(* Delete: the data area keeps its end while the room for it grows. *)
LEMMA DeleteKeepsRoom ==
    ASSUME NEW old \in Nat, IInv, Delete(old)
    PROVE  AreaInv' /\ total' \in Nat
<1>1. total = active /\ active - old \in Nat /\ active - old <= active
    BY DEF IInv, TypeOK, CountersInv, Delete
<1>2. /\ PlannedSwap(active) <= PlannedSwap(active - old)
      /\ PlannedSwap(active) \in Int /\ PlannedSwap(active - old) \in Int
    BY <1>1, SwapMonotone DEF IInv, TypeOK
<1> QED
    BY <1>1, <1>2 DEF AreaInv, IInv, TypeOK, Delete

(* The invariant holds initially and every step keeps it. *)
LEMMA InitIInv == Init => IInv
BY EmptyFits
DEF Init, IInv, TypeOK, Phases, AreaInv, CountersInv, ReservedInv, WritingInv, CompactingInv

LEMMA StepIInv == IInv /\ [Next]_vars => IInv'
<1> USE DEF Phases
<1> SUFFICES ASSUME IInv, [Next]_vars PROVE IInv'
    OBVIOUS
<1>1. ASSUME NEW size \in Sizes, Admit(size) PROVE IInv'
    <2>1. size \in Nat /\ total = active /\ active <= PlannedSwap(active)
        BY <1>1, SizesAssumption, SwapMonotone
        DEF IInv, TypeOK, AreaInv, CountersInv, Admit
    <2>2. free + size <= PlannedSwap(total + size)
        BY <1>1, <2>1, AdmissionMeans DEF IInv, TypeOK, Admit
    <2> QED
        BY <1>1, <2>1, <2>2
        DEF IInv, TypeOK, AreaInv, CountersInv, ReservedInv, WritingInv, CompactingInv, Admit
<1>2. ASSUME NEW size \in Sizes, AdmitCompact(size) PROVE IInv'
    <2>1. size \in Nat /\ total = active /\ free = used /\ active <= PlannedSwap(active)
        BY <1>2, SizesAssumption, SwapMonotone
        DEF IInv, TypeOK, AreaInv, CountersInv, AdmitCompact
    <2>2. total + size <= PlannedSwap(total + size)
        BY <1>2, <2>1, AdmissionMeans DEF IInv, TypeOK, AdmitCompact
    <2> QED
        BY <1>2, <2>1, <2>2
        DEF IInv, TypeOK, AreaInv, CountersInv, ReservedInv, WritingInv, CompactingInv,
            AdmitCompact
<1>3. ASSUME NEW size \in Sizes, NEW old \in Sizes \cup {0}, Finish(size, old) PROVE IInv'
    <2>1. size \in Nat /\ old \in Nat
        BY SizesAssumption
    <2>2. AreaInv' /\ total' \in Nat
        BY <1>3, <2>1, FinishKeepsRoom
    <2> QED
        BY <1>3, <2>1, <2>2
        DEF IInv, TypeOK, AreaInv, CountersInv, ReservedInv, WritingInv, CompactingInv, Finish
<1>4. ASSUME NEW old \in Sizes \cup {0}, Delete(old) PROVE IInv'
    <2>1. old \in Nat
        BY SizesAssumption
    <2>2. AreaInv' /\ total' \in Nat
        BY <1>4, <2>1, DeleteKeepsRoom
    <2> QED
        BY <1>4, <2>1, <2>2
        DEF IInv, TypeOK, AreaInv, CountersInv, ReservedInv, WritingInv, CompactingInv, Delete
<1>5. CASE GiveUp
    BY <1>5
    DEF IInv, TypeOK, AreaInv, CountersInv, ReservedInv, WritingInv, CompactingInv, GiveUp
<1>6. CASE Compacted
    <2>1. active <= PlannedSwap(active)
        BY SwapMonotone DEF IInv, TypeOK, AreaInv
    <2> QED
        BY <1>6, <2>1
        DEF IInv, TypeOK, AreaInv, CountersInv, ReservedInv, WritingInv, CompactingInv, Compacted
<1>7. CASE Resume
    BY <1>7
    DEF IInv, TypeOK, AreaInv, CountersInv, ReservedInv, WritingInv, CompactingInv, Resume
<1>8. CASE CompactFails
    BY <1>8
    DEF IInv, TypeOK, AreaInv, CountersInv, ReservedInv, WritingInv, CompactingInv, CompactFails
<1>9. CASE CopyBackFails
    BY <1>9
    DEF IInv, TypeOK, AreaInv, CountersInv, ReservedInv, WritingInv, CompactingInv, CopyBackFails
<1>10. CASE BeginFormat
    BY <1>10
    DEF IInv, TypeOK, AreaInv, CountersInv, ReservedInv, WritingInv, CompactingInv, BeginFormat
<1>11. CASE EraseAll
    BY <1>11, EmptyFits
    DEF IInv, TypeOK, AreaInv, CountersInv, ReservedInv, WritingInv, CompactingInv, EraseAll
<1>12. CASE PowerFailure
    BY <1>12
    DEF IInv, TypeOK, AreaInv, CountersInv, ReservedInv, WritingInv, CompactingInv, PowerFailure
<1>13. CASE Boot
    BY <1>13
    DEF IInv, TypeOK, AreaInv, CountersInv, ReservedInv, WritingInv, CompactingInv, Boot
<1>14. CASE UNCHANGED vars
    BY <1>14
    DEF IInv, TypeOK, AreaInv, CountersInv, ReservedInv, WritingInv, CompactingInv, vars
<1> QED
    BY <1>1, <1>2, <1>3, <1>4, <1>5, <1>6, <1>7, <1>8, <1>9, <1>10, <1>11, <1>12, <1>13, <1>14
    DEF Next

(* The inductive invariant holds in every state. *)
THEOREM Invariance == Spec => []IInv
<1> QED
    BY InitIInv, StepIInv, PTL DEF Spec

-----------------------------------------------------------------------------
(* Type correctness of the space accounting. *)
THEOREM TypeCorrect == Spec => []TypeOK
<1>1. IInv => TypeOK
    BY DEF IInv
<1> QED
    BY <1>1, Invariance, PTL

(* For every size of objects, blocks and partition, the data area and the  *)
(* area a compaction erases for its copies never meet.                     *)
THEOREM AreasNeverMeet == Spec => []DataBelowSwap
<1>1. IInv => DataBelowSwap
    <2> SUFFICES ASSUME IInv PROVE DataBelowSwap
        OBVIOUS
    <2>1. used <= SwapStart(active)
        BY SwapMonotone DEF IInv, TypeOK, AreaInv
    <2>2. CASE phase = "writing"
        <3>1. /\ reserved \in Nat /\ total + reserved \in Nat
              /\ free + reserved <= PlannedSwap(total + reserved)
            BY <2>2, SizesAssumption DEF IInv, TypeOK, WritingInv, ReservedInv
        <3>2. PlannedSwap(total + reserved) <= PlannedSwap(total)
            BY <3>1, SwapMonotone DEF IInv, TypeOK
        <3>3. PlannedSwap(total) <= SwapStart(total)
            BY SwapMonotone DEF IInv, TypeOK
        <3>4. /\ PlannedSwap(total + reserved) \in Int /\ PlannedSwap(total) \in Int
              /\ SwapStart(total) \in Int
            BY <3>1, SwapMonotone DEF IInv, TypeOK
        <3> QED
            BY <2>1, <3>1, <3>2, <3>3, <3>4 DEF DataBelowSwap, IInv, TypeOK
    <2> QED
        BY <2>1, <2>2 DEF DataBelowSwap
<1> QED
    BY <1>1, Invariance, PTL

(* The uint32_t arithmetic of manage_space_constraints never wraps. *)
THEOREM NeverWraps == Spec => []AdmissionNeverWraps
<1>1. IInv => AdmissionNeverWraps
    <2> SUFFICES ASSUME IInv, phase = "ready", NEW size \in Sizes, LenSane(size)
                 PROVE  total + size <= PartSize - DescSize - Demarc
        BY DEF AdmissionNeverWraps
    <2>1. size \in Nat /\ total \in Nat /\ total <= PlannedSwap(total)
        BY SizesAssumption, SwapMonotone DEF IInv, TypeOK, AreaInv, CountersInv
    <2> QED
        BY <2>1, NoWrap
<1> QED
    BY <1>1, Invariance, PTL

(* A compaction that makes room for an object never runs out of space when *)
(* it copies the objects back.                                             *)
THEOREM CopyBackAlwaysFits == Spec => []CopyBackFits
<1>1. IInv => CopyBackFits
    <2> SUFFICES ASSUME IInv, phase = "compacting" PROVE active < SwapStart(active)
        BY DEF CopyBackFits
    <2>1. /\ total = active
          /\ total + reserved <= PlannedSwap(total + reserved)
        BY DEF IInv, CompactingInv
    <2>2. reserved \in Nat /\ reserved > 0
        <3>1. reserved \in Sizes
            BY DEF IInv, ReservedInv
        <3>2. reserved \in Nat /\ reserved # 0
            BY <3>1, SizesAssumption
        <3> QED
            BY <3>2
    <2>3. /\ PlannedSwap(active + reserved) <= PlannedSwap(active)
          /\ PlannedSwap(active) <= SwapStart(active)
          /\ PlannedSwap(active + reserved) \in Int
          /\ PlannedSwap(active) \in Int /\ SwapStart(active) \in Int
        BY <2>2, SwapMonotone DEF IInv, TypeOK
    <2> QED
        BY <2>1, <2>2, <2>3 DEF IInv, TypeOK
<1> QED
    BY <1>1, Invariance, PTL
=============================================================================

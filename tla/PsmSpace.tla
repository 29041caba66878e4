------------------------------ MODULE PsmSpace ------------------------------
(***************************************************************************)
(* The space accounting of one PSM partition: how the two counters kept in *)
(* RAM, the objects on the flash and the admission rule work together so   *)
(* that the data area and the swap area of a compaction never meet.        *)
(* Objects are reduced to their sizes.  Module Psm, with the objects and   *)
(* every flash access, implements this module.                             *)
(***************************************************************************)
EXTENDS PsmLayout

CONSTANT Sizes      \* sizes of objects, header and name included

ASSUME SizesAssumption == Sizes \subseteq Nat \ {0}

VARIABLES
    phase,      \* what the module is doing
    total,      \* psm_t.total_active_object_size
    free,       \* psm_t.data_free_offset
    active,     \* bytes of the active objects a scan would count
    used,       \* offset at which a scan would stop
    reserved    \* size admitted for the object being written, 0 if none

vars == <<phase, total, free, active, used, reserved>>

Phases == {"down", "recovering", "ready", "writing", "compacting", "formatting", "broken"}

Init ==
    /\ phase = "down"
    /\ total = 0 /\ free = 0 /\ active = 0 /\ used = 0 /\ reserved = 0

(* A write is admitted and its object fits behind the data *)
Admit(size) ==
    /\ phase = "ready"
    /\ Admission(total, free, size) = "fits"
    /\ phase' = "writing" /\ reserved' = size
    /\ UNCHANGED <<total, free, active, used>>

(* A write is admitted after a compaction *)
AdmitCompact(size) ==
    /\ phase = "ready"
    /\ Admission(total, free, size) = "compact"
    /\ phase' = "compacting" /\ reserved' = size
    /\ UNCHANGED <<total, free, active, used>>

(* Mutant: data_free_offset stays behind *)
MutFinish(size, old) ==
    /\ phase = "writing" /\ size <= reserved /\ old <= total
    /\ total' = total + size - old
    /\ active' = active + size - old
    /\ used' = used + size
    /\ phase' = "ready" /\ reserved' = 0
    /\ UNCHANGED free

(* The written object of `size' bytes replaces one of `old' bytes *)
Finish(size, old) ==
    /\ phase = "writing" /\ size <= reserved /\ old <= total
    /\ total' = total + size - old
    /\ free' = free + size
    /\ active' = active + size - old
    /\ used' = used + size
    /\ phase' = "ready" /\ reserved' = 0

(* No object id is left: nothing was written *)
GiveUp ==
    /\ phase = "writing"
    /\ phase' = "ready" /\ reserved' = 0
    /\ UNCHANGED <<total, free, active, used>>

Delete(old) ==
    /\ phase = "ready" /\ old <= total
    /\ total' = total - old
    /\ active' = active - old
    /\ UNCHANGED <<phase, free, used, reserved>>

(* The copies in the swap area become the data *)
Compacted ==
    /\ phase \in {"compacting", "recovering"}
    /\ ~CopiesOverflowSwap(active)
    /\ used' = active
    /\ UNCHANGED <<phase, total, free, active, reserved>>

(* Mutant: the scan leaves data_free_offset alone *)
MutResume ==
    /\ \/ phase = "compacting" /\ used = active /\ phase' = "writing"
       \/ phase \in {"recovering", "formatting"} /\ phase' = "ready"
    /\ total' = active
    /\ UNCHANGED <<free, active, used, reserved>>

(* The scan after the work on the flash *)
Resume ==
    /\ \/ phase = "compacting" /\ used = active /\ phase' = "writing"
       \/ phase \in {"recovering", "formatting"} /\ phase' = "ready"
    /\ total' = active /\ free' = used
    /\ UNCHANGED <<active, used, reserved>>

(* A compaction that runs out of swap area leaves the data alone *)
CompactFails ==
    /\ CopiesOverflowSwap(active)
    /\ \/ phase = "compacting" /\ phase' = "ready"
       \/ phase = "recovering" /\ phase' = "down"
    /\ reserved' = 0
    /\ UNCHANGED <<total, free, active, used>>

(* One that cannot find the end of the copies has erased the data already *)
CopyBackFails ==
    /\ CopiesTouchDescriptor(active) /\ used = active
    /\ phase \in {"compacting", "recovering"}
    /\ phase' = "broken" /\ reserved' = 0
    /\ UNCHANGED <<total, free, active, used>>

BeginFormat ==
    /\ phase = "ready" /\ phase' = "formatting"
    /\ UNCHANGED <<total, free, active, used, reserved>>

EraseAll ==
    /\ phase = "formatting"
    /\ active' = 0 /\ used' = 0
    /\ UNCHANGED <<phase, total, free, reserved>>

PowerFailure ==
    /\ phase # "broken"
    /\ phase' = "down"
    /\ total' = 0 /\ free' = 0 /\ reserved' = 0
    /\ UNCHANGED <<active, used>>

(* psm_module_init: scan, or go on with an interrupted compaction *)
Boot ==
    /\ phase = "down"
    /\ \/ phase' = "recovering" /\ UNCHANGED <<total, free>>
       \/ phase' \in {"ready", "recovering"} /\ total' = active /\ free' = used
    /\ UNCHANGED <<active, used, reserved>>

Next ==
    \/ \E size \in Sizes : Admit(size) \/ AdmitCompact(size)
    \/ \E size \in Sizes, old \in Sizes \cup {0} : Finish(size, old)
    \/ \E old \in Sizes \cup {0} : Delete(old)
    \/ GiveUp \/ Compacted \/ Resume \/ CompactFails \/ CopyBackFails
    \/ BeginFormat \/ EraseAll \/ PowerFailure \/ Boot

Spec == Init /\ [][Next]_vars

-----------------------------------------------------------------------------
TypeOK ==
    /\ phase \in Phases
    /\ total \in Nat /\ free \in Nat /\ active \in Nat /\ used \in Nat
    /\ reserved \in Sizes \cup {0}

(* Neither the objects nor the one being written ever extend into the area *)
(* a compaction started now would erase for its copies: handle_recovery    *)
(* erases from psm_get_swap_start_offset on while the data are the only    *)
(* copy of the objects.                                                    *)
DataBelowSwap ==
    /\ used <= SwapStart(active)
    /\ phase = "writing" => free + reserved <= SwapStart(total)

(* The unsigned subtraction in manage_space_constraints never wraps,       *)
(* whatever sane size the caller asks for.                                 *)
AdmissionNeverWraps ==
    phase = "ready" => \A size \in Sizes :
        LenSane(size) => total + size <= PartSize - DescSize - Demarc

(* The copies of a compaction always fit back in front of the swap area.   *)
CopyBackFits ==
    phase = "compacting" => active < SwapStart(active)

-----------------------------------------------------------------------------
(***************************************************************************)
(* The inductive invariant behind the three properties.  The data area     *)
(* stays below PlannedSwap of its active objects: admission establishes    *)
(* this for the object to come, and the bound only grows when objects      *)
(* become inactive.                                                        *)
(***************************************************************************)
AreaInv == active <= used /\ used <= PlannedSwap(active)

CountersInv == phase \in {"ready", "writing"} => total = active /\ free = used

ReservedInv ==
    /\ phase \in {"writing", "compacting"} => reserved \in Sizes
    /\ phase \notin {"writing", "compacting"} => reserved = 0

WritingInv ==
    phase = "writing" => free + reserved <= PlannedSwap(total + reserved)

CompactingInv ==
    phase = "compacting" =>
        /\ total = active
        /\ free = used \/ ~CopiesOverflowSwap(active)
        /\ total + reserved <= PlannedSwap(total + reserved)

IInv ==
    /\ TypeOK /\ AreaInv /\ CountersInv /\ ReservedInv /\ WritingInv /\ CompactingInv
=============================================================================

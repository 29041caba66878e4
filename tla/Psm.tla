-------------------------------- MODULE Psm --------------------------------
(***************************************************************************)
(* The Persistent Storage Manager, psm-v2.c: objects appended to NOR       *)
(* flash, compaction through a swap area with checkpoints, power failure   *)
(* between and inside flash operations, and the recovery at start-up.      *)
(*                                                                         *)
(* Every write operation of the API holds the partition's write lock from  *)
(* its first to its last flash access, so at most one of them is in        *)
(* progress: `op' is that call, `pc' the place it has reached.  Each step  *)
(* is one flash write or one block erase, with the RAM updates the code    *)
(* makes between it and the next; a power failure may follow any step.     *)
(* Reads change nothing and exclude writers: they appear as the operator   *)
(* Lookup, which the properties evaluate when no write is in progress.     *)
(***************************************************************************)
EXTENDS NorFlash

CONSTANTS
    LenOf,       \* LenOf[v]: data length of value v, in bytes
    NameLen,     \* name_len of every name
    Slacks,      \* by how much max_data_len of an open exceeds the data
    MaxObjects,  \* PSM_MAX_OBJECTS
    FormatAllowed, \* whether the application calls psm_format
    FailPlaces   \* the places of `pc' at which the power may fail

ASSUME PsmAssumption ==
    /\ NameLen \in 1..255 /\ \A v \in Values : LenOf[v] \in Nat
    /\ Slacks \subseteq Nat /\ MaxObjects \in Nat \ {0}
    /\ NoValue \notin Values /\ NoValue \notin Names

VARIABLES
    fl,     \* extents in the partition, the swap descriptor excepted
    desc,   \* the swap descriptor: [start, mark]
    total,  \* psm_t.total_active_object_size
    free,   \* psm_t.data_free_offset
    high,   \* psm_t.highest_used_obj_id
    st,     \* "down", "init" (psm_module_init), "up", "failed" (init failed)
    pc,     \* next flash access of the call in progress
    op,     \* the call in progress and its arguments
    ret,    \* outcome of the last finished call
    w       \* its local variables

vars == <<fl, desc, total, free, high, st, pc, op, ret, w>>

Places == {"idle", "refuse", "hdr", "data", "commit", "inact", "del", "fmt", "scan",
           "c0erase", "c0desc", "c1copy", "c1crc", "c1mark",
           "c2erase", "c2copy", "c2crc", "c2inval", "c3erase"}

InvalidId == 65535          \* PSM_INVALID_OBJ_ID
NoStart   == -1             \* swap_start_offset never written
BadStart  == -2             \* swap_start_offset and its inverse disagree

ObjSize(len) == ObjHdr + NameLen + len

NoCall == [kind |-> "none", nm |-> NoValue, vl |-> NoValue, max |-> 0, was |-> NoValue]
NoWork == [cur |-> 0, swap |-> 0, src |-> 0, dst |-> 0, cid |-> 0,
           id |-> 0, old |-> {}]

BlankDesc == [start |-> NoStart, mark |-> "blank"]
DescValid == desc.mark = "ok" /\ desc.start >= 0

-----------------------------------------------------------------------------
(***************************************************************************)
(* Reading the flash                                                       *)
(***************************************************************************)
(* A 16-bit object type read at `off' is blank.  One byte before the swap  *)
(* descriptor its second half is the first byte of the descriptor.         *)
TypeBlank(off) ==
    /\ IsBlank(fl, off, off + 2)
    /\ ~(off + 1 = SwapLimit /\ desc.start # NoStart)

ObjectsAt(f, off) == {e \in f : e.lo = off /\ e.k = "obj"}

(* Going from object to object, a reader that begins at `start' gets to     *)
(* offset `off': an object begins there and where each one before `off' ends. *)
Reaches(objs, start, off) ==
    \A x \in {start} \cup {d.hi : d \in objs} : x < off => \E d \in objs : d.lo = x

(* The complete objects that it finds before the limit *)
Chain(f, start, limit) ==
    LET objs == {e \in f : e.k = "obj" /\ start <= e.lo /\ e.lo < limit}
    IN  {e \in objs : Reaches(objs, start, e.lo)}

DataChain(f) == Chain(f, 0, ObjectOffsetLimit)

(* test_and_set_bitmap fails: an object before e is active under its id *)
IsDouble(f, e) ==
    e.live /\ \E d \in f : d.k = "obj" /\ d.live /\ d.id = e.id /\ d.lo < e.lo

(* What psm_part_scan accepts: the chain before any double active object *)
Accepted(f) ==
    LET chain == DataChain(f)
    IN  {e \in chain : \A d \in chain : IsDouble(f, d) => e.lo < d.lo}

ChainEnd(chain) == Max({0} \cup {e.hi : e \in chain})

SizeOf(e) == e.hi - e.lo

(* Mutant: ids of inactive objects are used again *)
MutHighestId(objs) == Max({0} \cup {e.id : e \in {x \in objs : x.live}})

(* The highest id psm_part_scan has seen: an id is not reused while an      *)
(* object that has it is in the chain, active or not.                      *)
HighestId(objs) == Max({0} \cup {e.id : e \in objs})

(* The bytes of the active objects *)
ActiveSize(objs) == Cardinality(UNION {e.lo..(e.hi - 1) : e \in {x \in objs : x.live}})

(* Mutant: bytes behind the last object are not looked at *)
MutScanOk(f, end, dup) == dup = {}

(* psm_part_scan succeeds when it ends at blank flash *)
ScanOk(f, end, dup) ==
    dup = {} /\ (end >= ObjectOffsetLimit \/ IsBlank(f, end, end + 2))

(* psm_part_scan: the RAM counters it computes, whether it succeeds, and   *)
(* the flash after handle_double_active_object.                            *)
Scan(f) ==
    LET kept == Accepted(f)
        end  == ChainEnd(kept)
        dup  == IF end < ObjectOffsetLimit THEN ObjectsAt(f, end) ELSE {}
    IN  [total |-> ActiveSize(kept),
         free  |-> end,
         high  |-> HighestId(kept \cup dup),
         ok    |-> ScanOk(f, end, dup),
         fl    |-> (f \ dup) \cup {Unreadable("dead", e.lo, e.hi) : e \in dup}]

First(objs) == {e \in objs : \A d \in objs : e.lo <= d.lo}

(* Mutant: the first object of the name, active or not *)
MutSearch(nm) ==
    LET first == First({e \in DataChain(fl) : e.nm = nm})
    IN  [id |-> IF first = {} THEN InvalidId ELSE (CHOOSE e \in first : TRUE).id, obj |-> first]

(* search_active_object: the first object of that name, active or not,     *)
(* fixes the id; the result is the first active object of that id.         *)
Search(nm) ==
    LET first == First({e \in DataChain(fl) : e.nm = nm})
        id    == IF first = {} THEN InvalidId ELSE (CHOOSE e \in first : TRUE).id
        hits  == {e \in DataChain(fl) :
                     /\ e.live /\ \E d \in first : d.lo <= e.lo
                     /\ IF id = InvalidId THEN e.nm = nm ELSE e.id = id}
    IN  [id |-> id, obj |-> First(hits)]

ValueIn(objs) ==
    IF \E e \in objs : e.good THEN (CHOOSE e \in objs : e.good).vl ELSE NoValue

(* What psm_get_variable finds *)
Lookup(nm) == ValueIn(Search(nm).obj)

(* The chain a recovery started now would restore: the copies in the swap  *)
(* area once the descriptor says they are complete, the data area before.  *)
Restored ==
    IF DescValid THEN Chain(fl, SwapData(desc.start), SwapLimit)
    ELSE Accepted(fl)

(* The contents of the store that survive a power failure *)
Durable ==
    LET kept == {e \in Restored : e.live}
    IN  [n \in Names |-> ValueIn({e \in kept : e.nm = n})]

-----------------------------------------------------------------------------
(***************************************************************************)
(* Start and end of calls                                                  *)
(***************************************************************************)
Idle == st = "up" /\ pc = "idle" /\ op = NoCall

(* A call returns `r'; the write lock is released *)
Return(r) ==
    /\ pc' = "idle" /\ op' = NoCall /\ ret' = r /\ w' = NoWork

(* An error leaves the call, or psm_module_init when it is running *)
Fail ==
    /\ Return(IF st = "init" THEN "none" ELSE "err")
    /\ st' = IF st = "init" THEN "failed" ELSE st

StartCompaction ==
    /\ pc' = "c0erase"
    /\ w' = [NoWork EXCEPT !.cur = SwapStart(total')]

(* psm_set_variable, or psm_object_open for writing with max_data_len      *)
(* `slack' bytes above what will be written: admission of the new object   *)
BeginSet(nm, v, slack) ==
    LET size == ObjSize(LenOf[v] + slack)
        fit  == Admission(total, free, size)
    IN  /\ Idle
        /\ LenSane(LenOf[v] + slack)
        /\ op' = [kind |-> "set", nm |-> nm, vl |-> v,
                  max |-> LenOf[v] + slack, was |-> Durable[nm]]
        /\ UNCHANGED <<fl, desc, total, free, high, st>>
        /\ ret' = "none"
        /\ \/ fit \in {"inval", "nospace"} /\ pc' = "refuse" /\ w' = NoWork
           \/ fit = "fits" /\ pc' = "hdr" /\ w' = NoWork
           \/ fit = "compact" /\ StartCompaction

(* psm_set_variable returns the error of the admission *)
Refuse ==
    /\ pc = "refuse"
    /\ Return("err")
    /\ UNCHANGED <<fl, desc, total, free, high, st>>

(* psm_object_delete *)
BeginDelete(nm) ==
    /\ Idle
    /\ op' = [NoCall EXCEPT !.kind = "del", !.nm = nm, !.was = Durable[nm]]
    /\ ret' = "none" /\ pc' = "del"
    /\ UNCHANGED <<fl, desc, total, free, high, st, w>>

(* psm_format *)
BeginFormat ==
    /\ Idle /\ FormatAllowed
    /\ op' = [NoCall EXCEPT !.kind = "fmt"]
    /\ ret' = "none" /\ pc' = "fmt" /\ w' = NoWork
    /\ UNCHANGED <<fl, desc, total, free, high, st>>

-----------------------------------------------------------------------------
(***************************************************************************)
(* Writing an object                                                       *)
(***************************************************************************)
(* Clearing bit 0 of the flags byte.  The value of an inactive object is   *)
(* never read again; the model forgets it.                                 *)
Inactive(e) == [e EXCEPT !.live = FALSE, !.vl = NoValue]

Inactivate(f, objs) == (f \ objs) \cup {Inactive(e) : e \in objs}

(* psm_is_objid_available and psm_get_unused_obj_id.  The id is not        *)
(* checked: when the pool is used up the object gets InvalidId.            *)
NextId == IF high >= MaxObjects THEN InvalidId ELSE high + 1

(* _psm_object_open after admission: find the old object, choose the id,   *)
(* write the header (data_len still 0xFFFF) and the name.                  *)
WriteHeader ==
    LET found == Search(op.nm)
        fresh == found.obj = {} /\ found.id = InvalidId
        id    == IF fresh THEN NextId ELSE found.id
    IN  /\ pc = "hdr"
        /\ IF fresh /\ high = InvalidId - 1
           THEN Fail /\ UNCHANGED <<fl, desc, total, free, high>>
           ELSE /\ fl' = Program(fl, Unreadable("torn", free, free + ObjSize(0)))
                /\ high' = IF fresh /\ high < MaxObjects THEN high + 1 ELSE high
                /\ w' = [NoWork EXCEPT !.id = id, !.old = found.obj]
                /\ pc' = IF LenOf[op.vl] = 0 THEN "commit" ELSE "data"
                /\ UNCHANGED <<desc, total, free, st, op, ret>>

(* The extent the object in progress occupies so far *)
Growing == {e \in fl : e.lo = free /\ e.k = "torn"}

(* _psm_object_write: the data after the name *)
WriteData ==
    LET end == free + ObjSize(LenOf[op.vl])
    IN  /\ pc = "data"
        /\ fl' = Program(fl \ Growing, Unreadable("torn", free, end))
        /\ pc' = "commit"
        /\ UNCHANGED <<desc, total, free, high, st, op, ret, w>>

(* Mutant: the replaced object is still counted *)
MutFinishSet(oldSize) ==
    /\ total' = total + ObjSize(LenOf[op.vl])
    /\ free' = free + ObjSize(LenOf[op.vl])
    /\ Return("ok")

(* Call the object in progress done: RAM counters and return *)
FinishSet(oldSize) ==
    /\ total' = total + ObjSize(LenOf[op.vl]) - oldSize
    /\ free' = free + ObjSize(LenOf[op.vl])
    /\ Return("ok")

(* _psm_object_close writes CRC and data_len in one go: from here on the   *)
(* object is complete.                                                     *)
Commit ==
    LET size == ObjSize(LenOf[op.vl])
        new  == Obj(free, size, w.id, op.nm, op.vl, TRUE)
    IN  /\ pc = "commit"
        /\ fl' = IF Growing = {} THEN fl ELSE (fl \ Growing) \cup {new}
        /\ UNCHANGED <<desc, high, st>>
        /\ IF w.old = {} THEN FinishSet(0)
           ELSE /\ pc' = "inact"
                /\ UNCHANGED <<total, free, op, ret, w>>

(* _psm_object_close marks the earlier object inactive *)
InactivateOld ==
    /\ pc = "inact"
    /\ fl' = Inactivate(fl, w.old)
    /\ \E e \in w.old : FinishSet(SizeOf(e))
    /\ UNCHANGED <<desc, high, st>>

(* Mutant: the deleted object is still counted *)
MutDeleteObject ==
    /\ pc = "del"
    /\ fl' = Inactivate(fl, Search(op.nm).obj)
    /\ Return("ok")
    /\ UNCHANGED <<desc, total, free, high, st>>

(* _psm_object_delete *)
DeleteObject ==
    LET found == Search(op.nm).obj
    IN  /\ pc = "del"
        /\ fl' = Inactivate(fl, found)
        /\ total' = total - ActiveSize(found)
        /\ Return("ok")
        /\ UNCHANGED <<desc, free, high, st>>

-----------------------------------------------------------------------------
(***************************************************************************)
(* Compaction: handle_recovery, checkpoint by checkpoint                   *)
(***************************************************************************)
(* Mutant: the loop does not advance *)
MutEraseAt(last, next, wNext) ==
    /\ fl' = EraseBlock(fl, w.cur)
    /\ desc' = IF w.cur + BlockSize = PartSize THEN BlankDesc ELSE desc
    /\ IF w.cur + BlockSize < last
       THEN UNCHANGED <<pc, w>>
       ELSE pc' = next /\ w' = wNext
    /\ UNCHANGED <<total, free, high, st, op, ret>>

(* Erase the block at w.cur; the last block also holds the descriptor *)
EraseAt(last, next, wNext) ==
    /\ fl' = EraseBlock(fl, w.cur)
    /\ desc' = IF w.cur + BlockSize = PartSize THEN BlankDesc ELSE desc
    /\ IF w.cur + BlockSize < last
       THEN pc' = pc /\ w' = [w EXCEPT !.cur = w.cur + BlockSize]
       ELSE pc' = next /\ w' = wNext
    /\ UNCHANGED <<total, free, high, st, op, ret>>

(* CHECKPOINT_0: erase from the start of the swap area to the end *)
EraseSwap == pc = "c0erase" /\ EraseAt(PartSize, "c0desc", w)

(* CHECKPOINT_0: write swap_start_offset and its inverse *)
WriteSwapStart ==
    /\ pc = "c0desc"
    /\ desc' = [desc EXCEPT !.start = SwapStart(total)]
    /\ pc' = "c1copy"
    /\ w' = [NoWork EXCEPT !.swap = SwapStart(total),
                           !.dst = SwapData(SwapStart(total))]
    /\ UNCHANGED <<fl, total, free, high, st, op, ret>>

(* The source and destination limits of psm_copy_all_objects *)
SourceLimit == IF pc = "c1copy" THEN free ELSE SwapLimit
DestLimit   == IF pc = "c1crc" THEN SwapLimit ELSE w.swap

(* psm_copy_all_objects has reached the end of the objects *)
CopyDone ==
    /\ w.src >= SourceLimit \/ (w.cid < MaxObjects /\ TypeBlank(w.src))

CopyStopsAtDead ==
    /\ w.src < SourceLimit /\ w.cid < MaxObjects
    /\ \E e \in fl : e.lo = w.src /\ e.k = "dead"

(* One iteration of psm_copy_all_objects: skip an inactive object, or      *)
(* write the header, name and data of a copy with the next id              *)
CopyBody(crcStep) ==
    /\ ~CopyDone /\ ~CopyStopsAtDead
    /\ LET here == ObjectsAt(fl, w.src)
       IN  IF w.cid >= MaxObjects \/ here = {}
           THEN Fail /\ UNCHANGED <<fl, desc, total, free, high>>
           ELSE \E e \in here :
                  /\ IF e.live
                     THEN /\ fl' = Program(fl, Obj(w.dst, SizeOf(e), w.cid + 1,
                                                   e.nm, e.vl, FALSE))
                          /\ w' = [w EXCEPT !.cid = w.cid + 1]
                          /\ pc' = crcStep
                     ELSE /\ w' = [w EXCEPT !.src = e.hi]
                          /\ UNCHANGED <<fl, pc>>
                  /\ desc' = IF e.live /\ w.dst + SizeOf(e) > SwapLimit
                             THEN [desc EXCEPT !.start = BadStart] ELSE desc
                  /\ UNCHANGED <<total, free, high, st, op, ret>>

(* The end of psm_copy_object: the CRC of the copy, or its inactive flag   *)
(* when the source was corrupt; then the check of the space left           *)
CopyCrc(copyStep) ==
    LET src  == CHOOSE e \in fl : e.lo = w.src
        copy == ObjectsAt(fl, w.dst)
        end  == w.dst + SizeOf(src)
        done == {IF src.good THEN [e EXCEPT !.good = TRUE] ELSE Inactive(e) : e \in copy}
    IN  /\ fl' = (fl \ copy) \cup done
        /\ UNCHANGED <<desc, total, free, high>>
        /\ IF end >= DestLimit
           THEN Fail
           ELSE /\ w' = [w EXCEPT !.src = src.hi, !.dst = end]
                /\ pc' = copyStep
                /\ UNCHANGED <<st, op, ret>>

(* CHECKPOINT_1: copy the active objects of the data area to the swap area *)
CopyToSwap ==
    \/ pc = "c1copy" /\ CopyBody("c1crc")
    \/ pc = "c1crc" /\ CopyCrc("c1copy")
    \/ /\ pc = "c1copy" /\ (CopyDone \/ CopyStopsAtDead)
       /\ pc' = "c1mark"
       /\ UNCHANGED <<fl, desc, total, free, high, st, op, ret, w>>

(* CHECKPOINT_1: write the marker and its inverse; the swap area counts *)
WriteMarker ==
    /\ pc = "c1mark"
    /\ desc' = [desc EXCEPT !.mark = "ok"]
    /\ pc' = "c2erase"
    /\ w' = [NoWork EXCEPT !.swap = w.swap]
    /\ UNCHANGED <<fl, total, free, high, st, op, ret>>

(* CHECKPOINT_2: erase everything before the swap area *)
EraseData ==
    /\ pc = "c2erase"
    /\ EraseAt(w.swap, "c2copy", [NoWork EXCEPT !.swap = w.swap, !.src = SwapData(w.swap)])

(* CHECKPOINT_2: copy the objects back *)
CopyToData ==
    \/ pc = "c2copy" /\ CopyBody("c2crc")
    \/ pc = "c2crc" /\ CopyCrc("c2copy")
    \/ /\ pc = "c2copy" /\ (CopyDone \/ CopyStopsAtDead)
       /\ pc' = "c2inval"
       /\ UNCHANGED <<fl, desc, total, free, high, st, op, ret, w>>

(* CHECKPOINT_2: invalidate_swap_descriptor programs twelve zero bytes *)
InvalidateDescriptor ==
    /\ pc = "c2inval"
    /\ desc' = [start |-> BadStart, mark |-> "bad"]
    /\ pc' = "c3erase"
    /\ w' = [w EXCEPT !.cur = w.swap]
    /\ UNCHANGED <<fl, total, free, high, st, op, ret>>

(* Mutant: only one block of the swap area is erased *)
MutCleanSwap == pc = "c3erase" /\ EraseAt(0, "scan", NoWork)

(* CHECKPOINT_3: erase the swap area *)
CleanSwap == pc = "c3erase" /\ EraseAt(PartSize, "scan", NoWork)

(* The scan that ends psm_part_compact and psm_module_physical_init *)
Rescan ==
    LET s == Scan(fl)
    IN  /\ pc = "scan"
        /\ fl' = s.fl /\ total' = s.total /\ free' = s.free /\ high' = s.high
        /\ UNCHANGED desc
        /\ IF ~s.ok THEN Fail
           ELSE IF st = "init" THEN st' = "up" /\ Return("none")
           ELSE IF op.kind = "fmt" THEN Return("ok") /\ UNCHANGED st
           ELSE pc' = "hdr" /\ w' = NoWork /\ UNCHANGED <<st, op, ret>>

(* Mutant: the erase is started again *)
MutFormatErase == pc = "fmt" /\ EraseAt(PartSize, "fmt", NoWork)

(* psm_format: erase the whole partition, then scan it *)
FormatErase == pc = "fmt" /\ EraseAt(PartSize, "scan", NoWork)

-----------------------------------------------------------------------------
(***************************************************************************)
(* Power failure and start-up                                              *)
(***************************************************************************)
(* psm_module_physical_init up to its first erase: deduce the checkpoint   *)
(* from the descriptor, scan the data area unless the swap area is the     *)
(* good one, and force a compaction when the scan fails.                   *)
Boot ==
    LET s == Scan(fl)
    IN  /\ st \in {"down", "failed"}
        /\ UNCHANGED <<desc, op>>
        /\ ret' = "none"
        /\ IF DescValid
           THEN /\ st' = "init" /\ pc' = "c2erase"
                /\ w' = [NoWork EXCEPT !.swap = desc.start]
                /\ UNCHANGED <<fl, total, free, high>>
           ELSE /\ fl' = s.fl /\ total' = s.total /\ free' = s.free /\ high' = s.high
                /\ IF ~s.ok
                   THEN IF Admission(s.total, s.free, 0) \in {"fits", "compact"}
                        THEN st' = "init" /\ StartCompaction
                        ELSE st' = "failed" /\ UNCHANGED <<pc, w>>
                   ELSE IF desc = BlankDesc
                        THEN st' = "up" /\ UNCHANGED <<pc, w>>
                        ELSE /\ st' = "init" /\ pc' = "c3erase"
                             /\ w' = [NoWork EXCEPT !.cur = EraseStart(s.free)]

(* The descriptor after a power failure: when one of its three writes was  *)
(* next, the write may have been done in part.                             *)
TornDesc ==
    {desc} \cup
    (IF pc \in {"c0desc", "c2inval"} THEN {[desc EXCEPT !.start = BadStart]}
     ELSE IF pc = "c1mark" THEN {[desc EXCEPT !.mark = "bad"]}
     ELSE {})

(* RAM is lost; the object header being written may be there in part *)
Crash ==
    /\ st \in {"init", "up"} /\ pc \in FailPlaces
    /\ st' = "down"
    /\ desc' \in TornDesc
    /\ fl' \in {fl} \cup
               (IF pc = "hdr" THEN {Program(fl, Unreadable("torn", free, free + 1))} ELSE {})
    /\ total' = 0 /\ free' = 0 /\ high' = 0
    /\ pc' = "idle" /\ op' = NoCall /\ ret' = "none" /\ w' = NoWork

-----------------------------------------------------------------------------
Init ==
    /\ fl = {} /\ desc = BlankDesc
    /\ total = 0 /\ free = 0 /\ high = 0
    /\ st = "down" /\ pc = "idle" /\ op = NoCall /\ ret = "none" /\ w = NoWork

Begin ==
    \/ \E nm \in Names, v \in Values, k \in Slacks : BeginSet(nm, v, k)
    \/ \E nm \in Names : BeginDelete(nm)
    \/ BeginFormat

(* The steps of a call in progress *)
Work ==
    \/ Refuse \/ WriteHeader \/ WriteData \/ Commit \/ InactivateOld
    \/ DeleteObject \/ FormatErase
    \/ EraseSwap \/ WriteSwapStart \/ CopyToSwap \/ WriteMarker
    \/ EraseData \/ CopyToData \/ InvalidateDescriptor \/ CleanSwap \/ Rescan

Next == Begin \/ Work \/ Boot \/ Crash

Spec == Init /\ [][Next]_vars

(* The caller's task runs until its call returns, and a device that is     *)
(* down is started again; nothing makes the application call, or the power *)
(* fail.                                                                   *)
FairSpec == Spec /\ WF_vars(Work) /\ WF_vars(Boot)
=============================================================================

------------------------------- MODULE PsmInv -------------------------------
(***************************************************************************)
(* The inductive invariant of Psm: what lies on the flash, and what the    *)
(* counters in RAM say of it, at each place of the code.  PsmProofs shows  *)
(* that it is one, and what follows from it.                               *)
(***************************************************************************)
EXTENDS PsmProps

(* What the theorems assume of the constants: the largest id is one (512   *)
(* and 65535 in the code), and the power does not fail during psm_format.  *)
ValidIds     == MaxObjects < InvalidId
FormatIsSafe == "fmt" \notin FailPlaces

(* And of a behaviour: a compaction does not start with its active objects *)
(* in the window of EdgeWindow (psm_edge_brick shows what happens there),  *)
(* an id is left for an object of a new name, and when a compaction looks  *)
(* for the next object it has not made MaxObjects copies already.          *)
OffTheEdge == pc = "c0desc" => ~CopiesOverflowSwap(total) /\ ~CopiesTouchDescriptor(total)

IdsLeft ==
    /\ pc = "hdr" /\ Search(op.nm).id = InvalidId => high < MaxObjects
    /\ pc \in {"c1copy", "c2copy"} => w.cid < MaxObjects

(* An object takes at least MinSize bytes.  In a partition that has no     *)
(* room for more than MaxObjects of them, ids are always left.             *)
MinSize == ObjSize(0)

SmallPartition == PartSize <= MaxObjects * MinSize

-----------------------------------------------------------------------------
(***************************************************************************)
(* Extents and areas                                                       *)
(***************************************************************************)
Extent == [lo : Nat, hi : Nat, k : Kinds, id : Nat, nm : Names \cup {NoValue},
           vl : Values \cup {NoValue}, live : BOOLEAN, good : BOOLEAN]

(* Extents are not empty, lie in the partition and do not overlap *)
Extents(f) ==
    /\ f \subseteq Extent
    /\ \A e \in f : e.lo < e.hi /\ e.hi <= PartSize
    /\ \A d, e \in f : d = e \/ d.hi <= e.lo \/ e.hi <= d.lo

(* The objects S fill the bytes from a to b without gaps *)
Tiles(S, a, b) ==
    /\ a <= b
    /\ \A e \in S : e.k = "obj" /\ a <= e.lo /\ e.hi <= b
    /\ \A x \in {a} \cup {e.hi : e \in S} : x < b => \E d \in S : d.lo = x
    /\ b \in {a} \cup {e.hi : e \in S}

(* n is an id, and in a small partition n objects fit in x bytes *)
IdRoom(n, x) == n <= MaxObjects /\ (SmallPartition => n * MinSize <= x)

(* The objects S, the first at offset a, are whole; their ids and names    *)
(* stand for each other, one object of an id is active, and ids are not    *)
(* given faster than objects are written.                                  *)
Catalogue(S, a) ==
    /\ \A e \in S :
         /\ e.good /\ e.nm \in Names /\ e.id >= 1 /\ IdRoom(e.id, e.hi - a)
         /\ MinSize <= SizeOf(e)
         /\ e.live => e.vl \in Values /\ SizeOf(e) = ObjSize(LenOf[e.vl])
    /\ \A d, e \in S : /\ d.nm = e.nm <=> d.id = e.id
                       /\ d.live /\ e.live /\ d.id = e.id => d = e

Area(S, a, b) == Tiles(S, a, b) /\ Catalogue(S, a)

Pairs(S) == {<<e.nm, e.vl>> : e \in {x \in S : x.live}}

(* What a scan would count: the bytes of the active objects of the store,  *)
(* and the offset at which its objects end *)
Occupied ==
    <<ActiveSize(Restored), IF DescValid THEN ActiveSize(Restored) ELSE ChainEnd(Accepted(fl))>>

Before(x) == {e \in fl : e.lo < x}
From(x)   == {e \in fl : e.lo >= x}

-----------------------------------------------------------------------------
(***************************************************************************)
(* The two areas                                                           *)
(***************************************************************************)
(* Behind the objects O an unfinished object, or one that is to replace    *)
(* one of O *)
Unfinished(r, O, end) ==
    /\ r.lo = end /\ r.hi <= PlannedSwap(ActiveSize(O))
    /\ end + MinSize <= PlannedSwap(ActiveSize(O))
    /\ r.k = "obj" => r.live /\ \E o \in O : o.live /\ o.id = r.id

(* Left in the swap area *)
Residue(r, O) == SwapStart(ActiveSize(O)) + Demarc <= r.lo

(* The objects O at the start of f are the contents of the store *)
DataArea(f, O, end) ==
    /\ O \subseteq f
    /\ Area(O, 0, end)
    /\ end <= PlannedSwap(ActiveSize(O))
    /\ \A r \in f \ O : Unfinished(r, O, end) \/ Residue(r, O)

(* The objects C in the swap area that starts at s are the contents of the *)
(* store; there is room to copy them back and blank flash behind them.     *)
SwapArea(f, C, s) ==
    LET t == ActiveSize(C)
    IN  /\ C \subseteq f
        /\ Area(C, SwapData(s), SwapData(s) + t)
        /\ \A e \in C : e.live
        /\ s = SwapStart(t) /\ t < PlannedSwap(t)
        /\ SwapData(s) + t + 1 < SwapLimit
        /\ \A r \in f \ C : r.hi <= s

Valid(d) == d.mark = "ok" /\ d.start >= 0

(* A recovery finds the contents *)
Recoverable(f, d) ==
    IF Valid(d) THEN \E C \in SUBSET f : SwapArea(f, C, d.start)
    ELSE \E O \in SUBSET f, end \in 0..PartSize :
           /\ DataArea(f, O, end)
           /\ d = BlankDesc => \A r \in f \ O : Unfinished(r, O, end)

-----------------------------------------------------------------------------
(***************************************************************************)
(* The state at each place of the code                                     *)
(***************************************************************************)
Descriptors == [start : {NoStart, BadStart} \cup 0..PartSize, mark : {"blank", "ok", "bad"}]
Calls == [kind : {"none", "set", "del", "fmt"}, nm : Names \cup {NoValue},
          vl : Values \cup {NoValue}, max : Nat, was : Values \cup {NoValue}]
Works == [cur : 0..PartSize, swap : 0..PartSize, src : 0..PartSize, dst : 0..PartSize,
          cid : Nat, id : Nat, old : SUBSET Extent]

Copying1 == {"c1copy", "c1crc", "c1mark"}
Copying2 == {"c2copy", "c2crc", "c2inval"}
Saving   == {"c0erase", "c0desc"} \cup Copying1
Moving   == {"c2erase"} \cup Copying2

TypeInv ==
    /\ Extents(fl) /\ desc \in Descriptors
    /\ total \in 0..PartSize /\ free \in 0..PartSize /\ high \in 0..MaxObjects
    /\ st \in {"down", "init", "up"} /\ pc \in Places
    /\ op \in Calls /\ ret \in {"none", "ok", "err"} /\ w \in Works

(* Which call is where *)
CallInv ==
    /\ st = "down" => pc = "idle"
    /\ pc = "idle" => op = NoCall
    /\ pc \in {"refuse", "hdr", "data", "commit", "inact"} => op.kind = "set"
    /\ pc = "del" => op.kind = "del"
    /\ pc = "fmt" => op.kind = "fmt"
    /\ pc \in Saving \cup Moving \cup {"c3erase"} => op.kind \in {"none", "set"}
    /\ pc = "scan" => op.kind # "del"
    /\ st = "init" => pc # "idle" /\ op = NoCall
    /\ st = "up" /\ pc # "idle" => op.kind # "none"
    /\ op.kind \in {"set", "del"} => op.nm \in Names
    /\ op.kind = "set" => op.vl \in Values /\ LenOf[op.vl] <= op.max
    /\ op.kind # "set" => op.vl = NoValue

(* A call has not taken effect before it returns *)
WasInv == op.kind \in {"set", "del"} => op.was = Durable[op.nm]

DownInv == st = "down" => Recoverable(fl, desc)

(* The objects O are what the counters say *)
Counted(O) ==
    /\ Area(O, 0, free) /\ total = ActiveSize(O) /\ free <= PlannedSwap(total)
    /\ desc = BlankDesc
    /\ \A e \in O : e.id <= high

ReadyInv ==
    st = "up" /\ pc \in {"idle", "refuse", "del", "hdr"} => Counted(fl) /\ IdRoom(high, free)

(* There is room for the object admitted, behind x bytes of data of which  *)
(* t are active *)
Room(x, t) ==
    op.kind = "set" => x + ObjSize(op.max) <= PlannedSwap(t + ObjSize(op.max))

NewObject == Obj(free, ObjSize(LenOf[op.vl]), w.id, op.nm, op.vl, TRUE)

WritingInv ==
    /\ pc = "hdr" => Room(free, total)
    /\ pc \in {"data", "commit", "inact"} =>
         LET O == Before(free)
         IN  /\ Counted(O) /\ Room(free, total)
             /\ IdRoom(high, free + MinSize) /\ w.id \in 1..high
             /\ \A e \in O : e.nm = op.nm <=> e.id = w.id
             /\ w.old = {e \in O : e.live /\ e.nm = op.nm}
             /\ IF pc = "inact" THEN fl = O \cup {NewObject} /\ w.old # {}
                ELSE \E r \in fl : /\ fl = O \cup {r} /\ r.k = "torn" /\ r.lo = free
                                   /\ r.hi <= free + ObjSize(LenOf[op.vl])

FormatInv ==
    pc = "fmt" => /\ Aligned(w.cur) /\ w.cur < PartSize /\ desc = BlankDesc
                  /\ \A e \in fl : e.lo >= w.cur

ScanInv ==
    pc = "scan" =>
        \E end \in 0..PartSize :
            /\ DataArea(fl, fl, end) /\ desc = BlankDesc
            /\ op.kind = "set" => end = ActiveSize(fl)
            /\ op.kind = "fmt" => fl = {}
            /\ Room(ActiveSize(fl), ActiveSize(fl))

(* CHECKPOINT_0 and 1: the data area is the good one *)
SavingInv ==
    pc \in Saving =>
        LET O == Before(free)
        IN  /\ DataArea(fl, O, free) /\ total = ActiveSize(O)
            /\ total < PlannedSwap(total) /\ Room(total, total)
            /\ ~Valid(desc)
            /\ pc = "c0erase" =>
                 /\ Aligned(w.cur) /\ SwapStart(total) <= w.cur /\ w.cur < PartSize
                 /\ \A r \in fl \ O : Unfinished(r, O, free) \/ r.lo >= w.cur
                 /\ desc = BlankDesc => \A r \in fl \ O : Unfinished(r, O, free)
            /\ pc = "c0desc" =>
                 /\ desc = BlankDesc /\ \A r \in fl \ O : Unfinished(r, O, free)
            /\ pc \in Copying1 =>
                 /\ w.swap = SwapStart(total) /\ desc = [BlankDesc EXCEPT !.start = w.swap]
                 /\ SwapData(w.swap) + total + 1 < SwapLimit

(* S is a copy of the active objects of Src, from offset a to dst *)
CopyOf(S, a, Src, dst, cid) ==
    /\ Area(S, a, dst) /\ dst = a + ActiveSize(S)
    /\ \A e \in S : e.live /\ e.id <= cid
    /\ Pairs(S) = Pairs(Src) /\ ActiveSize(S) = ActiveSize(Src)
    /\ IdRoom(cid, dst - a)

(* psm_copy_all_objects, with local variables v, has come to v.src in the   *)
(* objects Src, which begin at offset a, and has made the objects S of      *)
(* them, from offset b on; the CRC of the last copy may be missing.         *)
Progress(v, unfinished, Src, a, S, b) ==
    LET done == {e \in Src : e.lo < v.src}
    IN  /\ v.src \in {a} \cup {e.hi : e \in Src}
        /\ IF ~unfinished THEN CopyOf(S, b, done, v.dst, v.cid)
           ELSE \E e \in Src, copy \in S, n \in 0..(v.cid - 1) :
                  /\ e.lo = v.src /\ e.live /\ v.cid = n + 1 /\ v.cid <= MaxObjects
                  /\ copy = Obj(v.dst, SizeOf(e), v.cid, e.nm, e.vl, FALSE)
                  /\ CopyOf(S \ {copy}, b, done, v.dst, n)

CopyInv1 ==
    pc \in Copying1 =>
        /\ Progress(w, pc = "c1crc", Before(free), 0, From(w.swap), SwapData(w.swap))
        /\ pc = "c1mark" => w.src = free

(* CHECKPOINT_2: the swap area is the good one *)
MovingInv ==
    pc \in Moving =>
        LET C == From(w.swap)
        IN  /\ Valid(desc) /\ desc.start = w.swap
            /\ SwapArea(fl, C, w.swap) /\ Room(ActiveSize(C), ActiveSize(C))
            /\ pc = "c2erase" =>
                 /\ Aligned(w.cur) /\ w.cur < w.swap
                 /\ \A r \in Before(w.swap) : r.lo >= w.cur

CopyInv2 ==
    pc \in Copying2 =>
        /\ Progress(w, pc = "c2crc", From(w.swap), SwapData(w.swap), Before(w.swap), 0)
        /\ pc = "c2inval" => w.src = SwapData(w.swap) + ActiveSize(From(w.swap))

(* CHECKPOINT_3: the data area is the good one, the swap area is erased *)
CleaningInv ==
    pc = "c3erase" =>
        LET O == Before(w.cur)
        IN  /\ ~Valid(desc) /\ desc # BlankDesc
            /\ Aligned(w.cur) /\ w.cur < PartSize
            /\ Room(ActiveSize(O), ActiveSize(O))
            /\ \A r \in fl \ O : Residue(r, O)
            /\ \E end \in 0..PartSize :
                 /\ DataArea(fl, O, end) /\ end <= w.cur
                 /\ op.kind = "set" => end = ActiveSize(O)

Core ==
    /\ TypeInv /\ CallInv /\ DownInv /\ ReadyInv /\ WritingInv /\ FormatInv /\ ScanInv
    /\ SavingInv /\ CopyInv1 /\ MovingInv /\ CopyInv2 /\ CleaningInv

IInv == Core /\ WasInv
=============================================================================

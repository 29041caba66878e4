------------------------------ MODULE PsmProps ------------------------------
(***************************************************************************)
(* What the checks ask of module Psm.                                      *)
(***************************************************************************)
EXTENDS Psm

Kinds == {"obj", "torn", "dead", "junk"}

(* Every variable has the shape of the C object it stands for: extents     *)
(* inside the partition that do not overlap, counters inside it, and a     *)
(* call in progress exactly when the module is up and not idle.            *)
TypeOK ==
    /\ \A e \in fl : 0 <= e.lo /\ e.lo < e.hi /\ e.hi <= PartSize /\ e.k \in Kinds
    /\ \A e, f \in fl : e = f \/ ~Overlaps(e, f.lo, f.hi)
    /\ desc.start \in {NoStart, BadStart} \cup 0..PartSize
    /\ desc.mark \in {"blank", "ok", "bad"}
    /\ total \in 0..PartSize /\ free \in 0..PartSize
    /\ high \in 0..InvalidId
    /\ st \in {"down", "init", "up", "failed"} /\ pc \in Places
    /\ op.kind \in {"none", "set", "del", "fmt"}
    /\ ret \in {"none", "ok", "err"}
    /\ st \in {"down", "failed"} => pc = "idle"
    /\ st = "init" => pc # "idle" /\ op = NoCall
    /\ st = "up" => (op = NoCall <=> pc = "idle")

-----------------------------------------------------------------------------
(* PSM implements an atomic map that survives power failures: whatever     *)
(* step of a write, a compaction or a recovery the power fails at, the     *)
(* next start finds for every name the last value set, or for the name of  *)
(* the interrupted call its previous value.                                *)
Store == INSTANCE PsmStore WITH
    kv   <- Durable,
    call <- [kind |-> op.kind, nm |-> op.nm, vl |-> op.vl, was |-> op.was],
    ret  <- ret
ImplementsStore == Store!Spec

(* The space accounting of PsmSpace, about which the theorems are proved,  *)
(* is what PSM does with the sizes of its objects.                         *)
Phase ==
    CASE st \in {"down", "failed"} -> "down"
      [] st = "init" -> "recovering"
      [] st = "up" /\ pc \in {"idle", "refuse", "del"} -> "ready"
      [] st = "up" /\ pc \in {"hdr", "data", "commit", "inact"} -> "writing"
      [] OTHER -> IF op.kind = "fmt" THEN "formatting" ELSE "compacting"

Space == INSTANCE PsmSpace WITH
    Sizes    <- {ObjSize(LenOf[v] + k) : v \in Values, k \in Slacks \cup {0}},
    phase    <- Phase,
    active   <- ActiveSize(Restored),
    used     <- IF DescValid THEN ActiveSize(Restored) ELSE ChainEnd(Accepted(fl)),
    reserved <- IF op.kind = "set" /\ pc # "refuse" THEN ObjSize(op.max) ELSE 0
ImplementsSpace == Space!Spec

(* A reader, who searches the data area by name and then by object id,     *)
(* finds what a restart would restore, whenever it can get the read lock.  *)
ReadsAreDurable == Idle => \A n \in Names : Lookup(n) = Durable[n]

(* No flash write is ever aimed at bytes that are already programmed: new  *)
(* objects go to blank flash, copies go to blank flash, and the swap       *)
(* descriptor is blank when it is written.                                 *)
WritesHitBlankFlash ==
    /\ pc = "hdr" => IsBlank(fl, free, free + ObjSize(op.max))
    /\ pc = "c0desc" => desc = BlankDesc /\ IsBlank(fl, SwapStart(total), PartSize)
    /\ pc = "c2copy" /\ w.src = SwapData(w.swap) /\ w.dst = 0 => IsBlank(fl, 0, w.swap)

(* psm-v2.c:707: when no compaction is to be continued the data area is    *)
(* good and the swap area is clean; nothing lies behind the last object.   *)
AreasAreClean == Idle => desc = BlankDesc /\ IsBlank(fl, free, PartSize)

(* The counters in RAM describe the flash whenever a caller can use them:  *)
(* the size of the active objects, the end of the last object, and an id   *)
(* that no object is above.                                                *)
CountersMatchFlash ==
    Idle => LET s == Scan(fl) IN
            /\ s.ok /\ total = s.total /\ free = s.free /\ high >= s.high

(* Ids and names stand for each other: all objects of a name, active or    *)
(* not, share an id no other name has.  The search by id rests on it.      *)
IdsNameObjects ==
    Idle => \A d, e \in DataChain(fl) : d.nm = e.nm <=> d.id = e.id

(* Initialisation recovers from a power failure at any point. *)
NeverBricked == st # "failed"

(* psm-v2.c:1485: the copies never run out of destination space. *)
DestinationNeverFull ==
    pc \in {"c1crc", "c2crc"} =>
        \A e \in fl : e.lo = w.src => w.dst + (e.hi - e.lo) < DestLimit

(* A started device comes up, and a call returns, unless the power fails.  *)
EventuallyServes == st = "init" ~> st \in {"up", "down"}
CallsReturn == op # NoCall ~> op = NoCall
=============================================================================

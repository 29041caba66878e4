------------------------------ MODULE NorFlash ------------------------------
(***************************************************************************)
(* The contents of one PSM partition as a set of extents, and the two      *)
(* operations of the flash driver (src/components/flash/mflash/mw320/      *)
(* mflash_drv.c): programming, which can only clear bits, and erasing one  *)
(* block, which sets every byte of it to 0xFF.                             *)
(*                                                                         *)
(* An extent is a run of programmed bytes [lo, hi) and what a reader makes *)
(* of them.  Bytes in no extent are blank.  An extent of kind              *)
(*   "obj"   is a complete object: header, name and data;                  *)
(*   "torn"  is an object whose header still has data_len 0xFFFF;          *)
(*   "dead"  is an object whose type field was overwritten with zeroes;    *)
(*   "junk"  is anything else: the rest of an object that lost a block, or *)
(*           the AND of two writes to the same bytes.                      *)
(* live is the active flag of the object (its bit 0 is not yet cleared),   *)
(* good says whether its CRC matches.                                      *)
(***************************************************************************)
EXTENDS PsmLayout, FiniteSets, FiniteSetsExt

CONSTANTS Names, Values, NoValue

Obj(lo, size, id, nm, vl, good) ==
    [lo |-> lo, hi |-> lo + size, k |-> "obj",
     id |-> id, nm |-> nm, vl |-> vl, live |-> TRUE, good |-> good]

Unreadable(kind, lo, hi) ==
    [lo |-> lo, hi |-> hi, k |-> kind, id |-> 0,
     nm |-> NoValue, vl |-> NoValue, live |-> FALSE, good |-> FALSE]

Overlaps(e, lo, hi) == e.lo < hi /\ lo < e.hi

IsBlank(fl, lo, hi) == \A e \in fl : ~Overlaps(e, lo, hi)

(* Program the bytes of extent e.  Over blank flash they read back as e;   *)
(* over programmed bytes the result is junk from end to end.               *)
Program(fl, e) ==
    LET hit == {x \in fl : Overlaps(x, e.lo, e.hi)}
        all == hit \cup {e}
    IN  IF hit = {} THEN fl \cup {e}
        ELSE (fl \ hit) \cup
             {Unreadable("junk", Min({x.lo : x \in all}), Max({x.hi : x \in all}))}

(* What is left of extent e when the block that starts at b is erased *)
Remains(e, b) ==
    IF ~Overlaps(e, b, b + BlockSize) THEN {e}
    ELSE {Unreadable("junk", p[1], p[2]) :
             p \in {q \in {<<e.lo, b>>, <<b + BlockSize, e.hi>>} : q[1] < q[2]}}

EraseBlock(fl, b) == UNION {Remains(e, b) : e \in fl}
=============================================================================

------------------------------- MODULE MCPsm -------------------------------
(* Small instances of Psm *)
EXTENDS PsmInv, TLC

CONSTANTS a, b, v1, v2

(* Object sizes 36 and 44 bytes: no set of them ends a compaction within   *)
(* Demarc + 1 bytes of the swap limit.                                     *)
LenInside == v1 :> 23 @@ v2 :> 31
(* Object sizes 47 and 44: compacting one of 47 bytes ends one byte before *)
(* the swap limit.                                                         *)
LenTouch == v1 :> 34 @@ v2 :> 31

(* Object sizes 64 and 36 bytes: in three blocks, one object of 64 bytes    *)
(* reaches exactly to the start of the swap area.                           *)
LenFull == v1 :> 51 @@ v2 :> 23

(* The power may fail anywhere; or anywhere but between the erases of a     *)
(* psm_format.                                                              *)
Everywhere == Places
OutsideFormat == Places \ {"fmt"}
=============================================================================

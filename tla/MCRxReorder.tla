---------------------------- MODULE MCRxReorder ----------------------------
(* Instances of RxReorder for TLC. *)
EXTENDS RxReorder

AllEvents == {"bar", "addba", "delba", "sleep"}
BarOnly == {"bar"}
NoEvents == {}

(* For the run rx_owner.  No action and none of its properties reads the   *)
(* history of the order; *)
Unordered == <<table, rx, mgr, lo, live, clash>>

(* and behind a race two of its properties say nothing, so that behaviours *)
(* are followed up to there.                                               *)
UntilRace == clash # "race"
=============================================================================

----------------------------- MODULE MCPsmSpace -----------------------------
(* A small instance of PsmSpace: four blocks of 64 bytes; objects of 15, 34 *)
(* and 120 bytes add up to totals at every distance from a block boundary.  *)
EXTENDS PsmSpace
=============================================================================

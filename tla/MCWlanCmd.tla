----------------------------- MODULE MCWlanCmd -----------------------------
(* A small instance of WlanCmd *)
EXTENDS WlanCmd

CONSTANTS c1, c2
=============================================================================

------------------------------ MODULE MCWlanPs ------------------------------
(* Small instances of WlanPs *)
EXTENDS WlanPs

CONSTANTS s1, s2, user
=============================================================================

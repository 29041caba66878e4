------------------------------ MODULE MCRwLock ------------------------------
(* A small instance of RwLock *)
EXTENDS RwLock

CONSTANTS t1, t2, t3, t4
=============================================================================

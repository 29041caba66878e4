------------------------------ MODULE MCFwUpdate ------------------------------
(* Two sessions, as HTTPSRV_CFG_DEFAULT_SES_CNT says *)
EXTENDS FwUpdate, TLC

CONSTANTS s1, s2

Symmetry == Permutations(Sessions)
MCTables == Layouts
=============================================================================

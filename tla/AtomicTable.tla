----------------------------- MODULE AtomicTable -----------------------------
(***************************************************************************)
(* What the partition table promises: a stored table that changes at one   *)
(* instant.  A restart finds the table of the previous start, or the one   *)
(* that the last completed update stored; never a mixture of two.  While a *)
(* second update of the same run is under way, and if it is cut short, the *)
(* first one is lost: a restart then finds the table of the previous       *)
(* start.                                                                  *)
(***************************************************************************)
CONSTANTS Tables, NoTable

VARIABLES
    base,   \* the table the running system started from
    stored, \* the table stored by the last update of this run, or NoTable
    mem     \* the table in memory

avars == <<base, stored, mem>>

AInit == base \in Tables /\ stored = NoTable /\ mem \in Tables

Begin(t) == mem' = t /\ stored' = NoTable /\ UNCHANGED base

Finish == stored = NoTable /\ stored' = mem /\ UNCHANGED <<base, mem>>

Restart ==
    LET found == IF stored = NoTable THEN base ELSE stored IN
    base' = found /\ mem' = found /\ stored' = NoTable

ANext == (\E t \in Tables : Begin(t)) \/ Finish \/ Restart

ASpec == AInit /\ [][ANext]_avars
=============================================================================

------------------------------ MODULE PartTable ------------------------------
(***************************************************************************)
(* The flash partition table (components/boot2_utils/partition.c).  It is  *)
(* kept in two copies.  The application reads the copy that Boot2 chose,   *)
(* the active one, and an update writes the other one with a higher        *)
(* generation level.  An update is one erase and three writes: the header  *)
(* with its CRC, the entries, and their CRC.  The power may fail between   *)
(* any two of them; one that fails within a write leaves a wrong CRC, and  *)
(* so counts as before it.                                                 *)
(*                                                                         *)
(* The active copy stays the same until the next start: a second update in *)
(* one run overwrites the first.                                           *)
(***************************************************************************)
EXTENDS Naturals

CONSTANTS
    Tables,  \* contents of the partition entries
    NoTable, \* a copy that holds no table
    MaxGen   \* bound on the generation level of the table

ASSUME TablesAssumption == NoTable \notin Tables
ASSUME MaxGenAssumption == MaxGen \in Nat

VARIABLES
    copy,   \* the two copies on flash
    active, \* g_active_part_addr: the copy that was read at the start
    ram,    \* g_flash_table and g_flash_parts
    step    \* the next flash access of part_write_layout, or "idle", "down"

pvars == <<copy, active, ram, step>>

Ids == {0, 1}
Other(c) == 1 - c

(* written: how many of the three writes the copy holds *)
Copies == [written : 0..3, gen : Nat, table : Tables]
Valid(c) == c.written = 3

(* Boot2 takes the valid copy of the higher generation level. *)
Newer(c) == Valid(copy[c]) /\ (Valid(copy[Other(c)]) => copy[c].gen > copy[Other(c)].gen)

(* The image of mw_img_conv is one copy of generation level 0. *)
PartInit ==
    \E t \in Tables :
        /\ copy = [c \in Ids |-> [written |-> IF c = 0 THEN 3 ELSE 0, gen |-> 0, table |-> t]]
        /\ active = 0
        /\ ram = [gen |-> 0, table |-> t]
        /\ step = "idle"

Passive == Other(active)

(* Mutant: an update erases the active copy *)
MutErase(t) ==
    /\ step = "idle" /\ ram.gen < MaxGen
    /\ ram' = [ram EXCEPT !.table = t]
    /\ copy' = [copy EXCEPT ![active].written = 0]
    /\ step' = "header"
    /\ UNCHANGED active

(* part_set_active_partition and the callers of part_write_layout change   *)
(* the entries in RAM; then the passive copy is erased.                    *)
Erase(t) ==
    /\ step = "idle" /\ ram.gen < MaxGen
    /\ ram' = [ram EXCEPT !.table = t]
    /\ copy' = [copy EXCEPT ![Passive].written = 0]
    /\ step' = "header"
    /\ UNCHANGED active

(* Mutant: the generation level is not incremented *)
MutWriteHeader ==
    /\ step = "header"
    /\ copy' = [copy EXCEPT ![Passive].written = 1, ![Passive].gen = ram.gen]
    /\ step' = "entries"
    /\ UNCHANGED <<active, ram>>

(* The header goes first; without the CRC of the entries it says nothing   *)
(* to Boot2.                                                               *)
WriteHeader ==
    /\ step = "header"
    /\ ram' = [ram EXCEPT !.gen = @ + 1]
    /\ copy' = [copy EXCEPT ![Passive].written = 1, ![Passive].gen = ram.gen + 1]
    /\ step' = "entries"
    /\ UNCHANGED active

WriteEntries ==
    /\ step = "entries"
    /\ copy' = [copy EXCEPT ![Passive].written = 2, ![Passive].table = ram.table]
    /\ step' = "crc"
    /\ UNCHANGED <<active, ram>>

WriteCrc ==
    /\ step = "crc"
    /\ copy' = [copy EXCEPT ![Passive].written = 3]
    /\ step' = "idle"
    /\ UNCHANGED <<active, ram>>

(* Power failure or reset *)
Fail ==
    /\ step # "down"
    /\ step' = "down"
    /\ UNCHANGED <<copy, active, ram>>

(* Mutant: part_init takes the copy that Boot2 did not choose *)
MutStart ==
    /\ step = "down"
    /\ \E c \in Ids :
        /\ Newer(c)
        /\ active' = Other(c)
        /\ ram' = [gen |-> copy[Other(c)].gen, table |-> copy[Other(c)].table]
    /\ step' = "idle"
    /\ UNCHANGED copy

(* Boot2 chooses a copy and says so in the boot flags, whose state bits it *)
(* leaves clear; part_init and part_read_layout read that copy.            *)
Start ==
    /\ step = "down"
    /\ \E c \in Ids :
        /\ Newer(c)
        /\ active' = c
        /\ ram' = [gen |-> copy[c].gen, table |-> copy[c].table]
    /\ step' = "idle"
    /\ UNCHANGED copy

WriteStep == WriteHeader \/ WriteEntries \/ WriteCrc

PartNext == (\E t \in Tables : Erase(t)) \/ WriteStep \/ Fail \/ Start

PartSpec == PartInit /\ [][PartNext]_pvars

-----------------------------------------------------------------------------
PartTypeOK ==
    /\ copy \in [Ids -> Copies] /\ active \in Ids
    /\ ram \in [gen : Nat, table : Tables]
    /\ step \in {"idle", "header", "entries", "crc", "down"}

(* Boot2 finds a table to start from, and no doubt which, in every state   *)
(* the power can leave: the copy the system started from stays whole and   *)
(* the two copies never have the same generation level.                    *)
TableSurvives == \E c \in Ids : Newer(c)

(* What makes it so: the level in RAM is at least that of either copy, and *)
(* a copy being written has the level and, later, the entries in RAM.      *)
Fresh == copy[Passive].gen > copy[active].gen
Level ==
    step # "down" =>
        /\ ram.gen >= copy[active].gen
        /\ Valid(copy[Passive]) => ram.gen >= copy[Passive].gen
Progress ==
    /\ step = "header" => copy[Passive].written = 0
    /\ step = "entries" => copy[Passive].written = 1
    /\ step = "crc" => copy[Passive].written = 2 /\ copy[Passive].table = ram.table
    /\ step \in {"entries", "crc"} => Fresh /\ copy[Passive].gen = ram.gen
Ordered ==
    Valid(copy[Passive]) =>
        /\ copy[Passive].gen # copy[active].gen
        /\ step = "idle" /\ Fresh => copy[Passive].table = ram.table
PartInv ==
    PartTypeOK /\ Valid(copy[active]) /\ Level /\ Progress /\ Ordered

-----------------------------------------------------------------------------
(* What the code promises, as a table that changes at one instant.  The    *)
(* entries in RAM are lost with the power, when the abstract ones wait for *)
(* the restart.                                                            *)
Stored ==
    IF Valid(copy[Passive]) /\ copy[Passive].gen > copy[active].gen
    THEN copy[Passive].table ELSE NoTable
Abstract == INSTANCE AtomicTable WITH
    base <- copy[active].table, stored <- Stored, mem <- ram.table

(* part_write_layout is atomic: a restart finds the table of an update     *)
(* either whole or not at all, and finds it if the call had returned and   *)
(* no later update had begun.                                              *)
ImplementsAtomicTable == Abstract!ASpec
=============================================================================

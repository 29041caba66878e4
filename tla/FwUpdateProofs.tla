---------------------------- MODULE FwUpdateProofs ----------------------------
(***************************************************************************)
(* Proofs about PartTable and FwUpdate.  The first part, on PartTable      *)
(* alone: Boot2 always finds a table, and an update is atomic; both follow *)
(* from PartInv.  The second, on FwUpdate, for any sessions, any bounds on *)
(* levels and generations, and uploads at any time; its properties hold as *)
(* long as users are Careful.                                              *)
(***************************************************************************)
EXTENDS FwUpdate, TLAPS

(***************************************************************************)
(* The partition table                                                     *)
(***************************************************************************)
(* The two copies are different *)
LEMMA PassiveFacts == ASSUME active \in Ids PROVE Passive \in Ids /\ Passive # active
BY DEF Ids, Passive, Other

(* Every kind of step preserves PartInv. *)
LEMMA EraseInv == ASSUME PartInv, NEW t \in Tables, Erase(t) PROVE PartInv'
<1> USE MaxGenAssumption
<1>1. Passive \in Ids /\ Passive # active
  BY PassiveFacts DEF PartInv, PartTypeOK
<1>2. PartTypeOK'
  BY <1>1 DEF PartInv, PartTypeOK, Erase, Copies, Ids
<1>3. Passive' = Passive /\ copy'[active] = copy[active] /\ copy'[Passive].written = 0
  BY <1>1 DEF PartInv, PartTypeOK, Erase, Passive, Ids
<1>4. Level' /\ Progress' /\ Ordered' /\ Valid(copy[active])'
  BY <1>1, <1>3 DEF PartInv, PartTypeOK, Erase, Level, Progress, Ordered, Valid, Copies
<1> QED BY <1>2, <1>4 DEF PartInv

LEMMA HeaderInv == ASSUME PartInv, WriteHeader PROVE PartInv'
<1>1. Passive \in Ids /\ Passive # active
  BY PassiveFacts DEF PartInv, PartTypeOK
<1>2. PartTypeOK'
  BY <1>1 DEF PartInv, PartTypeOK, WriteHeader, Copies, Ids
<1>3. /\ Passive' = Passive /\ copy'[active] = copy[active]
      /\ copy'[Passive].written = 1 /\ copy'[Passive].gen = ram.gen + 1
      /\ ram'.gen = ram.gen + 1 /\ step' = "entries" /\ active' = active
  BY <1>1 DEF PartInv, PartTypeOK, WriteHeader, Passive, Ids, Copies
<1>4. copy[active].gen \in Nat /\ ram.gen \in Nat /\ ram.gen >= copy[active].gen
  BY <1>1 DEF PartInv, PartTypeOK, Level, WriteHeader, Copies
<1>5. Level' /\ Progress' /\ Ordered' /\ Valid(copy[active])'
  BY <1>1, <1>3, <1>4 DEF PartInv, Level, Progress, Ordered, Valid, Fresh
<1> QED BY <1>2, <1>5 DEF PartInv

LEMMA EntriesInv == ASSUME PartInv, WriteEntries PROVE PartInv'
<1>1. Passive \in Ids /\ Passive # active
  BY PassiveFacts DEF PartInv, PartTypeOK
<1>2. PartTypeOK'
  BY <1>1 DEF PartInv, PartTypeOK, WriteEntries, Copies, Ids
<1>3. /\ Passive' = Passive /\ copy'[active] = copy[active]
      /\ copy'[Passive].written = 2 /\ copy'[Passive].gen = copy[Passive].gen
      /\ copy'[Passive].table = ram.table
      /\ ram' = ram /\ step' = "crc" /\ active' = active
  BY <1>1 DEF PartInv, PartTypeOK, WriteEntries, Passive, Ids, Copies
<1>4. Level' /\ Progress' /\ Ordered' /\ Valid(copy[active])'
  BY <1>1, <1>3 DEF PartInv, Level, Progress, Ordered, Valid, Fresh, WriteEntries
<1> QED BY <1>2, <1>4 DEF PartInv

LEMMA CrcInv == ASSUME PartInv, WriteCrc PROVE PartInv'
<1>1. Passive \in Ids /\ Passive # active
  BY PassiveFacts DEF PartInv, PartTypeOK
<1>2. PartTypeOK'
  BY <1>1 DEF PartInv, PartTypeOK, WriteCrc, Copies, Ids
<1>3. /\ Passive' = Passive /\ copy'[active] = copy[active]
      /\ copy'[Passive].written = 3 /\ copy'[Passive].gen = copy[Passive].gen
      /\ copy'[Passive].table = copy[Passive].table
      /\ ram' = ram /\ step' = "idle" /\ active' = active
  BY <1>1 DEF PartInv, PartTypeOK, WriteCrc, Passive, Ids, Copies
<1>4. copy[Passive].gen \in Nat /\ copy[active].gen \in Nat /\ ram.gen \in Nat
  BY <1>1 DEF PartInv, PartTypeOK, Copies
<1>5. Level' /\ Progress' /\ Ordered' /\ Valid(copy[active])'
  BY <1>1, <1>3, <1>4 DEF PartInv, Level, Progress, Ordered, Valid, Fresh, WriteCrc
<1> QED BY <1>2, <1>5 DEF PartInv

LEMMA FailInv == ASSUME PartInv, Fail PROVE PartInv'
BY DEF PartInv, PartTypeOK, Fail, Level, Progress, Ordered, Fresh, Passive, Valid

LEMMA StartInv == ASSUME PartInv, Start PROVE PartInv'
<1>1. PICK c \in Ids :
        Newer(c) /\ active' = c /\ ram' = [gen |-> copy[c].gen, table |-> copy[c].table]
  BY DEF Start
<1>2. copy' = copy /\ step' = "idle" /\ Passive' = Other(c) /\ Other(c) \in Ids
  BY <1>1 DEF Start, Passive, Other, Ids
<1>3. copy[c] \in Copies /\ copy[Other(c)] \in Copies
  BY <1>2 DEF PartInv, PartTypeOK
<1>4. Level' /\ Progress' /\ Ordered' /\ Valid(copy[active])'
  BY <1>1, <1>2, <1>3 DEF Level, Progress, Ordered, Fresh, Newer, Valid, Copies
<1>5. PartTypeOK'
  BY <1>1, <1>2, <1>3 DEF PartInv, PartTypeOK, Copies
<1> QED BY <1>4, <1>5 DEF PartInv

LEMMA PartInvInit == PartInit => PartInv
BY DEF PartInit, PartInv, PartTypeOK, Copies, Ids, Level, Progress, Ordered, Fresh,
       Passive, Other, Valid

LEMMA PartInvStep == PartInv /\ [PartNext]_pvars => PartInv'
<1> SUFFICES ASSUME PartInv, [PartNext]_pvars PROVE PartInv'
  OBVIOUS
<1>1. CASE \E t \in Tables : Erase(t) BY <1>1, EraseInv
<1>2. CASE WriteStep BY <1>2, HeaderInv, EntriesInv, CrcInv DEF WriteStep
<1>3. CASE Fail BY <1>3, FailInv
<1>4. CASE Start BY <1>4, StartInv
<1>5. CASE UNCHANGED pvars
  BY <1>5 DEF pvars, PartInv, PartTypeOK, Level, Progress, Ordered, Fresh, Passive, Valid
<1> QED BY <1>1, <1>2, <1>3, <1>4, <1>5 DEF PartNext

(* PartInv holds for every set of tables. *)
THEOREM PartInvariant == PartSpec => []PartInv
BY PartInvInit, PartInvStep, PTL DEF PartSpec

(* Whenever the power fails, Boot2 finds exactly one copy to start from.   *)
THEOREM BootFindsTable == PartSpec => []TableSurvives
<1>1. PartInv => TableSurvives
  <2> SUFFICES ASSUME PartInv PROVE TableSurvives
    OBVIOUS
  <2>1. /\ Passive \in Ids /\ Passive = Other(active) /\ active = Other(Passive)
        /\ active \in Ids
    BY DEF PartInv, PartTypeOK, Ids, Passive, Other
  <2>2. copy[active].gen \in Nat /\ copy[Passive].gen \in Nat
    BY <2>1 DEF PartInv, PartTypeOK, Copies
  <2>3. CASE Valid(copy[Passive]) /\ Fresh
    BY <2>1, <2>3 DEF TableSurvives, Newer, Fresh
  <2>4. CASE ~(Valid(copy[Passive]) /\ Fresh)
    BY <2>1, <2>2, <2>4 DEF TableSurvives, Newer, Fresh, PartInv, Ordered
  <2> QED BY <2>3, <2>4
<1> QED BY <1>1, PartInvariant, PTL

(* part_write_layout is atomic for every set of tables: PartTable          *)
(* implements AtomicTable.                                                 *)
THEOREM UpdateIsAtomic == PartSpec => ImplementsAtomicTable
<1> USE TablesAssumption
<1>1. PartInit => Abstract!AInit
  BY DEF PartInit, Abstract!AInit, Stored, Valid, Passive, Other, Ids
<1>2. PartInv /\ [PartNext]_pvars => [Abstract!ANext]_(Abstract!avars)
  <2> SUFFICES ASSUME PartInv, [PartNext]_pvars
               PROVE  Abstract!ANext \/ UNCHANGED Abstract!avars
    OBVIOUS
  <2> USE DEF Abstract!avars, Fresh
  <2>0. Passive \in Ids /\ Passive # active /\ active \in Ids
    BY PassiveFacts DEF PartInv, PartTypeOK
  <2>1. ASSUME NEW t \in Tables, Erase(t) PROVE Abstract!Begin(t)
    BY <2>0, <2>1 DEF Erase, Abstract!Begin, PartInv, PartTypeOK, Stored, Valid, Passive,
                      Copies
  <2>2. CASE WriteHeader \/ WriteEntries
    <3>1. /\ Passive' = Passive /\ active' = active /\ ram'.table = ram.table
          /\ copy'[active] = copy[active]
          /\ copy[Passive].written # 3 /\ copy'[Passive].written # 3
      BY <2>0, <2>2 DEF WriteHeader, WriteEntries, PartInv, PartTypeOK, Progress, Passive,
                        Copies
    <3> QED BY <3>1 DEF Stored, Valid
  <2>3. CASE WriteCrc
    <3>1. /\ Passive' = Passive /\ active' = active /\ ram' = ram
          /\ copy'[active] = copy[active]
          /\ copy'[Passive].written = 3 /\ copy'[Passive].gen = copy[Passive].gen
          /\ copy'[Passive].table = copy[Passive].table
          /\ copy[Passive].written = 2 /\ copy[Passive].table = ram.table
          /\ copy[Passive].gen > copy[active].gen
      BY <2>0, <2>3 DEF WriteCrc, PartInv, PartTypeOK, Progress, Passive, Copies
    <3>2. Abstract!Finish
      BY <3>1 DEF Abstract!Finish, Stored, Valid
    <3> QED BY <3>2 DEF Abstract!ANext
  <2>4. CASE Fail
    BY <2>4 DEF Fail, Stored, Passive, Valid
  <2>5. CASE Start
    <3>1. PICK c \in Ids :
            Newer(c) /\ active' = c /\ ram' = [gen |-> copy[c].gen, table |-> copy[c].table]
      BY <2>5 DEF Start
    <3>2. copy' = copy /\ Passive' = Other(c)
      BY <2>5, <3>1 DEF Start, Passive
    <3>3. copy[0].gen \in Nat /\ copy[1].gen \in Nat
      BY DEF PartInv, PartTypeOK, Copies, Ids
    <3>4. Stored' = NoTable
      BY <3>1, <3>2, <3>3 DEF Stored, Newer, Valid, Other, Ids
    <3>5. copy[c].table = IF Stored = NoTable THEN copy[active].table ELSE Stored
      <4>1. copy[0].table \in Tables /\ copy[1].table \in Tables
        BY DEF PartInv, PartTypeOK, Copies, Ids
      <4> QED BY <2>0, <3>1, <3>3, <4>1 DEF Stored, Newer, Valid, Other, Ids, Passive, PartInv
    <3>6. Abstract!Restart
      BY <3>1, <3>2, <3>4, <3>5 DEF Abstract!Restart
    <3> QED BY <3>6 DEF Abstract!ANext
  <2>6. CASE UNCHANGED pvars
    BY <2>6 DEF pvars, Stored, Passive, Valid
  <2> QED BY <2>1, <2>2, <2>3, <2>4, <2>5, <2>6 DEF PartNext, WriteStep, Abstract!ANext
<1> QED BY <1>1, <1>2, PartInvariant, PTL DEF PartSpec, ImplementsAtomicTable, Abstract!ASpec

-----------------------------------------------------------------------------
(***************************************************************************)
(* The update                                                              *)
(***************************************************************************)
LEMMA LevelsAre == TestFlag = MaxLevel + 1 /\ MaxLevel \in Nat \ {0} /\ Levels = 0..(MaxLevel + 1)
BY MaxLevelAssumption DEF TestFlag, Levels

(* What Boot2 chooses when a table is safe *)
LEMMA SafeBoots ==
    ASSUME NEW t \in Layouts, Safe(t)
    PROVE  Choice(t) = Highest(t) /\ image[Choice(t)] = "good" /\ Highest(t) \in Slots
BY DEF Safe, Choice, Highest, Slots

(* Safety of a table depends on the images and their acceptance alone. *)
LEMMA SafeKeeps ==
    ASSUME NEW t \in Layouts, Safe(t), image' = image,
           \A s \in Slots : accepted[s] => accepted'[s]
    PROVE  Safe(t)'
<1>1. Highest(t) \in Slots /\ 1 - Highest(t) \in Slots
    BY DEF Highest, Slots
<1>2. Highest(t)' = Highest(t)
    BY DEF Highest
<1> QED
    BY <1>1, <1>2 DEF Safe

(* Tables and copies have their types. *)
LEMMA TableTypes ==
    ASSUME Tables = Layouts, PartInv
    PROVE  /\ active \in Ids /\ Passive \in Ids /\ Passive # active /\ Other(Passive) = active
           /\ Base \in Layouts /\ copy[Passive].table \in Layouts /\ ram.table \in Layouts
           /\ ram.gen \in Nat /\ copy[active].gen \in Nat /\ copy[Passive].gen \in Nat
BY PassiveFacts DEF PartInv, PartTypeOK, Copies, Base, Passive, Other, Ids

(* A layout write begins: *)
LEMMA ErasedTable ==
    ASSUME PartInv, NEW t \in Tables, Erase(t)
    PROVE  /\ step = "idle" /\ step' = "header" /\ ram'.table = t
           /\ Base' = Base /\ ~Written'
<1>1. Passive \in Ids /\ Passive # active /\ Passive' = Passive
    BY PassiveFacts DEF PartInv, PartTypeOK, Erase, Passive
<1>2. copy'[active] = copy[active] /\ copy'[Passive].written = 0 /\ ram'.table = t
    BY <1>1 DEF Erase, PartInv, PartTypeOK, Copies, Ids
<1> QED
    BY <1>1, <1>2 DEF Erase, Base, Written, Valid

(* and goes on, until the new table is complete. *)
LEMMA WrittenTable ==
    ASSUME PartInv, WriteStep
    PROVE  /\ step \in {"header", "entries", "crc"} /\ step' \in {"entries", "crc", "idle"}
           /\ ram'.table = ram.table /\ Base' = Base
           /\ step' = "idle" => Written' /\ copy'[Passive].table = ram.table
           /\ step' # "idle" => ~Written'
           /\ Passive' = Passive
<1>1. Passive \in Ids /\ Passive # active /\ Passive' = Passive /\ active' = active
    BY PassiveFacts DEF PartInv, PartTypeOK, WriteStep, WriteHeader, WriteEntries, WriteCrc, Passive
<1>2. CASE WriteHeader
    <2>1. copy'[active] = copy[active] /\ copy'[Passive].written = 1 /\ ram'.table = ram.table
        BY <1>1, <1>2 DEF WriteHeader, PartInv, PartTypeOK, Copies, Ids
    <2> QED
        BY <1>1, <1>2, <2>1 DEF WriteHeader, Base, Written, Valid
<1>3. CASE WriteEntries
    <2>1. copy'[active] = copy[active] /\ copy'[Passive].written = 2 /\ ram' = ram
        BY <1>1, <1>3 DEF WriteEntries, PartInv, PartTypeOK, Copies, Ids
    <2> QED
        BY <1>1, <1>3, <2>1 DEF WriteEntries, Base, Written, Valid
<1>4. CASE WriteCrc
    <2>1. /\ copy'[active] = copy[active] /\ copy'[Passive].written = 3 /\ ram' = ram
          /\ copy'[Passive].gen = copy[Passive].gen /\ copy'[Passive].table = copy[Passive].table
        BY <1>1, <1>4 DEF WriteCrc, PartInv, PartTypeOK, Copies, Ids
    <2>2. Fresh /\ copy[Passive].table = ram.table
        BY <1>4 DEF WriteCrc, PartInv, Progress
    <2> QED
        BY <1>1, <1>4, <2>1, <2>2 DEF WriteCrc, Base, Written, Valid, Fresh
<1> QED
    BY <1>2, <1>3, <1>4 DEF WriteStep

(* While a layout is written there is one table, and none is newer. *)
LEMMA WritingIsNotWritten ==
    ASSUME PartInv, step \in {"header", "entries", "crc"}
    PROVE  ~Written
BY DEF PartInv, PartTypeOK, Progress, Written, Valid

(* A run that has written a layout is told by its generation level. *)
LEMMA WrittenLevel ==
    ASSUME Tables = Layouts, PartInv, step # "down", Written
    PROVE  ram.gen # copy[active].gen
BY TableTypes DEF PartInv, Level, Written, Fresh

(* What holds of any users, and of careful ones *)
DeviceInv == PartInv /\ FTypeOK /\ RunInv
CareInv == SafeInv /\ UploadInv /\ TestInv

LEMMA InitIInv == ASSUME Tables = Layouts PROVE Init => DeviceInv /\ CareInv
<1> SUFFICES ASSUME Init PROVE DeviceInv /\ CareInv
    OBVIOUS
<1>1. PartInv
    <2>1. [s \in Slots |-> 1] \in Tables
        BY LevelsAre DEF Layouts
    <2> QED
        BY <2>1 DEF Init, PartInv, PartTypeOK, Copies, Ids, Level, Progress, Ordered, Fresh,
                    Passive, Other, Valid
<1>2. FTypeOK
    BY DEF Init, FTypeOK, Slots, Contents
<1>3. Base = [s \in Slots |-> 1] /\ ~Written /\ step = "down"
    BY DEF Init, Base, Written, Valid, Passive, Other, Ids
<1>4. Base[0] = 1 /\ Base[1] = 1 /\ Highest(Base) = 0
    BY <1>3 DEF Slots, Highest
<1>5. SafeInv
    <2>1. image[0] = "good" /\ TestFlag # 1
        BY LevelsAre DEF Init, Slots
    <2>2. accepted[0]
        BY 0 \in Slots, Zenon DEF Init, Slots
    <2>3. Safe(Base)
        BY <1>4, <2>1, <2>2 DEF Safe
    <2> QED
        BY <1>3, <2>3 DEF SafeInv, Init
<1>6. RunInv /\ UploadInv /\ TestInv
    BY <1>3, <1>4 DEF Init, RunInv, UploadInv, TestInv, Uploading
<1> QED
    BY <1>1, <1>2, <1>5, <1>6 DEF DeviceInv, CareInv

(* A step of a request that leaves the table alone *)
LEMMA SamePart ==
    ASSUME UNCHANGED pvars
    PROVE  /\ Base' = Base /\ Written' = Written /\ Clean' = Clean /\ NoLayoutYet' = NoLayoutYet
           /\ step' = step /\ ram' = ram /\ copy' = copy /\ active' = active /\ Passive' = Passive
           /\ PartInv => PartInv'
BY DEF pvars, Base, Written, Clean, NoLayoutYet, Valid, Fresh, Passive, PartInv, PartTypeOK, Level,
       Progress, Ordered

(* The types, with any users *)
LEMMA RequestDevice ==
    ASSUME Tables = Layouts, DeviceInv, NEW s \in Sessions, Request(s)
    PROVE  DeviceInv'
<1> USE DEF DeviceInv
<1>0. first \in Slots /\ second \in Slots /\ run \in Slots /\ ram.table \in Layouts
    BY TableTypes DEF FTypeOK, second, Slots
<1>1. CASE AskReboot(s) \/ Accept(s)
    <2>1. PICK t \in Layouts : Erase(t)
        <3>1. CASE AskReboot(s)
            <4>1. [ram.table EXCEPT ![second] = TestFlag] \in Layouts
                BY <1>0, LevelsAre DEF Layouts
            <4> QED
                BY <3>1, <4>1 DEF AskReboot
        <3>2. CASE Accept(s)
            <4>1. [ram.table EXCEPT ![first] = ram.table[second] + 1] \in Layouts
                BY <1>0, <3>2, LevelsAre DEF Layouts, Accept
            <4> QED
                BY <3>2, <4>1 DEF Accept
        <3> QED
            BY <1>1, <3>1, <3>2
    <2>2. PartInv' /\ Base' = Base /\ step = "idle" /\ step' = "header"
        BY <2>1, EraseInv, ErasedTable
    <2>3. /\ at = "serving" /\ UNCHANGED <<image, run, first, status, at>>
          /\ accepted' = accepted \/ accepted' = [accepted EXCEPT ![run] = TRUE]
          /\ request' = request \/ request' = [request EXCEPT ![s] = "accepting"]
          /\ care' \in {care, "kept", "lost"}
        BY <1>1 DEF AskReboot, Accept
    <2>4. FTypeOK'
        BY <1>0, <2>3 DEF FTypeOK
    <2> QED
        BY <2>2, <2>3, <2>4 DEF RunInv, Highest
<1>2. CASE UploadErase(s) \/ UploadStore(s) \/ UploadEnd(s) \/ UploadFail(s) \/ Accepted(s)
    <2>1. UNCHANGED pvars /\ UNCHANGED <<run, first, at>>
        BY <1>2 DEF UploadErase, UploadStore, UploadEnd, UploadFail, Accepted
    <2>2. at = "serving"
        <3>1. CASE UploadErase(s)
            BY <3>1 DEF UploadErase
        <3>2. CASE request[s] # "none"
            BY <3>2 DEF RunInv
        <3> QED
            BY <1>2, <3>1, <3>2 DEF UploadStore, UploadEnd, UploadFail, Accepted, Uploading
    <2>3. FTypeOK'
        <3> USE <1>0, <2>1 DEF FTypeOK, Contents, Become
        <3>1. CASE UploadErase(s)
            BY <3>1 DEF UploadErase
        <3>2. CASE UploadStore(s)
            BY <3>2 DEF UploadStore
        <3>3. CASE UploadEnd(s)
            BY <3>3 DEF UploadEnd
        <3>4. CASE UploadFail(s)
            BY <3>4 DEF UploadFail
        <3>5. CASE Accepted(s)
            BY <3>5 DEF Accepted
        <3> QED
            BY <1>2, <3>1, <3>2, <3>3, <3>4, <3>5
    <2> QED
        BY <2>1, <2>2, <2>3, SamePart DEF RunInv, Highest
<1> QED
    BY <1>1, <1>2 DEF Request

LEMMA DeviceNext == ASSUME Tables = Layouts, DeviceInv, [Next]_vars PROVE DeviceInv'
<1> USE DEF DeviceInv
<1>1. CASE Reset
    BY <1>1, FailInv DEF Reset, Fail, FTypeOK, RunInv, Become
<1>2. CASE Boot
    <2>1. PartInv' /\ step' = "idle" /\ Base' = ram'.table /\ step = "down"
        BY <1>2, StartInv DEF Boot, Start, Base, PartInv, PartTypeOK, Copies
    <2>2. run' \in Slots /\ first' = Highest(Base') /\ first' \in Slots
        BY <1>2, <2>1 DEF Boot, Choice, Highest, Slots
    <2>3. UNCHANGED <<image, accepted, request, care>> /\ status' = "none" /\ at' = "main" /\ at = "off"
        BY <1>2, <2>1 DEF Boot, RunInv
    <2> QED
        BY <2>1, <2>2, <2>3 DEF FTypeOK, RunInv, Highest
<1>3. CASE EnterTest
    <2>1. Level0(ram.table, first) \in Layouts
        BY TableTypes, LevelsAre DEF FTypeOK, Level0, Layouts
    <2>2. PartInv' /\ Base' = Base /\ step = "idle" /\ step' = "header"
        BY <1>3, <2>1, EraseInv, ErasedTable DEF EnterTest
    <2> QED
        BY <1>3, <2>2 DEF EnterTest, FTypeOK, RunInv, Highest
<1>4. CASE Serve
    BY <1>4, SamePart DEF Serve, FTypeOK, RunInv, Highest
<1>5. CASE LayoutStep
    <2>1. PartInv' /\ Base' = Base /\ step # "down" /\ step' # "down" /\ UNCHANGED fvars
        BY <1>5, HeaderInv, EntriesInv, CrcInv, WrittenTable DEF LayoutStep, WriteStep
    <2> QED
        BY <2>1 DEF fvars, FTypeOK, RunInv, Highest
<1>6. CASE UNCHANGED vars
    BY <1>6, SamePart DEF vars, fvars, FTypeOK, RunInv, Highest
<1> QED
    BY <1>1, <1>2, <1>3, <1>4, <1>5, <1>6, RequestDevice DEF Next

(* What is lost stays lost. *)
LEMMA CareGrows == ASSUME [Next]_vars, Careful' PROVE Careful
BY DEF Careful, Next, vars, fvars, Request, Become, Reset, Boot, EnterTest, Serve, LayoutStep,
       UploadErase, UploadStore, UploadEnd, UploadFail, AskReboot, Accept, Accepted

(* Resets and starts *)
LEMMA ResetKeeps == ASSUME DeviceInv, CareInv, Reset PROVE CareInv'
<1>1. Base' = Base /\ Written' = Written /\ copy' = copy /\ Passive' = Passive /\ step' = "down"
    BY DEF Reset, Fail, Base, Written, Valid, Fresh, Passive
<1>2. SafeInv'
    BY <1>1 DEF CareInv, SafeInv, Safe, Highest, Reset
<1>3. UploadInv' /\ TestInv'
    BY <1>1 DEF Reset, UploadInv, TestInv, Uploading
<1> QED
    BY <1>2, <1>3 DEF CareInv

LEMMA BootKeeps == ASSUME Tables = Layouts, DeviceInv, DeviceInv', CareInv, Boot PROVE CareInv'
<1> USE DEF DeviceInv, CareInv
<1>1. PICK c \in Ids :
        Newer(c) /\ active' = c /\ ram' = [gen |-> copy[c].gen, table |-> copy[c].table]
    BY DEF Boot, Start
<1>2. copy' = copy /\ step = "down" /\ step' = "idle" /\ Passive' = Other(c) /\ Other(c) \in Ids
    BY <1>1 DEF Boot, Start, Passive, Other, Ids
<1>3. Base' = copy[c].table /\ ram'.table = Base' /\ Base' \in Layouts
    BY <1>1, <1>2, TableTypes DEF Base, PartInv, PartTypeOK, Copies
<1>4. Safe(Base')
    <2>1. CASE c = active
        BY <2>1, <1>3 DEF SafeInv, Base
    <2>2. CASE c # active
        <3>1. c = Passive /\ Other(c) = active
            BY <2>2, <1>1, TableTypes DEF Ids, Passive, Other
        <3>2. Written
            BY <3>1, <1>1 DEF PartInv, Newer, Written, Fresh
        <3> QED
            BY <3>1, <3>2, <1>3 DEF SafeInv
    <2> QED
        BY <2>1, <2>2
<1>5. ~Written'
    <2>1. copy[c].gen \in Nat /\ copy[Other(c)].gen \in Nat
        BY <1>1, <1>2 DEF PartInv, PartTypeOK, Copies
    <2> QED
        BY <1>1, <1>2, <2>1 DEF Written, Newer, Valid, Fresh
<1>6. image' = image /\ accepted' = accepted /\ request' = request /\ status' = "none" /\ at' = "main"
    BY DEF Boot
<1>7. at = "off"
    BY <1>2 DEF RunInv
<1>8. first' = Highest(Base') /\ run' = first'
    BY <1>3, <1>4, SafeBoots DEF Boot
<1>9. SafeInv'
    BY <1>2, <1>4, <1>5, <1>6, <1>8 DEF SafeInv, Safe, Highest
<1>10. UploadInv' /\ TestInv'
    BY <1>2, <1>3, <1>5, <1>6, <1>7 DEF RunInv, UploadInv, TestInv, Uploading, Clean
<1> QED
    BY <1>9, <1>10

(* main(), and layout writes under way *)
LEMMA EnterTestKeeps == ASSUME Tables = Layouts, DeviceInv, CareInv, EnterTest PROVE CareInv'
<1> USE DEF DeviceInv, CareInv
<1>1. /\ Base \in Layouts /\ Highest(Base) = first /\ Safe(Base) /\ first \in Slots
      /\ ram.table \in Layouts /\ run = first
    BY TableTypes DEF SafeInv, RunInv, FTypeOK, EnterTest
<1>2. step = "idle" /\ at = "main" /\ ram.table[first] = TestFlag
    BY DEF EnterTest
<1>3. status = "none" /\ ram.table = Base /\ ~Written
    BY <1>1, <1>2, LevelsAre DEF TestInv, Clean, Layouts
<1> DEFINE t == Level0(ram.table, first)
<1>4. /\ second \in Slots /\ second # first /\ t \in Layouts
      /\ t[first] = 0 /\ t[second] = Base[second]
    BY <1>1, <1>3, LevelsAre DEF second, Slots, Layouts, Level0
<1>5. t[second] \in 1..MaxLevel /\ image[second] = "good" /\ accepted[second]
    BY <1>1, <1>2, <1>3, <1>4 DEF Safe, second
<1>6. Highest(t) = second
    BY <1>1, <1>4, <1>5, LevelsAre DEF Highest, second, Slots
<1>7. Safe(t)
    BY <1>4, <1>5, <1>6, LevelsAre DEF Safe
<1>8. Base' = Base /\ ~Written' /\ ram'.table = t /\ step' = "header"
    BY <1>4, ErasedTable DEF EnterTest
<1>9. UNCHANGED <<image, accepted, run, first, at, request>> /\ status' = "testing"
    BY DEF EnterTest
<1>10. SafeInv'
    BY <1>1, <1>7, <1>8, <1>9 DEF SafeInv, Safe, Highest
<1>11. UploadInv' /\ TestInv'
    BY <1>2, <1>3, <1>4, <1>8, <1>9, LevelsAre DEF RunInv, UploadInv, TestInv, Uploading, second
<1> QED
    BY <1>10, <1>11

LEMMA ServeKeeps == ASSUME DeviceInv, CareInv, Serve PROVE CareInv'
<1> USE DEF DeviceInv, CareInv
<1>1. /\ UNCHANGED <<pvars, image, accepted, run, first, status, request>>
      /\ at = "main" /\ at' = "serving" /\ step = "idle" /\ ram.table[first] # TestFlag
    BY DEF Serve
<1>2. Base' = Base /\ Written' = Written /\ ram' = ram /\ step' = step /\ copy' = copy /\ Passive' = Passive
    BY <1>1, SamePart
<1>3. SafeInv'
    BY <1>1, <1>2 DEF SafeInv, Safe, Highest
<1>4. UploadInv' /\ TestInv'
    BY <1>1, <1>2 DEF UploadInv, TestInv, RunInv, Uploading, Clean, second
<1> QED
    BY <1>3, <1>4

LEMMA LayoutKeeps == ASSUME DeviceInv, CareInv, LayoutStep PROVE CareInv'
<1> USE DEF DeviceInv, CareInv
<1>1. /\ step \in {"header", "entries", "crc"} /\ step' \in {"entries", "crc", "idle"}
      /\ ram'.table = ram.table /\ Base' = Base
      /\ step' = "idle" => Written' /\ copy'[Passive].table = ram.table
      /\ step' # "idle" => ~Written'
      /\ Passive' = Passive
    BY WrittenTable DEF LayoutStep
<1>2. UNCHANGED fvars
    BY DEF LayoutStep
<1>3. SafeInv'
    BY <1>1, <1>2 DEF SafeInv, Safe, Highest, fvars
<1>4. ~Clean
    BY <1>1 DEF Clean
<1>5. UploadInv' /\ TestInv'
    BY <1>1, <1>2, <1>4 DEF UploadInv, TestInv, Uploading, fvars, second
<1> QED
    BY <1>3, <1>5

(* A safe table in a run that tests nothing depends on the slot that runs. *)
LEMMA OtherSlotIsFree ==
    ASSUME NEW t \in Layouts, Safe(t), t[Highest(t)] # TestFlag,
           image'[Highest(t)] = image[Highest(t)], accepted'[Highest(t)] = accepted[Highest(t)]
    PROVE  Safe(t)'
<1>1. Highest(t)' = Highest(t)
    BY DEF Highest
<1> QED
    BY <1>1 DEF Safe

(* An upload changes the other slot alone, in a run that has written no    *)
(* layout.                                                                 *)
LEMMA UploadKeeps ==
    ASSUME Tables = Layouts, DeviceInv, CareInv, Careful', NEW s \in Sessions,
           UploadErase(s) \/ UploadStore(s) \/ UploadEnd(s) \/ UploadFail(s)
    PROVE  CareInv'
<1> USE DEF DeviceInv, CareInv
<1>1. UNCHANGED pvars /\ UNCHANGED <<run, first, at>>
    BY DEF UploadErase, UploadStore, UploadEnd, UploadFail
<1>2. /\ Base' = Base /\ Written' = Written /\ Clean' = Clean /\ step' = step /\ ram' = ram
      /\ copy' = copy /\ active' = active /\ Passive' = Passive
    BY <1>1, SamePart
<1>3. at = "serving" /\ status # "testing" /\ Clean /\ Base[first] # TestFlag
    <2>1. CASE UploadErase(s)
        <3>1. at = "serving" /\ NoLayoutYet
            BY <2>1 DEF UploadErase, Careful, Become
        <3>2. step = "idle" /\ ~Written
            BY <3>1, WrittenLevel DEF NoLayoutYet
        <3>3. status # "testing"
            BY <3>1, <3>2 DEF TestInv
        <3>4. Clean /\ Base[first] # TestFlag
            BY <3>1, <3>2, <3>3 DEF TestInv, UploadInv, FTypeOK
        <3> QED
            BY <3>1, <3>3, <3>4
    <2>2. CASE UploadStore(s) \/ UploadEnd(s) \/ UploadFail(s)
        <3>1. Uploading(s)
            BY <2>2 DEF UploadStore, UploadEnd, UploadFail, Uploading
        <3>2. at = "serving"
            BY <3>1 DEF RunInv, FTypeOK, Uploading
        <3> QED
            BY <3>1, <3>2 DEF UploadInv
    <2> QED
        BY <2>1, <2>2
<1>4. /\ Base \in Layouts /\ Highest(Base) = first /\ Safe(Base) /\ first \in Slots
      /\ second \in Slots /\ second # first
    BY <1>3, TableTypes DEF SafeInv, RunInv, FTypeOK, second, Slots
<1>5. /\ image'[first] = image[first] /\ accepted'[first] = accepted[first]
      /\ \A s2 \in Sessions : s2 # s => request'[s2] = request[s2]
      /\ request'[s] \in {"none", "erased", "half"}
    <2> USE <1>4 DEF FTypeOK, Contents
    <2>1. CASE UploadErase(s)
        BY <2>1 DEF UploadErase
    <2>2. CASE UploadStore(s)
        BY <2>2 DEF UploadStore
    <2>3. CASE UploadEnd(s)
        BY <2>3 DEF UploadEnd
    <2>4. CASE UploadFail(s)
        BY <2>4 DEF UploadFail
    <2> QED
        BY <2>1, <2>2, <2>3, <2>4
<1>6. /\ status' \in {"none", "uploaded"}
      /\ status' = "none" => status = "none"
      /\ status' = "uploaded" /\ care' = "kept" => image'[second] = "good"
    <2>1. CASE UploadEnd(s)
        BY <2>1, <1>3, <1>4 DEF UploadEnd, FTypeOK, Careful, Become, UploadInv, TestInv
    <2>2. CASE UploadErase(s) \/ UploadStore(s)
        BY <2>2, <1>3 DEF UploadErase, UploadStore, FTypeOK, Careful, Become, UploadInv, TestInv
    <2>3. CASE UploadFail(s)
        BY <2>3, <1>3 DEF UploadFail, FTypeOK, UploadInv, TestInv
    <2> QED
        BY <2>1, <2>2, <2>3
<1>7. SafeInv'
    <2>1. Safe(Base)'
        BY <1>2, <1>3, <1>4, <1>5, OtherSlotIsFree
    <2> QED
        BY <1>1, <1>2, <1>3, <2>1 DEF SafeInv, Clean
<1>8. UploadInv'
    BY <1>1, <1>2, <1>3, <1>5, <1>6 DEF UploadInv, Uploading, Clean, second
<1>9. TestInv'
    BY <1>1, <1>2, <1>3, <1>6 DEF TestInv
<1> QED
    BY <1>7, <1>8, <1>9

LEMMA AskRebootKeeps ==
    ASSUME Tables = Layouts, DeviceInv, CareInv, Careful', NEW s \in Sessions, AskReboot(s)
    PROVE  CareInv'
<1> USE DEF DeviceInv, CareInv
<1>1. /\ at = "serving" /\ status = "uploaded" /\ step = "idle"
      /\ UNCHANGED <<image, accepted, run, first, status, at, request>>
      /\ care = "kept" /\ care' = "kept" /\ \A r \in Sessions : ~Uploading(r)
    BY DEF AskReboot, Erase, Careful
<1>2. /\ Base \in Layouts /\ Highest(Base) = first /\ Safe(Base) /\ first \in Slots
      /\ ram.table \in Layouts /\ run = first
      /\ Base[first] # TestFlag /\ image[second] = "good" /\ ram.table[first] = Base[first]
    BY <1>1, TableTypes DEF SafeInv, RunInv, FTypeOK, UploadInv
<1> DEFINE t == [ram.table EXCEPT ![second] = TestFlag]
<1>3. /\ second \in Slots /\ second # first /\ t \in Layouts
      /\ t[second] = TestFlag /\ t[first] = Base[first]
    BY <1>2, LevelsAre DEF second, Slots, Layouts
<1>4. t[first] \in 1..MaxLevel /\ image[first] = "good" /\ accepted[first]
    <2>1. Base[first] \in 0..(MaxLevel + 1) /\ Base[first] >= 1 /\ image[first] = "good"
        BY <1>2, LevelsAre DEF Safe, Layouts
    <2>2. accepted[first]
        BY <1>2 DEF Safe
    <2> QED
        BY <1>2, <1>3, <2>1, <2>2, LevelsAre
<1>5. Highest(t) = second
    BY <1>2, <1>3, <1>4, LevelsAre DEF Highest, second, Slots
<1>6. Safe(t)
    <2>1. 1 - second = first /\ TestFlag >= 1
        BY <1>2, <1>3, LevelsAre DEF second, Slots
    <2> QED
        BY <1>2, <1>3, <1>4, <1>5, <2>1 DEF Safe
<1>7. Base' = Base /\ ~Written' /\ ram'.table = t /\ step' = "header"
    BY <1>3, ErasedTable DEF AskReboot
<1>8. SafeInv'
    BY <1>1, <1>2, <1>6, <1>7 DEF SafeInv, Safe, Highest
<1>9. UploadInv' /\ TestInv'
    BY <1>1, <1>2, <1>3, <1>7 DEF UploadInv, TestInv, Uploading, second
<1> QED
    BY <1>8, <1>9

LEMMA AcceptKeeps ==
    ASSUME Tables = Layouts, DeviceInv, CareInv, NEW s \in Sessions, Accept(s)
    PROVE  CareInv'
<1> USE DEF DeviceInv, CareInv
<1>1. /\ at = "serving" /\ status = "testing" /\ step = "idle" /\ ram.table[second] < MaxLevel
      /\ accepted' = [accepted EXCEPT ![run] = TRUE]
      /\ request' = [request EXCEPT ![s] = "accepting"]
      /\ UNCHANGED <<image, run, first, status, at>>
    BY DEF Accept, Erase
<1>2. /\ Base \in Layouts /\ Highest(Base) = first /\ Safe(Base) /\ first \in Slots
      /\ ram.table \in Layouts /\ run = first
      /\ Base[first] = TestFlag /\ ram.table[second] = Base[second]
    BY <1>1, TableTypes DEF SafeInv, RunInv, FTypeOK, TestInv
<1> DEFINE t == [ram.table EXCEPT ![first] = ram.table[second] + 1]
<1>3. second \in Slots /\ second # first /\ 1 - first = second
    BY <1>2 DEF second, Slots
<1>4. Base[second] \in 1..MaxLevel /\ image[first] = "good"
    BY <1>2, <1>3 DEF Safe
<1>5. t \in Layouts /\ t[first] = Base[second] + 1 /\ t[second] = Base[second] /\ t[first] <= MaxLevel
    BY <1>1, <1>2, <1>3, <1>4, LevelsAre DEF Layouts
<1>6. Highest(t) = first /\ t[first] >= 1 /\ t[first] # TestFlag
    BY <1>2, <1>3, <1>4, <1>5, LevelsAre DEF Highest, Slots
<1>7. accepted' \in [Slots -> BOOLEAN] /\ accepted'[first] /\ \A x \in Slots : accepted[x] => accepted'[x]
    BY <1>1, <1>2, Zenon DEF FTypeOK
<1>8. Base' = Base /\ ~Written' /\ ram'.table = t /\ step' = "header"
    BY <1>5, ErasedTable DEF Accept
<1>9. Safe(Base)' /\ Safe(ram.table)'
    <2>1. Safe(Base)'
        <3>1. Highest(Base)' = Highest(Base) /\ Base' = Base
            BY <1>8 DEF Highest
        <3>2. accepted'[second]
            BY <1>2, <1>3, <1>7 DEF Safe
        <3> QED
            BY <1>1, <1>2, <1>3, <1>4, <3>1, <3>2, LevelsAre DEF Safe
    <2>2. Highest(ram.table)' = first
        BY <1>6, <1>8 DEF Highest
    <2> QED
        BY <1>1, <1>4, <1>6, <1>7, <1>8, <2>1, <2>2 DEF Safe
<1>10. SafeInv'
    BY <1>1, <1>2, <1>8, <1>9 DEF SafeInv
<1>11. UploadInv'
    BY <1>1, <1>8 DEF UploadInv, FTypeOK, Uploading
<1>12. TestInv'
    BY <1>1, <1>2, <1>3, <1>5, <1>6, <1>7, <1>8 DEF TestInv, second
<1> QED
    BY <1>10, <1>11, <1>12

LEMMA AcceptedKeeps == ASSUME DeviceInv, CareInv, NEW s \in Sessions, Accepted(s) PROVE CareInv'
<1> USE DEF DeviceInv, CareInv
<1>1. /\ UNCHANGED pvars /\ UNCHANGED <<image, accepted, run, first, at, care>>
      /\ request[s] = "accepting" /\ request' = [request EXCEPT ![s] = "none"]
      /\ step = "idle" /\ status' = "none"
    BY DEF Accepted
<1>2. /\ Base' = Base /\ Written' = Written /\ Clean' = Clean /\ step' = step /\ ram' = ram
      /\ copy' = copy /\ active' = active /\ Passive' = Passive
    BY <1>1, SamePart
<1>3. at = "serving"
    BY <1>1 DEF RunInv
<1>4. SafeInv'
    BY <1>1, <1>2 DEF SafeInv, Safe, Highest
<1>5. UploadInv' /\ TestInv'
    BY <1>1, <1>2, <1>3 DEF FTypeOK, UploadInv, TestInv, Uploading
<1> QED
    BY <1>4, <1>5

LEMMA CareNext ==
    ASSUME Tables = Layouts, DeviceInv, DeviceInv', CareInv, Careful', [Next]_vars
    PROVE  CareInv'
<1>1. CASE Reset \/ Boot
    BY <1>1, ResetKeeps, BootKeeps
<1>2. CASE EnterTest \/ Serve \/ LayoutStep
    BY <1>2, EnterTestKeeps, ServeKeeps, LayoutKeeps
<1>3. ASSUME NEW s \in Sessions, Request(s) PROVE CareInv'
    BY <1>3, UploadKeeps, AskRebootKeeps, AcceptKeeps, AcceptedKeeps DEF Request
<1>4. CASE UNCHANGED vars
    <2>1. UNCHANGED pvars /\ UNCHANGED fvars
        BY <1>4 DEF vars
    <2>2. SafeInv'
        BY <2>1, SamePart DEF fvars, CareInv, SafeInv, Safe, Highest
    <2>3. UploadInv' /\ TestInv'
        BY <2>1, SamePart DEF fvars, CareInv, UploadInv, TestInv, Uploading, second
    <2> QED
        BY <2>2, <2>3 DEF CareInv
<1> QED
    BY <1>1, <1>2, <1>3, <1>4 DEF Next

(* The invariant holds for any sessions, levels and uploads. *)
THEOREM UpdateInvariance == ASSUME Tables = Layouts PROVE Spec => []IInv
<1>1. IInv <=> DeviceInv /\ (Careful => CareInv)
    BY DEF IInv, DeviceInv, CareInv
<1>2. Init => IInv
    BY <1>1, InitIInv
<1>3. IInv /\ [Next]_vars => IInv'
    <2> SUFFICES ASSUME IInv, [Next]_vars PROVE IInv'
        OBVIOUS
    <2>1. DeviceInv'
        BY <1>1, DeviceNext
    <2>2. ASSUME Careful' PROVE CareInv'
        BY <1>1, <2>1, <2>2, CareGrows, CareNext
    <2> QED
        BY <2>1, <2>2 DEF IInv, DeviceInv, CareInv
<1> QED
    BY <1>2, <1>3, PTL DEF Spec

-----------------------------------------------------------------------------
(* The copy Boot2 would take now: the passive one as soon as a layout is   *)
(* written, the active one until then; its table is safe.                  *)
LEMMA NextStart ==
    ASSUME Tables = Layouts, DeviceInv, CareInv, NEW c \in Ids, Newer(c)
    PROVE  /\ copy[c].table \in Layouts /\ Safe(copy[c].table)
           /\ (c = Passive /\ Written) \/ (c = active /\ ~Written)
<1>1. CASE c = active
    <2>1. ~Written
        BY <1>1, TableTypes DEF DeviceInv, CareInv, Newer, Written, Fresh, Passive
    <2> QED
        BY <1>1, <2>1, TableTypes DEF DeviceInv, CareInv, SafeInv, Base
<1>2. CASE c # active
    <2>1. c = Passive /\ Other(c) = active
        BY <1>2, TableTypes DEF DeviceInv, CareInv, Ids, Passive, Other
    <2>2. Written
        BY <2>1 DEF DeviceInv, CareInv, PartInv, Newer, Written, Fresh
    <2> QED
        BY <2>1, <2>2, TableTypes DEF DeviceInv, CareInv, SafeInv
<1> QED
    BY <1>1, <1>2

(* While an image is tested, that table says that no image is to be tested *)
(* any more, unless the user has accepted the one that runs.               *)
LEMMA TestedStart ==
    ASSUME Tables = Layouts, DeviceInv, CareInv, at = "serving", status = "testing",
           NEW c \in Ids, Newer(c)
    PROVE  accepted[Choice(copy[c].table)]
<1>1. copy[c].table \in Layouts /\ Safe(copy[c].table) /\ Choice(copy[c].table) = Highest(copy[c].table)
    BY NextStart, SafeBoots
<1>2. /\ Base \in Layouts /\ Highest(Base) = first /\ Safe(Base) /\ first \in Slots
      /\ Base[first] = TestFlag /\ ram.table[second] = Base[second] /\ ram.table[first] # TestFlag
    BY TableTypes DEF DeviceInv, CareInv, SafeInv, RunInv, FTypeOK, TestInv
<1>3. Base[second] # TestFlag
    BY <1>2, LevelsAre DEF Safe, second
<1>4. CASE c = Passive /\ Written
    <2>1. step \notin {"header", "entries", "crc", "down"}
        BY <1>4, WritingIsNotWritten DEF DeviceInv, CareInv, RunInv
    <2>2. copy[c].table = ram.table
        BY <1>4, <2>1 DEF DeviceInv, CareInv, PartInv, PartTypeOK, TestInv
    <2>3. Highest(copy[c].table) \in {first, second}
        BY <1>2 DEF Highest, second, Slots
    <2>4. copy[c].table[Highest(copy[c].table)] # TestFlag
        BY <1>2, <1>3, <2>2, <2>3
    <2> QED
        BY <1>1, <2>4, Zenon DEF Safe
<1>5. CASE c = active /\ ~Written
    <2>1. accepted[first]
        BY <1>5 DEF DeviceInv, CareInv, TestInv
    <2> QED
        BY <1>1, <1>2, <1>5, <2>1, Zenon DEF Base
<1> QED
    BY <1>4, <1>5, NextStart

(* Whatever the power does to layout writes and however uploads fail or    *)
(* meet, Boot2 finds a table, and in the slot it chooses a whole image, as *)
(* long as users are Careful.                                              *)
THEOREM UpdatesKeepTheDeviceBootable == ASSUME Tables = Layouts PROVE Spec => []AlwaysBoots
<1>1. IInv => AlwaysBoots
    <2> SUFFICES ASSUME DeviceInv, CareInv
                 PROVE  \E c \in Ids : Newer(c) /\ image[Choice(copy[c].table)] = "good"
        BY DEF IInv, AlwaysBoots, DeviceInv, CareInv
    <2>1. PICK c \in Ids : Newer(c)
        <3>1. active \in Ids /\ Passive \in Ids /\ Other(active) = Passive /\ Other(Passive) = active
            BY TableTypes DEF DeviceInv, Passive
        <3>2. copy[active].gen \in Nat /\ copy[Passive].gen \in Nat /\ Valid(copy[active])
            BY TableTypes DEF DeviceInv, PartInv
        <3>3. Valid(copy[Passive]) => copy[Passive].gen # copy[active].gen
            BY DEF DeviceInv, PartInv, Ordered
        <3> QED
            BY <3>1, <3>2, <3>3 DEF Newer
    <2>2. image[Choice(copy[c].table)] = "good"
        BY <2>1, NextStart, SafeBoots
    <2> QED
        BY <2>1, <2>2
<1> QED
    BY UpdateInvariance, <1>1, PTL

(* A restart while an image is tested comes back to an accepted image, as  *)
(* long as users are Careful.                                              *)
THEOREM TestsRollBack == ASSUME Tables = Layouts PROVE Spec => []Rollback
<1>1. IInv => Rollback
    BY TestedStart DEF Rollback, IInv, DeviceInv, CareInv
<1> QED
    BY UpdateInvariance, <1>1, PTL

(* Uploads erase and write the slot that does not execute, as long as      *)
(* users are Careful.                                                      *)
THEOREM UploadsSpareTheRunningImage == ASSUME Tables = Layouts PROVE Spec => []RunningIsActive
<1>1. IInv => RunningIsActive
    BY DEF IInv, RunInv, SafeInv, RunningIsActive
<1> QED
    BY UpdateInvariance, <1>1, PTL
=============================================================================

------------------------------- MODULE RwLock -------------------------------
(***************************************************************************)
(* The reader-writer lock of the OS layer (middleware/wifi/port/os/os.c),  *)
(* which guards every PSM partition and the power-save state of the WLAN   *)
(* driver.  A binary semaphore rw_lock is held by the writer, or by the    *)
(* readers together; the first reader takes it and the last one gives it   *)
(* back, counting under reader_mutex.  The first reader keeps the mutex    *)
(* while it waits for the semaphore.                                       *)
(*                                                                         *)
(* One action is one blocking call and the code up to the next one.  The   *)
(* counter is only accessed under the mutex, so a section that takes the   *)
(* mutex and gives it back without blocking is one step.                   *)
(***************************************************************************)
EXTENDS Naturals, FiniteSets

CONSTANTS Tasks, NoTask

ASSUME TasksAssumption == IsFiniteSet(Tasks) /\ NoTask \notin Tasks

VARIABLES
    at,     \* at[t]: where task t is in the lock's code
    wait,   \* wait[t]: the wait_time of its call
    mutex,  \* owner of reader_mutex, NoTask when it is free
    sem,    \* rw_lock: 1 when it can be taken
    count   \* reader_count

vars == <<at, wait, mutex, sem, count>>

(* "rmutex", "rsem", "umutex" and "wsem" are the places where a task waits *)
Places == {"out", "rmutex", "rsem", "reading", "umutex", "wsem", "writing"}

WaitTimes == {"forever", "limited"}

Init ==
    /\ at = [t \in Tasks |-> "out"]
    /\ wait = [t \in Tasks |-> "forever"]
    /\ mutex = NoTask /\ sem = 1 /\ count = 0

Move(t, from, to) == at[t] = from /\ at' = [at EXCEPT ![t] = to]

(* Task t calls os_rwlock_read_lock or os_rwlock_write_lock *)
Ask(t, to) ==
    /\ Move(t, "out", to)
    /\ \E wt \in WaitTimes : wait' = [wait EXCEPT ![t] = wt]
    /\ UNCHANGED <<mutex, sem, count>>

AskRead(t)  == Ask(t, "rmutex")
AskWrite(t) == Ask(t, "wsem")

(* Mutant: a further reader forgets to give reader_mutex back *)
MutCountReaderKeeps(t) ==
    /\ mutex = NoTask
    /\ count' = count + 1 /\ mutex' = t
    /\ Move(t, "rmutex", IF count = 0 THEN "rsem" ELSE "reading")
    /\ UNCHANGED <<wait, sem>>

(* os_rwlock_read_lock gets reader_mutex, for which it waits forever.  The *)
(* first reader goes on to wait for rw_lock with the mutex held.           *)
CountReader(t) ==
    /\ mutex = NoTask
    /\ count' = count + 1
    /\ IF count = 0
       THEN Move(t, "rmutex", "rsem") /\ mutex' = t
       ELSE Move(t, "rmutex", "reading") /\ UNCHANGED mutex
    /\ UNCHANGED <<wait, sem>>

(* The first reader gets rw_lock and gives reader_mutex back *)
FirstReader(t) ==
    /\ sem = 1
    /\ Move(t, "rsem", "reading")
    /\ sem' = 0 /\ mutex' = NoTask
    /\ UNCHANGED <<wait, count>>

(* Mutant: the error path leaves the reader counted *)
MutReadTimeout(t) ==
    /\ sem = 0 /\ wait[t] = "limited"
    /\ Move(t, "rsem", "out")
    /\ mutex' = NoTask
    /\ UNCHANGED <<wait, sem, count>>

(* Mutant: the error path gives rw_lock, which it did not get *)
MutReadTimeoutPuts(t) ==
    /\ sem = 0 /\ wait[t] = "limited"
    /\ Move(t, "rsem", "out")
    /\ count' = count - 1 /\ mutex' = NoTask /\ sem' = 1
    /\ UNCHANGED wait

(* The first reader has waited for rw_lock long enough *)
ReadTimeout(t) ==
    /\ sem = 0 /\ wait[t] = "limited"
    /\ Move(t, "rsem", "out")
    /\ count' = count - 1 /\ mutex' = NoTask
    /\ UNCHANGED <<wait, sem>>

(* os_rwlock_read_unlock, up to the wait for reader_mutex *)
AskReadUnlock(t) ==
    /\ Move(t, "reading", "umutex")
    /\ UNCHANGED <<wait, mutex, sem, count>>

(* Mutant: every reader gives rw_lock back *)
MutUncountReader(t) ==
    /\ mutex = NoTask
    /\ Move(t, "umutex", "out")
    /\ count' = count - 1 /\ sem' = 1
    /\ UNCHANGED <<wait, mutex>>

(* Mutant: the last reader keeps rw_lock *)
MutUncountReaderKeeps(t) ==
    /\ mutex = NoTask
    /\ Move(t, "umutex", "out")
    /\ count' = count - 1
    /\ UNCHANGED <<wait, mutex, sem>>

(* os_rwlock_read_unlock: the last reader gives rw_lock back *)
UncountReader(t) ==
    /\ mutex = NoTask
    /\ Move(t, "umutex", "out")
    /\ count' = count - 1
    /\ sem' = IF count = 1 THEN 1 ELSE sem
    /\ UNCHANGED <<wait, mutex>>

TakeWrite(t) ==
    /\ sem = 1
    /\ Move(t, "wsem", "writing")
    /\ sem' = 0
    /\ UNCHANGED <<wait, mutex, count>>

WriteTimeout(t) ==
    /\ sem = 0 /\ wait[t] = "limited"
    /\ Move(t, "wsem", "out")
    /\ UNCHANGED <<wait, mutex, sem, count>>

WriteUnlock(t) ==
    /\ Move(t, "writing", "out")
    /\ sem' = 1
    /\ UNCHANGED <<wait, mutex, count>>

(* Steps of the lock's own code, which a scheduled task takes on its own *)
LockStep(t) ==
    \/ CountReader(t) \/ FirstReader(t) \/ ReadTimeout(t) \/ UncountReader(t)
    \/ TakeWrite(t) \/ WriteTimeout(t)

Next ==
    \E t \in Tasks :
        \/ AskRead(t) \/ AskWrite(t) \/ AskReadUnlock(t) \/ WriteUnlock(t)
        \/ LockStep(t)

Spec == Init /\ [][Next]_vars

(* Every task is scheduled; nothing makes a task ask for the lock or give  *)
(* it back.                                                                *)
FairSpec == Spec /\ \A t \in Tasks : WF_vars(LockStep(t))

-----------------------------------------------------------------------------
TypeOK ==
    /\ at \in [Tasks -> Places] /\ wait \in [Tasks -> WaitTimes]
    /\ mutex \in Tasks \cup {NoTask}
    /\ sem \in {0, 1} /\ count \in Nat

(* Tasks counted in reader_count, and those that hold the lock as readers; *)
(* a reader holds it until it has reduced the count.                       *)
Counted == {t \in Tasks : at[t] \in {"rsem", "reading", "umutex"}}
Readers == {t \in Tasks : at[t] \in {"reading", "umutex"}}
Writers == {t \in Tasks : at[t] = "writing"}

(* wm_os.h: readers share the lock, a writer holds it exclusively. *)
Exclusion ==
    /\ Writers # {} => Readers = {}
    /\ \A t, u \in Writers : t = u

(* While a reader holds the lock nobody waits for the semaphore with the   *)
(* mutex held: further readers enter and leave without waiting for a       *)
(* writer, however long wait_time is.  This is what makes the lock one     *)
(* with reader priority, and a read_unlock free of deadlock.               *)
ReadersPass == Readers # {} => mutex = NoTask

(* The semaphore is free exactly when nobody holds the lock: no put is     *)
(* lost and none is given twice.                                           *)
SemaphoreTellsHolders == sem = 1 <=> Readers = {} /\ Writers = {}

(* As long as tasks wait for the lock, some task gets it: timeouts of      *)
(* first readers and writers never leave it unowned and unavailable.       *)
SomebodyGetsIn ==
    (\E t \in Tasks : at[t] \in {"rmutex", "rsem", "wsem"} /\ wait[t] = "forever")
        ~> Readers \cup Writers # {}

(* The inductive invariant behind Exclusion, ReadersPass and               *)
(* SemaphoreTellsHolders *)
CountInv == count = Cardinality(Counted)
MutexInv ==
    /\ \A t \in Tasks : at[t] = "rsem" <=> mutex = t
    /\ mutex # NoTask => Counted = {mutex}
IInv == TypeOK /\ CountInv /\ MutexInv /\ Exclusion /\ SemaphoreTellsHolders
=============================================================================

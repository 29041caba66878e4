---------------------------- MODULE RwLockProofs ----------------------------
(***************************************************************************)
(* Proofs about RwLock for every finite set of tasks.                      *)
(***************************************************************************)
EXTENDS RwLock, FiniteSetTheorems, TLAPS

(* A counter that is the size of a set of tasks follows when one task      *)
(* joins the set or leaves it, and tells whether it is empty.              *)
LEMMA CountFollows ==
    ASSUME NEW S \in SUBSET Tasks, NEW n, n = Cardinality(S), NEW t \in Tasks
    PROVE  /\ n \in Nat
           /\ n = 0 <=> S = {}
           /\ t \notin S => Cardinality(S \cup {t}) = n + 1
           /\ t \in S => Cardinality(S \ {t}) = n - 1
           /\ t \in S /\ n = 1 => S = {t}
<1>1. IsFiniteSet(S)
    BY TasksAssumption, FS_Subset
<1>2. n \in Nat /\ (n = 0 <=> S = {})
    BY <1>1, FS_CardinalityType, FS_EmptySet
<1>3. t \notin S => Cardinality(S \cup {t}) = n + 1
    BY <1>1, FS_AddElement
<1>4. t \in S => Cardinality(S \ {t}) = n - 1
    BY <1>1, FS_RemoveElement
<1>5. ASSUME t \in S, n = 1 PROVE S = {t}
    <2>1. IsFiniteSet(S \ {t}) /\ Cardinality(S \ {t}) = 0
        BY <1>1, <1>2, <1>4, <1>5, FS_Subset
    <2>2. S \ {t} = {}
        BY <2>1, FS_EmptySet
    <2> QED
        BY <2>2, <1>5
<1> QED
    BY <1>2, <1>3, <1>4, <1>5

(* With the mutex free, a positive count means that a reader holds the     *)
(* lock; the task that holds the mutex is the only one counted.            *)
LEMMA CountedAreReaders ==
    ASSUME IInv, mutex = NoTask
    PROVE  Counted = Readers
BY TasksAssumption DEF IInv, TypeOK, MutexInv, Counted, Readers, Places

-----------------------------------------------------------------------------
LEMMA InitIInv == Init => IInv
<1> SUFFICES ASSUME Init PROVE IInv
    OBVIOUS
<1>1. Counted = {} /\ Readers = {} /\ Writers = {}
    BY DEF Init, Counted, Readers, Writers
<1>2. TypeOK /\ Exclusion /\ SemaphoreTellsHolders
    BY <1>1, TasksAssumption
    DEF Init, TypeOK, Places, WaitTimes, Exclusion, SemaphoreTellsHolders
<1>3. CountInv
    BY <1>1, FS_EmptySet DEF Init, CountInv
<1>4. MutexInv
    BY TasksAssumption DEF Init, MutexInv
<1> QED
    BY <1>2, <1>3, <1>4 DEF IInv

(* Steps that neither take nor give back the mutex or the semaphore        *)
LEMMA AskKeeps ==
    ASSUME IInv, NEW t \in Tasks,
           AskRead(t) \/ AskWrite(t) \/ WriteTimeout(t) \/ AskReadUnlock(t)
    PROVE  IInv'
<1> USE DEF Places, WaitTimes
<1>1. /\ at' \in [Tasks -> Places] /\ wait' \in [Tasks -> WaitTimes]
      /\ mutex' = mutex /\ sem' = sem /\ count' = count
    BY DEF IInv, TypeOK, AskRead, AskWrite, WriteTimeout, AskReadUnlock, Ask, Move
<1>2. Counted' = Counted /\ Readers' = Readers /\ Writers' = Writers
    BY DEF IInv, TypeOK, AskRead, AskWrite, WriteTimeout, AskReadUnlock, Ask, Move,
           Counted, Readers, Writers
<1>3. \A u \in Tasks : at'[u] = "rsem" <=> at[u] = "rsem"
    BY DEF IInv, TypeOK, AskRead, AskWrite, WriteTimeout, AskReadUnlock, Ask, Move
<1> QED
    BY <1>1, <1>2, <1>3
    DEF IInv, TypeOK, CountInv, MutexInv, Exclusion, SemaphoreTellsHolders

LEMMA CountReaderKeeps ==
    ASSUME IInv, NEW t \in Tasks, CountReader(t)
    PROVE  IInv'
<1> USE DEF Places, WaitTimes
<1>1. /\ Counted \in SUBSET Tasks /\ count = Cardinality(Counted)
      /\ t \notin Counted /\ t \notin Readers /\ t \notin Writers
    BY DEF IInv, CountInv, Counted, Readers, Writers, CountReader, Move
<1>2. Counted' = Counted \cup {t} /\ Writers' = Writers
    BY DEF IInv, TypeOK, Counted, Writers, CountReader, Move
<1>3. count' = Cardinality(Counted')
    BY <1>1, <1>2, CountFollows DEF CountReader
<1>4. CASE count = 0
    <2>1. Counted = {}
        BY <1>1, <1>4, CountFollows
    <2>5. Readers = {}
        BY <2>1 DEF Counted, Readers
    <2>2. Readers' = Readers
        BY <1>4 DEF IInv, TypeOK, Readers, CountReader, Move
    <2>3. TypeOK'
        BY <1>4 DEF IInv, TypeOK, CountReader, Move
    <2>4. MutexInv'
        BY <1>2, <1>4, <2>1, TasksAssumption DEF IInv, TypeOK, MutexInv, CountReader, Move
    <2> QED
        BY <1>2, <1>3, <2>5, <2>2, <2>3, <2>4
        DEF IInv, CountInv, Exclusion, SemaphoreTellsHolders, CountReader
<1>5. CASE count # 0
    <2>1. Readers # {}
        BY <1>1, <1>5, CountFollows, CountedAreReaders DEF CountReader
    <2>2. Readers' = Readers \cup {t}
        BY <1>5 DEF IInv, TypeOK, Readers, CountReader, Move
    <2>3. TypeOK'
        BY <1>5 DEF IInv, TypeOK, CountReader, Move
    <2>4. MutexInv'
        BY <1>5, TasksAssumption DEF IInv, TypeOK, MutexInv, CountReader, Move
    <2> QED
        BY <1>2, <1>3, <2>1, <2>2, <2>3, <2>4
        DEF IInv, CountInv, Exclusion, SemaphoreTellsHolders, CountReader
<1> QED
    BY <1>4, <1>5

LEMMA FirstReaderKeeps ==
    ASSUME IInv, NEW t \in Tasks, FirstReader(t)
    PROVE  IInv'
<1> USE DEF Places, WaitTimes
<1>1. TypeOK'
    BY DEF IInv, TypeOK, FirstReader, Move
<1>2. Counted' = Counted /\ Readers' = Readers \cup {t} /\ Writers' = Writers
    BY DEF IInv, TypeOK, Counted, Readers, Writers, FirstReader, Move
<1>3. Writers = {}
    BY DEF IInv, SemaphoreTellsHolders, FirstReader
<1>4. MutexInv'
    BY TasksAssumption DEF IInv, TypeOK, MutexInv, FirstReader, Move
<1> QED
    BY <1>1, <1>2, <1>3, <1>4
    DEF IInv, CountInv, Exclusion, SemaphoreTellsHolders, FirstReader

LEMMA ReadTimeoutKeeps ==
    ASSUME IInv, NEW t \in Tasks, ReadTimeout(t)
    PROVE  IInv'
<1> USE DEF Places, WaitTimes
<1>1. /\ Counted \in SUBSET Tasks /\ count = Cardinality(Counted) /\ t \in Counted
    BY DEF IInv, CountInv, Counted, ReadTimeout, Move
<1>2. Counted' = Counted \ {t} /\ Readers' = Readers /\ Writers' = Writers
    BY DEF IInv, TypeOK, Counted, Readers, Writers, ReadTimeout, Move
<1>3. count' = Cardinality(Counted')
    BY <1>1, <1>2, CountFollows DEF ReadTimeout
<1>4. count - 1 \in Nat
    <2>1. count \in Nat /\ count # 0
        BY <1>1, CountFollows
    <2> QED
        BY <2>1
<1>5. TypeOK'
    BY <1>4 DEF IInv, TypeOK, ReadTimeout, Move
<1>6. MutexInv'
    BY TasksAssumption DEF IInv, TypeOK, MutexInv, ReadTimeout, Move
<1> QED
    BY <1>2, <1>3, <1>5, <1>6
    DEF IInv, CountInv, Exclusion, SemaphoreTellsHolders, ReadTimeout

LEMMA UncountReaderKeeps ==
    ASSUME IInv, NEW t \in Tasks, UncountReader(t)
    PROVE  IInv'
<1> USE DEF Places, WaitTimes
<1>1. /\ Counted \in SUBSET Tasks /\ count = Cardinality(Counted) /\ t \in Counted
      /\ Counted = Readers /\ Writers = {}
    BY CountedAreReaders
    DEF IInv, CountInv, Exclusion, Counted, Readers, UncountReader, Move
<1>2. Counted' = Counted \ {t} /\ Readers' = Readers \ {t} /\ Writers' = Writers
    BY DEF IInv, TypeOK, Counted, Readers, Writers, UncountReader, Move
<1>3. count' = Cardinality(Counted')
    BY <1>1, <1>2, CountFollows DEF UncountReader
<1>4. count - 1 \in Nat /\ (count = 1 <=> Readers \ {t} = {})
    <2>1. count \in Nat /\ count # 0
        BY <1>1, CountFollows
    <2>2. count = 1 => Readers = {t}
        BY <1>1, CountFollows
    <2>3. Readers \ {t} = {} => count - 1 = 0
        BY <1>1, CountFollows, FS_EmptySet
    <2> QED
        BY <2>1, <2>2, <2>3
<1>5. TypeOK'
    BY <1>4 DEF IInv, TypeOK, UncountReader, Move
<1>6. MutexInv'
    BY TasksAssumption DEF IInv, TypeOK, MutexInv, UncountReader, Move
<1>7. SemaphoreTellsHolders' /\ Exclusion'
    BY <1>1, <1>2, <1>4 DEF IInv, Exclusion, SemaphoreTellsHolders, UncountReader
<1> QED
    BY <1>3, <1>5, <1>6, <1>7 DEF IInv, CountInv

LEMMA TakeWriteKeeps ==
    ASSUME IInv, NEW t \in Tasks, TakeWrite(t)
    PROVE  IInv'
<1> USE DEF Places, WaitTimes
<1>1. TypeOK'
    BY DEF IInv, TypeOK, TakeWrite, Move
<1>2. Counted' = Counted /\ Readers' = Readers /\ Writers' = Writers \cup {t}
    BY DEF IInv, TypeOK, Counted, Readers, Writers, TakeWrite, Move
<1>3. Readers = {} /\ Writers = {}
    BY DEF IInv, SemaphoreTellsHolders, TakeWrite
<1>4. MutexInv'
    BY <1>2 DEF IInv, TypeOK, MutexInv, TakeWrite, Move
<1> QED
    BY <1>1, <1>2, <1>3, <1>4
    DEF IInv, CountInv, Exclusion, SemaphoreTellsHolders, TakeWrite

LEMMA WriteUnlockKeeps ==
    ASSUME IInv, NEW t \in Tasks, WriteUnlock(t)
    PROVE  IInv'
<1> USE DEF Places, WaitTimes
<1>1. TypeOK'
    BY DEF IInv, TypeOK, WriteUnlock, Move
<1>2. Counted' = Counted /\ Readers' = Readers /\ Writers' = Writers \ {t}
    BY DEF IInv, TypeOK, Counted, Readers, Writers, WriteUnlock, Move
<1>3. Readers = {} /\ Writers = {t}
    BY DEF IInv, Exclusion, Writers, WriteUnlock, Move
<1>4. MutexInv'
    BY <1>2 DEF IInv, TypeOK, MutexInv, WriteUnlock, Move
<1> QED
    BY <1>1, <1>2, <1>3, <1>4
    DEF IInv, CountInv, Exclusion, SemaphoreTellsHolders, WriteUnlock

LEMMA StepIInv == IInv /\ [Next]_vars => IInv'
<1> SUFFICES ASSUME IInv, [Next]_vars PROVE IInv'
    OBVIOUS
<1>1. CASE UNCHANGED vars
    BY <1>1
    DEF vars, IInv, TypeOK, CountInv, MutexInv, Exclusion, SemaphoreTellsHolders,
        Counted, Readers, Writers
<1>2. CASE Next
    BY <1>2, AskKeeps, CountReaderKeeps, FirstReaderKeeps, ReadTimeoutKeeps,
       UncountReaderKeeps, TakeWriteKeeps, WriteUnlockKeeps DEF Next, LockStep
<1> QED
    BY <1>1, <1>2

(* The inductive invariant holds in every state. *)
THEOREM Invariance == Spec => []IInv
<1> QED
    BY InitIInv, StepIInv, PTL DEF Spec

(* A writer excludes readers and other writers, for any number of tasks.   *)
THEOREM WritersExclude == Spec => []Exclusion
<1>1. IInv => Exclusion
    BY DEF IInv
<1> QED
    BY <1>1, Invariance, PTL

(* Readers enter and leave without waiting while a reader holds the lock.  *)
THEOREM ReadersAlwaysPass == Spec => []ReadersPass
<1>1. IInv => ReadersPass
    BY DEF IInv, TypeOK, MutexInv, ReadersPass, Readers, Counted
<1> QED
    BY <1>1, Invariance, PTL

(* The semaphore is available exactly when nobody holds the lock.          *)
THEOREM SemaphoreIsExact == Spec => []SemaphoreTellsHolders
<1>1. IInv => SemaphoreTellsHolders
    BY DEF IInv
<1> QED
    BY <1>1, Invariance, PTL
=============================================================================

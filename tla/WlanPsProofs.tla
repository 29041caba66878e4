---------------------------- MODULE WlanPsProofs ----------------------------
(***************************************************************************)
(* Proofs about WlanPs for every finite set of senders and all events: the *)
(* lock is never lost, and while nobody disconnects or turns power save    *)
(* off, no sender finds the card asleep.                                   *)
(***************************************************************************)
EXTENDS WlanPs, FiniteSetTheorems, TLAPS

LEMMA TasksFinite == IsFiniteSet(Tasks)
BY TasksAssumption, FS_AddElement DEF Tasks

(* A count of tasks follows when a task is counted or no longer counted;   *)
(* above one, another task is counted.                                     *)
LEMMA CountFollows ==
    ASSUME NEW S \in SUBSET Tasks, NEW n, n = Cardinality(S), NEW t \in Tasks
    PROVE  /\ n \in Nat
           /\ n = 0 <=> S = {}
           /\ t \notin S => Cardinality(S \cup {t}) = n + 1
           /\ t \in S => Cardinality(S \ {t}) = n - 1
           /\ t \in S /\ n # 1 => S \ {t} # {}
<1>1. IsFiniteSet(S)
    BY TasksFinite, FS_Subset
<1>2. n \in Nat /\ (n = 0 <=> S = {})
    BY <1>1, FS_CardinalityType, FS_EmptySet
<1>3. t \notin S => Cardinality(S \cup {t}) = n + 1
    BY <1>1, FS_AddElement
<1>4. t \in S => Cardinality(S \ {t}) = n - 1
    BY <1>1, FS_RemoveElement
<1>5. ASSUME t \in S, S \ {t} = {} PROVE n = 1
    BY <1>2, <1>4, <1>5, FS_EmptySet
<1> QED
    BY <1>2, <1>3, <1>4, <1>5

(* reader_mutex is free: who is counted is inside. *)
LEMMA CountedAreInside == MutexFree => Counted = Inside
BY DEF MutexFree, Counted, Inside

(* A step that changes neither who is where nor the count, and takes the   *)
(* semaphore only for the connection manager, keeps the invariant.         *)
LEMMA WriterKeeps ==
    ASSUME IInv, at' = at, count' = count,
           \/ free' = free /\ writer' = writer
           \/ WriteUnlock
           \/ free' = FALSE /\ writer' = TRUE
    PROVE  IInv'
BY DEF IInv, TypeOK, Places, CountInv, Counted, LockHasOwner, Inside, WriteUnlock

LEMMA InitIInv == Init => IInv
<1> SUFFICES ASSUME Init PROVE IInv
    OBVIOUS
<1>1. Counted = {}
    BY DEF Init, Counted
<1> QED
    BY <1>1, FS_EmptySet DEF Init, IInv, TypeOK, Places, CountInv, LockHasOwner

-----------------------------------------------------------------------------
(* A task that moves without being counted or no longer counted, without   *)
(* leaving the inside                                                      *)
LEMMA MoveKeeps ==
    ASSUME IInv, NEW t \in Tasks, NEW from \in Places, NEW to \in Places, Go(t, from, to),
           from \in {"wake", "sem", "in", "sent"} <=> to \in {"wake", "sem", "in", "sent"},
           from \in {"in", "sent"} => to \in {"in", "sent"},
           count' = count, writer' = writer,
           free' = free \/ (free' = FALSE /\ to = "in")
    PROVE  IInv'
<1>1. Counted' = Counted /\ Inside \subseteq Inside'
    BY DEF IInv, TypeOK, Places, Go, Counted, Inside
<1>2. to = "in" => Inside' # {}
    BY DEF IInv, TypeOK, Places, Go, Inside
<1> QED
    BY <1>1, <1>2 DEF IInv, TypeOK, Places, Go, CountInv, LockHasOwner

LEMMA CountKeeps ==
    ASSUME IInv, NEW t \in Tasks, Count(t)
    PROVE  IInv'
<1>1. Counted \in SUBSET Tasks /\ count = Cardinality(Counted) /\ t \notin Counted
    BY DEF IInv, CountInv, Counted, Count, Go
<1>2. Counted' = Counted \cup {t} /\ Inside \subseteq Inside'
    BY DEF IInv, TypeOK, Places, Counted, Inside, Count, Go
<1>3. CountInv'
    BY <1>1, <1>2, CountFollows DEF CountInv, Count
<1>4. TypeOK'
    BY DEF IInv, TypeOK, Places, Count, Go
<1>5. LockHasOwner'
    <2>1. CASE count = 0 /\ ~free
        BY <1>2, <2>1 DEF IInv, LockHasOwner, Count
    <2>2. CASE ~(count = 0 /\ ~free)
        BY <2>2 DEF IInv, TypeOK, Places, LockHasOwner, Inside, Count, Go
    <2> QED
        BY <2>1, <2>2
<1> QED
    BY <1>3, <1>4, <1>5 DEF IInv

(* A reader that gives the lock back: the last one frees the semaphore.    *)
LEMMA ReadUnlockKeeps ==
    ASSUME IInv, NEW t \in Tasks, NEW from \in {"in", "sent"}, Go(t, from, "left"),
           ReadUnlock, writer' = writer
    PROVE  IInv'
<1>1. Counted \in SUBSET Tasks /\ count = Cardinality(Counted) /\ t \in Counted
    BY DEF IInv, CountInv, Counted, Go
<1>2. Counted' = Counted \ {t} /\ Inside' = Inside \ {t}
    BY DEF IInv, TypeOK, Places, Counted, Inside, Go
<1>3. CountInv'
    BY <1>1, <1>2, CountFollows DEF CountInv, ReadUnlock
<1>4. count \in Nat /\ count # 0
    BY <1>1, CountFollows
<1>5. TypeOK'
    BY <1>4 DEF IInv, TypeOK, Places, Go, ReadUnlock
<1>6. LockHasOwner'
    <2>1. CASE count = 1
        BY <2>1 DEF LockHasOwner, ReadUnlock
    <2>2. CASE count # 1
        <3>1. Inside' # {}
            BY <1>1, <1>2, <2>2, CountFollows, CountedAreInside DEF ReadUnlock
        <3> QED
            BY <3>1 DEF LockHasOwner
    <2> QED
        BY <2>1, <2>2
<1> QED
    BY <1>3, <1>5, <1>6 DEF IInv

LEMMA GiveUpKeeps ==
    ASSUME IInv, NEW t \in Tasks, GiveUp(t)
    PROVE  IInv'
<1>1. Counted \in SUBSET Tasks /\ count = Cardinality(Counted) /\ t \in Counted
    BY DEF IInv, CountInv, Counted, GiveUp, Go
<1>2. Counted' = Counted \ {t} /\ Inside' = Inside
    BY DEF IInv, TypeOK, Places, Counted, Inside, GiveUp, Go
<1>3. CountInv'
    BY <1>1, <1>2, CountFollows DEF CountInv, GiveUp
<1>4. count \in Nat /\ count # 0
    BY <1>1, CountFollows
<1>5. TypeOK'
    BY <1>4 DEF IInv, TypeOK, Places, GiveUp, Go
<1> QED
    BY <1>2, <1>3, <1>5 DEF IInv, LockHasOwner, GiveUp

LEMMA TaskKeeps ==
    ASSUME IInv, NEW t \in Tasks, Call(t) \/ Task(t)
    PROVE  IInv'
<1>1. CASE Call(t)
    BY <1>1, MoveKeeps DEF Call, lock, Places
<1>2. CASE Count(t)
    BY <1>2, CountKeeps
<1>3. CASE WakeCard(t)
    BY <1>3, MoveKeeps DEF WakeCard, lock, Places
<1>4. CASE GetSem(t)
    BY <1>4, MoveKeeps DEF GetSem, Places
<1>5. CASE GiveUp(t)
    BY <1>5, GiveUpKeeps
<1>6. CASE Leave(t)
    BY <1>6, ReadUnlockKeeps DEF Leave
<1>7. CASE Clear(t)
    BY <1>7, MoveKeeps DEF Clear, lock, Places
<1> QED
    BY <1>1, <1>2, <1>3, <1>4, <1>5, <1>6, <1>7 DEF Task

-----------------------------------------------------------------------------
LEMMA HostSleepTakes ==
    ASSUME HostSleep
    PROVE  \/ free' = free /\ writer' = writer
           \/ free' = FALSE /\ writer' = TRUE
BY DEF HostSleep

LEMMA ManagerKeeps ==
    ASSUME IInv, Manager
    PROVE  IInv'
<1>1. CASE OnSleep
    BY <1>1, WriterKeeps, HostSleepTakes DEF OnSleep, SleepEvent
<1>2. CASE Enter
    BY <1>2, WriterKeeps, HostSleepTakes DEF Enter
<1>3. CASE OnAwake
    BY <1>3, WriterKeeps DEF OnAwake, AwakeEvent
<1>4. CASE OnDisable
    BY <1>4, WriterKeeps DEF OnDisable, DisableEvent
<1>5. CASE OnEnable \/ OnAnswer \/ OnDisconnect \/ Confirm \/ TakeWrite \/ Exit
    BY <1>5, WriterKeeps DEF OnEnable, OnAnswer, OnDisconnect, Confirm, TakeWrite, Exit, lock
<1>6. CASE HostSleepDone
    BY <1>6, WriterKeeps DEF HostSleepDone
<1>7. CASE Unread
    BY <1>7, ReadUnlockKeeps DEF Unread, Tasks
<1>8. CASE Unpend
    BY <1>8, MoveKeeps DEF Unpend, lock, Places, Tasks
<1> QED
    BY <1>1, <1>2, <1>3, <1>4, <1>5, <1>6, <1>7, <1>8 DEF Manager

LEMMA NextIInv == IInv /\ [Next]_vars => IInv'
<1> SUFFICES ASSUME IInv, [Next]_vars PROVE IInv'
    OBVIOUS
<1>1. CASE Manager
    BY <1>1, ManagerKeeps
<1>2. CASE Request
    BY <1>2, MoveKeeps DEF Request, lock, Places, Tasks
<1>3. CASE \E t \in Tasks : Call(t) \/ Task(t)
    BY <1>3, TaskKeeps
<1>4. CASE TurnOn \/ TurnOff \/ Connect \/ CardAsks \/ CardWakes \/ CardStarts
    BY <1>4, WriterKeeps DEF TurnOn, TurnOff, Connect, CardAsks, CardWakes, CardStarts, lock
<1>5. CASE UNCHANGED vars
    BY <1>5, WriterKeeps DEF vars, state, lock
<1> QED
    BY <1>1, <1>2, <1>3, <1>4, <1>5 DEF Next

(* ps_rwlock is never left taken by nobody, however many tasks send, time  *)
(* out, disconnect and switch power save off, in every order.              *)
THEOREM LockNeverLost == Spec => []LockHasOwner
<1>1. Init => IInv
    BY InitIInv
<1>2. IInv /\ [Next]_vars => IInv'
    BY NextIInv
<1>3. IInv => LockHasOwner
    BY DEF IInv
<1> QED
    BY <1>1, <1>2, <1>3, PTL DEF Spec

-----------------------------------------------------------------------------
(* The queue of the connection manager *)
Messages == {"sleep", "awake", "on", "enabled", "confirmed"}

LEMMA Pushed ==
    ASSUME queue \in Seq(Messages), NEW m \in Messages, queue' = Append(queue, m)
    PROVE  /\ queue' \in Seq(Messages) /\ Len(queue') = Len(queue) + 1 /\ Len(queue) \in Nat
           /\ \A x : InQueue(x)' = IF x = m THEN InQueue(x) \cup {Len(queue) + 1} ELSE InQueue(x)
           /\ \A x : InQueue(x) \subseteq 1..Len(queue)
BY DEF InQueue

LEMMA Popped ==
    ASSUME queue \in Seq(Messages), queue # <<>>, queue' = Tail(queue)
    PROVE  /\ queue' \in Seq(Messages) /\ Len(queue') = Len(queue) - 1 /\ Len(queue) \in Nat \ {0}
           /\ \A x : InQueue(x)' = {i \in 1..(Len(queue) - 1) : i + 1 \in InQueue(x)}
           /\ \A x : Head(queue) = x <=> 1 \in InQueue(x)
           /\ \A x : InQueue(x) \subseteq 1..Len(queue)
BY DEF InQueue

LEMMA Left ==
    ASSUME queue' = queue
    PROVE  \A x : InQueue(x)' = InQueue(x)
BY DEF InQueue

LEMMA HeadIs ==
    ASSUME queue \in Seq(Messages), queue # <<>>
    PROVE  Head(queue) \in Messages
OBVIOUS

(* Who is inside and who holds the lock, for the two orders that tasks and *)
(* the connection manager take it in                                       *)
LEMMA TaskExcludes ==
    ASSUME IInv, ExclusionInv, NEW t \in Tasks, Call(t) \/ Task(t)
    PROVE  ExclusionInv'
<1> USE DEF IInv, TypeOK, Places, ExclusionInv, Inside, Go
<1>1. CASE Call(t)
    BY <1>1 DEF Call, lock
<1>2. CASE Count(t)
    <2>1. CASE count = 0 /\ ~free
        BY <1>2, <2>1 DEF Count
    <2>2. CASE count = 0 /\ free
        BY <1>2, <2>2 DEF Count
    <2>3. CASE count # 0
        <3>1. Counted # {}
            BY <2>3, FS_EmptySet DEF CountInv
        <3>2. ~free /\ ~writer
            BY <1>2, <3>1, CountedAreInside DEF Count
        <3> QED
            BY <1>2, <2>3, <3>2 DEF Count
    <2> QED
        BY <2>1, <2>2, <2>3
<1>3. CASE WakeCard(t)
    BY <1>3 DEF WakeCard, lock
<1>4. CASE GetSem(t)
    BY <1>4 DEF GetSem
<1>5. CASE GiveUp(t)
    BY <1>5 DEF GiveUp
<1>6. CASE Leave(t)
    <2>1. Inside' = Inside \ {t} /\ t \in Inside /\ ~writer /\ ~free
        BY <1>6 DEF Leave
    <2>2. ASSUME count = 1 PROVE Inside' = {}
        <3>1. Counted \in SUBSET Tasks /\ IsFiniteSet(Counted) /\ Cardinality(Counted) = 1
            BY <2>2, TasksFinite, FS_Subset DEF CountInv, Counted
        <3>2. Counted = Inside
            BY <1>6, CountedAreInside DEF Leave, ReadUnlock
        <3>3. PICK x : Counted = {x}
            BY <3>1, FS_Singleton
        <3> QED
            BY <2>1, <3>2, <3>3
    <2> QED
        BY <1>6, <2>1, <2>2 DEF Leave, ReadUnlock
<1>7. CASE Clear(t)
    BY <1>7 DEF Clear, lock
<1> QED
    BY <1>1, <1>2, <1>3, <1>4, <1>5, <1>6, <1>7 DEF Task

LEMMA TaskCalm ==
    ASSUME IInv, Undisturbed, CalmInv, SleepInv, NEW t \in Tasks, Call(t) \/ Task(t)
    PROVE  CalmInv' /\ SleepInv'
<1>1. /\ ps' = ps /\ req' = req /\ configured' = configured /\ conn' = conn /\ cm' = cm
      /\ queue' = queue /\ writer' = writer /\ card' = card
    BY DEF Call, Task, Count, WakeCard, GetSem, GiveUp, Leave, Clear, sm, lock, fw
<1>2. at[User] = "idle" /\ at \in [Tasks -> Places] /\ User \in Tasks
    BY DEF IInv, TypeOK, CalmInv, Tasks
<1>3. t # User
    <2>1. ~Call(User)
        BY DEF Undisturbed, Call
    <2>2. ~Task(User)
        BY <1>2 DEF Task, Count, WakeCard, GetSem, GiveUp, Leave, Clear, Go
    <2> QED
        BY <2>1, <2>2
<1>4. \E to \in Places : at' = [at EXCEPT ![t] = to]
    BY DEF Call, Task, Count, WakeCard, GetSem, GiveUp, Leave, Clear, Go, Places
<1>5. at'[User] = "idle"
    BY <1>2, <1>3, <1>4
<1> QED
    BY <1>1, <1>5, Left DEF CalmInv, SleepInv

-----------------------------------------------------------------------------
(* The steps of the connection manager and of the card *)
LEMMA HostSleepCalm ==
    ASSUME Undisturbed, CalmInv, ExclusionInv, SleepInv, HostSleep,
           UNCHANGED <<configured, conn, at, card>>,
           cm \in {"loop", "enter"},
           ps \in {"CONFIGURING", "AWAKE", "PRE_SLEEP"}, ps' = "PRE_SLEEP",
           queue' = queue \/ (queue # <<>> /\ Head(queue) = "sleep" /\ queue' = Tail(queue))
    PROVE  CalmInv' /\ ExclusionInv' /\ SleepInv'
<1>2. queue \in Seq(Messages)
    BY DEF CalmInv, Messages
<1>3. CASE pending \/ ~free
    BY <1>2, <1>3, Popped, Left DEF HostSleep, CalmInv, ExclusionInv, SleepInv, Messages, Inside
<1>4. CASE ~(pending \/ ~free)
    BY <1>2, <1>4, Popped, Left DEF HostSleep, CalmInv, ExclusionInv, SleepInv, Messages, Inside
<1> QED
    BY <1>3, <1>4

LEMMA ManagerCalm ==
    ASSUME IInv, Undisturbed, CalmInv, ExclusionInv, SleepInv, Manager, events' = events
    PROVE  CalmInv' /\ ExclusionInv' /\ SleepInv'
<1>1. queue \in Seq(Messages)
    BY DEF CalmInv, Messages
<1>2. CASE OnSleep
    <2>1. CASE ps = "SLEEP"
        <3>1. queue # <<>> /\ Head(queue) = "sleep" /\ queue' = Tail(queue)
            BY <1>2, <2>1 DEF OnSleep, Receive, SleepInv
        <3>2. card # "asleep"
            BY <1>1, <2>1, <3>1, Popped DEF SleepInv
        <3> QED
            BY <1>1, <1>2, <2>1, <3>1, <3>2, Popped
            DEF OnSleep, SleepEvent, To, WriteUnlock, fw, CalmInv, ExclusionInv, SleepInv, Inside, Messages
    <2>2. CASE ps = "INIT"
        BY <1>1, <1>2, <2>2, Popped, Left
        DEF OnSleep, Receive, SleepEvent, fw, CalmInv, ExclusionInv, SleepInv, Inside, Messages
    <2>3. CASE ps \in {"CONFIGURING", "AWAKE", "PRE_SLEEP"}
        BY <1>2, <2>3, HostSleepCalm DEF OnSleep, Receive, SleepEvent, To, fw
    <2> QED
        BY <2>1, <2>2, <2>3 DEF CalmInv
<1>3. CASE Enter
    BY <1>3, HostSleepCalm DEF Enter, fw, CalmInv
<1>4. CASE OnAwake
    <2>1. queue # <<>> /\ Head(queue) = "awake" /\ queue' = Tail(queue) /\ card' = card
        BY <1>4 DEF OnAwake, Receive, fw
    <2>2. CASE ps = "SLEEP"
        <3>1. card # "asleep"
            BY <1>1, <2>1, <2>2, Popped DEF SleepInv
        <3> QED
            BY <1>1, <1>4, <2>1, <2>2, <3>1, Popped
            DEF OnAwake, AwakeEvent, To, WriteUnlock, CalmInv, ExclusionInv, SleepInv, Inside, Messages
    <2>3. CASE ps # "SLEEP"
        BY <1>1, <1>4, <2>1, <2>3, Popped
        DEF OnAwake, AwakeEvent, Receive, CalmInv, ExclusionInv, SleepInv, Inside, Messages
    <2> QED
        BY <2>2, <2>3
<1>5. CASE OnEnable
    <2>1. queue # <<>> /\ Head(queue) = "on" /\ configured' /\ cm = "loop"
          /\ UNCHANGED <<ps, prev, req, conn, cm, at, lock, pending, card, wake>>
        BY <1>5 DEF OnEnable, Receive
    <2>2. 1 \notin InQueue("confirmed")
        BY <1>1, <2>1 DEF InQueue
    <2>3. CASE ps = "INIT"
        <3>1. ~writer /\ card # "asleep" /\ InQueue("confirmed") = {}
            BY <2>3 DEF SleepInv
        <3>2. queue' \in Seq(Messages) /\ InQueue("confirmed")' = {}
            <4>1. queue' = Append(Tail(queue), "enabled")
                BY <1>5, <2>3 DEF OnEnable
            <4>2. /\ Tail(queue) \in Seq(Messages) /\ Len(Tail(queue)) = Len(queue) - 1
                  /\ \A i \in 1..Len(Tail(queue)) : Tail(queue)[i] = queue[i + 1] /\ i + 1 \in DOMAIN queue
                BY <1>1, <2>1
            <4>3. \A i \in 1..Len(Tail(queue)) : Tail(queue)[i] # "confirmed"
                BY <3>1, <4>2 DEF InQueue
            <4>4. /\ queue' \in Seq(Messages) /\ Len(queue') = Len(Tail(queue)) + 1
                  /\ \A i \in DOMAIN queue' : \/ i \in 1..Len(Tail(queue)) /\ queue'[i] = Tail(queue)[i]
                                            \/ queue'[i] = "enabled"
                BY <4>1, <4>2 DEF Messages
            <4> QED
                BY <4>3, <4>4 DEF InQueue
        <3> QED
            BY <2>1, <2>3, <3>1, <3>2 DEF lock, CalmInv, ExclusionInv, SleepInv, Inside, Messages
    <2>4. CASE ps # "INIT"
        <3>1. queue' = Tail(queue)
            BY <1>5, <2>4 DEF OnEnable
        <3>2. CalmInv'
            BY <1>1, <2>1, <2>4, <3>1, Popped DEF CalmInv, Messages
        <3>3. ExclusionInv'
            BY <2>1 DEF ExclusionInv, Inside, lock
        <3>4. SleepInv'
            <4>1. writer' = writer
                BY <2>1 DEF lock
            <4> QED
                BY <1>1, <2>1, <2>2, <3>1, <4>1, Popped DEF SleepInv
        <3> QED
            BY <3>2, <3>3, <3>4
    <2> QED
        BY <2>3, <2>4
<1>6. CASE OnAnswer
    <2>1. /\ queue # <<>> /\ queue' = Tail(queue) /\ Head(queue) # "disabled"
          /\ UNCHANGED <<conn, cm, at, lock, pending, fw>> /\ cm = "loop"
        BY <1>1, <1>6, HeadIs DEF OnAnswer, Receive, Messages
    <2>2. CASE Head(queue) = "enabled"
        <3>1. \/ ps = "INIT" /\ To("CONFIGURING") /\ UNCHANGED <<req, configured>>
              \/ ps # "INIT" /\ UNCHANGED <<ps, prev, req, configured>>
            BY <1>6, <2>2 DEF OnAnswer, Receive
        <3>2. configured
            BY <1>1, <2>1, <2>2, Popped DEF CalmInv
        <3>3. CalmInv'
            BY <1>1, <2>1, <3>1, <3>2, Popped DEF To, CalmInv, Messages
        <3>4. ExclusionInv'
            BY <2>1 DEF ExclusionInv, Inside, lock
        <3>5. SleepInv'
            <4>1. 1 \notin InQueue("confirmed")
                BY <1>1, <2>1, <2>2, Popped
            <4>2. writer' = writer /\ card' = card
                BY <2>1 DEF lock, fw
            <4> QED
                BY <1>1, <2>1, <3>1, <4>1, <4>2, Popped DEF To, SleepInv
        <3> QED
            BY <3>3, <3>4, <3>5
    <2>3. CASE Head(queue) = "confirmed"
        <3>1. ps = "PRE_SLEEP" /\ To("SLEEP") /\ req' = FALSE /\ configured' = configured
            BY <1>1, <1>6, <2>1, <2>3, Popped DEF OnAnswer, Receive, SleepInv
        <3>2. InQueue("confirmed") = {1}
            BY <1>1, <2>1, <2>3, Popped DEF SleepInv
        <3>3. card = "asleep" => Len(queue) = 1
            BY <3>1, <3>2 DEF SleepInv
        <3> QED
            BY <1>1, <2>1, <2>3, <3>1, <3>2, <3>3, Popped
            DEF To, lock, fw, CalmInv, ExclusionInv, SleepInv, Inside, Messages
    <2> QED
        BY <1>6, <2>1, <2>2, <2>3 DEF OnAnswer, Receive
<1>7. CASE HostSleepDone
    <2>1. CalmInv'
        BY <1>7, Left DEF HostSleepDone, CalmInv
    <2>2. ExclusionInv'
        BY <1>7 DEF HostSleepDone, WriteUnlock, SleepInv, ExclusionInv, Inside
    <2>3. SleepInv'
        BY <1>7, Left DEF HostSleepDone, WriteUnlock, fw, SleepInv
    <2> QED
        BY <2>1, <2>2, <2>3
<1>8. CASE Confirm
    BY <1>1, <1>8, Pushed
    DEF Confirm, lock, CalmInv, ExclusionInv, SleepInv, Inside, Messages
<1>9. CASE TakeWrite
    BY <1>9, Left
    DEF TakeWrite, To, lock, fw, CalmInv, ExclusionInv, SleepInv, Inside
<1>10. ~(OnDisable \/ OnDisconnect \/ Unread \/ Unpend \/ Exit)
    BY <1>1, HeadIs DEF OnDisable, OnDisconnect, Unread, Unpend, Exit, Receive, CalmInv, Messages
<1> QED
    BY <1>2, <1>3, <1>4, <1>5, <1>6, <1>7, <1>8, <1>9, <1>10 DEF Manager

LEMMA OutsideCalm ==
    ASSUME IInv, Undisturbed, CalmInv, ExclusionInv, SleepInv, events' = events,
           TurnOn \/ TurnOff \/ Connect \/ CardAsks \/ CardWakes \/ CardStarts
    PROVE  CalmInv' /\ ExclusionInv' /\ SleepInv'
<1>1. queue \in Seq(Messages) /\ ps # "DISABLING" /\ conn
    BY DEF CalmInv, Messages
<1>2. CASE TurnOn
    BY <1>1, <1>2, Pushed
    DEF TurnOn, Post, sm, lock, fw, CalmInv, ExclusionInv, SleepInv, Inside, Messages, InQueue
<1>3. CASE CardAsks
    BY <1>1, <1>3, Pushed
    DEF CardAsks, Post, sm, lock, CalmInv, ExclusionInv, SleepInv, Inside, Messages
<1>4. CASE CardWakes
    BY <1>1, <1>4, Pushed
    DEF CardWakes, sm, lock, CalmInv, ExclusionInv, SleepInv, Inside, Messages
<1>5. CASE CardStarts
    BY <1>1, <1>5, Pushed
    DEF CardStarts, Post, sm, lock, fw, CalmInv, ExclusionInv, SleepInv, Inside, Messages
<1>6. ~TurnOff /\ ~Connect
    BY <1>1 DEF TurnOff, Connect, Undisturbed
<1> QED
    BY <1>2, <1>3, <1>4, <1>5, <1>6

LEMMA InitAwake == Init => AwakeInv
<1> SUFFICES ASSUME Init PROVE AwakeInv
    OBVIOUS
<1>1. \A m : InQueue(m) = {}
    BY DEF Init, InQueue
<1>2. CalmInv /\ ExclusionInv /\ SleepInv
    BY <1>1 DEF Init, CalmInv, ExclusionInv, SleepInv, Tasks, Inside
<1> QED
    BY <1>2, InitIInv DEF AwakeInv

LEMMA NextAwake == AwakeInv /\ [Next]_vars => AwakeInv'
<1> SUFFICES ASSUME AwakeInv, [Next]_vars PROVE AwakeInv'
    OBVIOUS
<1>1. IInv'
    BY NextIInv DEF AwakeInv
<1>2. events' = events
    BY DEF Next, vars
<1> SUFFICES ASSUME Undisturbed PROVE CalmInv' /\ ExclusionInv' /\ SleepInv'
    BY <1>1, <1>2 DEF AwakeInv, Undisturbed
<1>3. IInv /\ CalmInv /\ ExclusionInv /\ SleepInv
    BY DEF AwakeInv
<1>4. CASE Manager
    BY <1>2, <1>3, <1>4, ManagerCalm
<1>5. CASE \E t \in Tasks : Call(t) \/ Task(t)
    BY <1>3, <1>5, TaskCalm, TaskExcludes
<1>6. CASE TurnOn \/ TurnOff \/ Connect \/ CardAsks \/ CardWakes \/ CardStarts
    BY <1>2, <1>3, <1>6, OutsideCalm
<1>7. ~Request
    BY <1>3 DEF Request, Go, CalmInv
<1>8. CASE UNCHANGED vars
    BY <1>3, <1>8, Left DEF vars, state, sm, lock, fw, CalmInv, ExclusionInv, SleepInv, Inside
<1> QED
    BY <1>4, <1>5, <1>6, <1>7, <1>8 DEF Next

(* While power save stays enabled and nobody disconnects, a task that      *)
(* sends has the card awake from read_lock to read_unlock, for any senders *)
(* and timeouts and any order of the card's events.                        *)
THEOREM SendersFindTheCardAwake == Spec => []TransmitsAwake
<1>1. Init => AwakeInv
    BY InitAwake
<1>2. AwakeInv /\ [Next]_vars => AwakeInv'
    BY NextAwake
<1>3. AwakeInv => TransmitsAwake
    BY DEF AwakeInv, Undisturbed, ExclusionInv, SleepInv, TransmitsAwake
<1> QED
    BY <1>1, <1>2, <1>3, PTL DEF Spec
=============================================================================

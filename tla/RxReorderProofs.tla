--------------------------- MODULE RxReorderProofs ---------------------------
(* Proofs about RxReorder, for every window size and number of sequence    *)
(* numbers: the window arithmetic stays inside the buffer, whatever        *)
(* interrupts what; until a race, every packet has one owner; until the    *)
(* first interruption, it is in the slot of its number, and before the     *)
(* sequence numbers wrap it is handed on in order.                         *)
EXTENDS RxReorder, FiniteSetTheorems, TLAPS

SeqNums == 0..(M - 1)

(* The window arithmetic *)
LEMMA SeqNumType == ASSUME NEW p \in Nat PROVE SeqNum(p) \in SeqNums
BY SizeAssumption DEF SeqNum, SeqNums

LEMMA WrapType == ASSUME NEW x \in 0..(2 * M - 1) PROVE Wrap(x) \in SeqNums
BY SizeAssumption DEF Wrap, SeqNums

LEMMA InsideFits ==
    ASSUME NEW s \in 0..M, NEW n \in SeqNums, ~Outside(s, n)
    PROVE  Slot(s, n) \in Index
BY SizeAssumption DEF Outside, EndWin, Wrap, Slot, Index, SeqNums

LEMMA NewStartFits ==
    ASSUME NEW n \in SeqNums
    PROVE  NewStart(n) \in SeqNums /\ Slot(NewStart(n), n) \in Index
BY SizeAssumption DEF NewStart, Slot, Index, SeqNums

LEMMA ToSendType ==
    ASSUME NEW s \in 0..M, NEW new \in 0..M
    PROVE  ToSend(s, new) \in 1..W
BY SizeAssumption DEF ToSend

LEMMA ResyncedType ==
    ASSUME NEW s \in 0..M, NEW last \in SeqNums \cup {NoSeq}, NEW n \in SeqNums
    PROVE  Resynced(s, last, n) \in 0..M
BY SizeAssumption DEF Resynced, SeqNums, NoSeq, EndWin, Wrap

-----------------------------------------------------------------------------
(* What every state satisfies, with tasks that interrupt one another *)
Tasks == [pc : {"idle", "until", "store", "scan", "unlink"},
          then : {"idle", "store", "scan", "unlink"},
          pkt : Packets \cup {None}, new : 0..M, n : 0..W, i : 0..W,
          buf : Packets \cup {None}]

TaskOK(t) == t \in Tasks /\ (t.buf # None => t.i < W)

WindowOK ==
    /\ start \in 0..M
    /\ slots \in [Index -> Packets \cup {None}]
    /\ sync \in [check : BOOLEAN, count : Nat, last : SeqNums \cup {NoSeq}]
    /\ seen \in SeqNums \cup {NoSeq}
    /\ lo \in Nat /\ lo >= Ssn

(* The packet in the dispatcher's hand has a slot in the window to come. *)
HandOK ==
    rx.pc = "store" \/ (rx.pc = "until" /\ rx.then = "store") =>
        rx.pkt \in Packets /\ Slot(rx.new, SeqNum(rx.pkt)) \in Index

BoundsInv == WindowOK /\ TaskOK(rx) /\ TaskOK(mgr) /\ HandOK

LEMMA BoundsInit == Init => BoundsInv
<1> SUFFICES ASSUME Init PROVE BoundsInv
  OBVIOUS
<1>1. SeqNum(Ssn) \in SeqNums /\ SeqNum(Ssn + M - 1) \in SeqNums
  BY SeqNumType, SizeAssumption, PacketAssumption
<1>2. WindowOK
  BY <1>1, SizeAssumption, PacketAssumption DEF Init, WindowOK, SeqNums
<1>3. TaskOK(Idle)
  BY SizeAssumption DEF TaskOK, Tasks, Idle
<1>4. HandOK
  BY DEF Init, HandOK, Idle
<1> QED BY <1>2, <1>3, <1>4 DEF Init, BoundsInv

(* The two kinds of task state that Reorder, AddBa and Delba enter *)
LEMMA UntilOK ==
    ASSUME NEW s \in 0..M, NEW new \in 0..M, NEW pkt \in Packets \cup {None},
           NEW then \in {"idle", "store", "scan", "unlink"}
    PROVE  /\ TaskOK(Until(s, new, then, pkt))
           /\ Until(s, new, then, pkt).pc = "until"
           /\ Until(s, new, then, pkt).then = then
           /\ Until(s, new, then, pkt).pkt = pkt
           /\ Until(s, new, then, pkt).new = new
           /\ Until(s, new, then, pkt).n = ToSend(s, new)
           /\ Until(s, new, then, pkt).i = 0
           /\ Until(s, new, then, pkt).buf = None
<1>1. ToSend(s, new) \in 0..W
  BY ToSendType
<1> QED BY <1>1, SizeAssumption DEF Until, TaskOK, Tasks

LEMMA AtOK ==
    ASSUME NEW new \in 0..M, NEW pkt \in Packets \cup {None}, NEW pc \in {"store", "scan", "unlink"}
    PROVE  /\ TaskOK(At(pc, new, pkt))
           /\ At(pc, new, pkt).pc = pc /\ At(pc, new, pkt).pkt = pkt
           /\ At(pc, new, pkt).new = new
           /\ At(pc, new, pkt).i = 0 /\ At(pc, new, pkt).buf = None
BY SizeAssumption DEF At, TaskOK, Tasks

LEMMA IdleOK == TaskOK(Idle) /\ Idle.pc = "idle" /\ Idle.pkt = None /\ Idle.buf = None /\ Idle.i = 0
BY SizeAssumption DEF TaskOK, Tasks, Idle

LEMMA PeerSeqNum == ASSUME BoundsInv, NEW p \in Nat, p >= lo PROVE SeqNum(p) \in SeqNums
BY SeqNumType

(* A data packet or a block-ack request *)
LEMMA ReceiveBounds ==
    ASSUME BoundsInv, NEW n \in SeqNums, NEW pkt \in Packets \cup {None},
           pkt # None => n = SeqNum(pkt), seen' \in SeqNums \cup {NoSeq}, Receive(n, pkt)
    PROVE  BoundsInv'
<1> USE DEF Receive, BoundsInv
<1>1. CASE ~up
  BY <1>1 DEF WindowOK, TaskOK, HandOK
<1>2. CASE up /\ PassBy(n)
  <2>1. sync' \in [check : BOOLEAN, count : Nat, last : SeqNums \cup {NoSeq}]
    <3>1. sync.check \in BOOLEAN /\ sync.count + 1 \in Nat
      BY DEF WindowOK
    <3>2. sync' = [check |-> sync.check, count |-> sync.count + 1, last |-> n]
      BY <1>2 DEF PassBy, WindowOK
    <3> QED BY <3>1, <3>2
  <2> QED BY <1>2, <2>1 DEF PassBy, WindowOK, TaskOK, HandOK
<1>3. CASE up /\ Reorder(n, pkt)
  <2> DEFINE first == IF sync.check /\ n # start THEN Resynced(start, sync.last, n) ELSE start
             end == IF pkt = None THEN Wrap(n + W - 1) ELSE n
             next == IF pkt = None THEN "scan" ELSE "store"
  <2>1. first \in 0..M
    BY ResyncedType DEF WindowOK
  <2>2. end \in SeqNums
    BY WrapType, SizeAssumption DEF SeqNums
  <2>3. sync' \in [check : BOOLEAN, count : Nat, last : SeqNums \cup {NoSeq}]
    BY <1>3 DEF Reorder, WindowOK
  <2>4. WindowOK'
    BY <1>3, <2>1, <2>3 DEF Reorder, WindowOK
  <2>5. CASE rx' = rx
    BY <1>3, <2>4, <2>5 DEF HandOK, TaskOK
  <2>6. CASE Outside(first, end) /\ rx' = Until(first, NewStart(end), next, pkt)
    <3>1. NewStart(end) \in 0..M /\ Slot(NewStart(end), end) \in Index
      BY <2>2, NewStartFits, SizeAssumption DEF SeqNums
    <3>2. /\ TaskOK(rx') /\ rx'.pc = "until" /\ rx'.then = next /\ rx'.pkt = pkt
          /\ rx'.new = NewStart(end)
      BY <2>1, <2>6, <3>1, UntilOK
    <3>3. next = "store" => pkt # None /\ end = SeqNum(pkt)
      OBVIOUS
    <3>4. HandOK'
      BY <3>1, <3>2, <3>3 DEF HandOK
    <3> QED BY <1>3, <2>4, <3>2, <3>4 DEF TaskOK
  <2>7. CASE ~Outside(first, end) /\ rx' = At(next, first, pkt)
    <3>1. Slot(first, end) \in Index
      BY <2>1, <2>2, <2>7, InsideFits
    <3>2. TaskOK(rx') /\ rx'.pc = next /\ rx'.pkt = pkt /\ rx'.new = first
      BY <2>1, <2>7, AtOK
    <3>3. next = "store" => pkt # None /\ end = SeqNum(pkt)
      OBVIOUS
    <3>4. HandOK'
      BY <3>1, <3>2, <3>3 DEF HandOK
    <3> QED BY <1>3, <2>4, <3>2, <3>4 DEF TaskOK
  <2> QED BY <1>3, <2>5, <2>6, <2>7 DEF Reorder
<1> QED BY <1>1, <1>2, <1>3

LEMMA ArriveBounds == ASSUME BoundsInv, Arrive \/ Bar PROVE BoundsInv'
<1>1. CASE Arrive
  <2>1. PICK p \in lo..(lo + W - 1) : p <= Last /\ seen' = SeqNum(p) /\ Receive(SeqNum(p), p)
    BY <1>1 DEF Arrive
  <2>2. p \in Packets /\ p \in Nat /\ p # None
    BY <2>1, PacketAssumption, SizeAssumption DEF BoundsInv, WindowOK, Packets
  <2> QED BY <2>1, <2>2, SeqNumType, ReceiveBounds
<1>2. CASE Bar
  <2>1. SeqNum(lo) \in SeqNums
    BY SeqNumType DEF BoundsInv, WindowOK
  <2> QED BY <1>2, <2>1, ReceiveBounds DEF Bar, BoundsInv, WindowOK
<1> QED BY <1>1, <1>2

(* The dispatch loop of either task *)
LEMMA LoopBounds ==
    ASSUME WindowOK, NEW t, NEW t2, TaskOK(t), Loop(t, t2), lo' = lo
    PROVE  /\ WindowOK' /\ TaskOK(t2)
           /\ \/ /\ t2.pc = t.pc /\ t2.then = t.then /\ t2.pkt = t.pkt /\ t2.new = t.new
              \/ t.pc = "until" /\ t2 = IF t.then = "idle" THEN Idle ELSE At(t.then, t.new, t.pkt)
<1>1. CASE Take(t, t2)
  <2>1. t.i \in Index /\ t.i < W
    BY <1>1, SizeAssumption DEF Take, More, TaskOK, Tasks, Index
  <2>2. slots[t.i] \in Packets
    BY <1>1, <2>1 DEF Take, WindowOK
  <2> QED BY <1>1, <2>1, <2>2 DEF Take, TaskOK, Tasks, WindowOK, table
<1>2. CASE Skip(t, t2)
  <2>1. t.i < W
    BY <1>2, SizeAssumption DEF Skip, More, TaskOK, Tasks
  <2>2. t2 \in Tasks /\ t2.buf = None
    BY <1>2, <2>1, SizeAssumption DEF Skip, TaskOK, Tasks
  <2> QED BY <1>2, <2>2 DEF Skip, TaskOK, Tasks, WindowOK, table
<1>3. CASE Clear(t, t2)
  <2>1. t2 \in Tasks /\ t2.buf = None
    <3>1. t.i + 1 \in 0..W
      BY <1>3, SizeAssumption DEF Clear, TaskOK, Tasks
    <3>2. t2 = [pc |-> t.pc, then |-> t.then, pkt |-> t.pkt, new |-> t.new, n |-> t.n,
                i |-> t.i + 1, buf |-> None]
      BY <1>3 DEF Clear, TaskOK, Tasks
    <3> QED BY <3>1, <3>2 DEF TaskOK, Tasks
  <2>2. slots' \in [Index -> Packets \cup {None}]
    BY <1>3 DEF Clear, WindowOK
  <2> QED BY <1>3, <2>1, <2>2 DEF Clear, TaskOK, Tasks, WindowOK
<1>4. CASE UntilEnd(t, t2)
  <2>1. slots' \in [Index -> Packets \cup {None}]
    BY <1>4 DEF UntilEnd, WindowOK, Shifted
  <2>2. t.new \in 0..M /\ t.pkt \in Packets \cup {None} /\ t.then \in {"idle", "store", "scan", "unlink"}
    BY DEF TaskOK, Tasks
  <2>3. TaskOK(t2)
    BY <1>4, <2>2, AtOK, IdleOK DEF UntilEnd
  <2> QED BY <1>4, <2>1, <2>2, <2>3 DEF UntilEnd, WindowOK
<1> QED BY <1>1, <1>2, <1>3, <1>4 DEF Loop

LEMMA LoopsBounds == ASSUME BoundsInv, RxLoop \/ MgrLoop PROVE BoundsInv'
<1>1. CASE RxLoop
  <2>1. WindowOK' /\ TaskOK(rx')
    BY <1>1, LoopBounds DEF RxLoop, BoundsInv
  <2>2. CASE rx'.pc = rx.pc /\ rx'.then = rx.then /\ rx'.pkt = rx.pkt /\ rx'.new = rx.new
    BY <1>1, <2>1, <2>2 DEF BoundsInv, HandOK, RxLoop
  <2>3. CASE rx.pc = "until" /\ rx' = IF rx.then = "idle" THEN Idle ELSE At(rx.then, rx.new, rx.pkt)
    <3>1. CASE rx.then = "idle"
      BY <1>1, <2>1, <2>3, <3>1, IdleOK DEF BoundsInv, HandOK, RxLoop
    <3>2. CASE rx.then # "idle"
      <4>1. rx'.pc = rx.then /\ rx'.pkt = rx.pkt /\ rx'.new = rx.new
        BY <2>3, <3>2, AtOK DEF BoundsInv, TaskOK, Tasks
      <4>2. rx.then # "until"
        BY DEF BoundsInv, TaskOK, Tasks
      <4> QED BY <1>1, <2>1, <2>3, <4>1, <4>2 DEF BoundsInv, HandOK, RxLoop
    <3> QED BY <3>1, <3>2
  <2> QED BY <1>1, <2>2, <2>3, LoopBounds DEF RxLoop, BoundsInv
<1>2. CASE MgrLoop
  BY <1>2, LoopBounds DEF MgrLoop, BoundsInv, HandOK
<1> QED BY <1>1, <1>2

LEMMA StoreBounds == ASSUME BoundsInv, Store PROVE BoundsInv'
<1> DEFINE k == Slot(rx.new, SeqNum(rx.pkt))
<1>1. k \in Index /\ rx.pkt \in Packets
  BY DEF Store, BoundsInv, HandOK
<1>2. CASE slots[k] # None
  BY <1>2, IdleOK DEF Store, Done, BoundsInv, HandOK, WindowOK, TaskOK
<1>3. CASE slots[k] = None
  <2>1. rx' \in Tasks /\ rx'.pc = "scan" /\ rx'.i = rx.i /\ rx'.buf = rx.buf
    BY <1>3, ZenonT(40) DEF Store, BoundsInv, TaskOK, Tasks
  <2>2. slots' \in [Index -> Packets \cup {None}]
    BY <1>1, <1>3 DEF Store, BoundsInv, WindowOK
  <2> QED BY <1>3, <2>1, <2>2 DEF Store, BoundsInv, HandOK, WindowOK, TaskOK
<1> QED BY <1>2, <1>3

LEMMA ScanEndBounds == ASSUME BoundsInv, ScanEnd PROVE BoundsInv'
<1>1. start' \in 0..M
  BY WrapType, SizeAssumption DEF ScanEnd, BoundsInv, WindowOK, TaskOK, Tasks, SeqNums
<1>2. slots' \in [Index -> Packets \cup {None}]
  BY DEF ScanEnd, BoundsInv, WindowOK, Shifted
<1> QED BY <1>1, <1>2, IdleOK DEF ScanEnd, Done, BoundsInv, HandOK, WindowOK, TaskOK

LEMMA FlushBounds == ASSUME BoundsInv, Flush PROVE BoundsInv'
<1>1. start' \in 0..M /\ slots' \in [Index -> Packets \cup {None}]
  <2>1. CASE Full = {}
    BY <2>1 DEF Flush, BoundsInv, WindowOK
  <2>2. CASE Full # {}
    <3>1. PICK last \in Full :
             LET n == ToSend(start, Wrap(start + last + 1)) IN
             /\ slots' = [i \in Index |-> IF i + n \in Index THEN slots[i + n] ELSE None]
             /\ start' = Wrap(start + last + 1)
      BY <2>2 DEF Flush
    <3>2. start + last + 1 \in 0..(2 * M - 1)
      BY SizeAssumption DEF Full, Index, BoundsInv, WindowOK
    <3>3. start' \in 0..M
      BY <3>1, <3>2, WrapType, SizeAssumption DEF SeqNums
    <3>4. slots' \in [Index -> Packets \cup {None}]
      BY <3>1 DEF BoundsInv, WindowOK
    <3> QED BY <3>3, <3>4
  <2> QED BY <2>1, <2>2
<1> QED BY <1>1 DEF Flush, BoundsInv, HandOK, WindowOK, TaskOK

LEMMA ManagerBounds == ASSUME BoundsInv, AddBa \/ Delba \/ Unlink PROVE BoundsInv'
<1>1. SeqNum(lo) \in 0..M
  BY SeqNumType, SizeAssumption DEF BoundsInv, WindowOK, SeqNums
<1>2. Wrap(start + W) \in 0..M
  BY WrapType, SizeAssumption DEF BoundsInv, WindowOK, SeqNums
<1>3. CASE AddBa
  <2>1. CASE up
    <3>1. TaskOK(mgr')
      BY <1>1, <1>3, <2>1, UntilOK DEF AddBa, BoundsInv, WindowOK
    <3> QED BY <1>3, <2>1, <3>1 DEF AddBa, BoundsInv, WindowOK, HandOK, TaskOK, table
  <2>2. CASE ~up
    <3>1. sync' \in [check : BOOLEAN, count : Nat, last : SeqNums \cup {NoSeq}]
      <4>1. sync' = [check |-> TRUE, count |-> 0, last |-> seen]
        BY <1>3, <2>2 DEF AddBa
      <4>2. seen \in SeqNums \cup {NoSeq}
        BY DEF BoundsInv, WindowOK
      <4> QED BY <4>1, <4>2
    <3>2. slots' \in [Index -> Packets \cup {None}]
      BY <1>3, <2>2 DEF AddBa
    <3>3. WindowOK'
      BY <1>1, <1>3, <2>2, <3>1, <3>2 DEF AddBa, BoundsInv, WindowOK
    <3>4. mgr' = mgr /\ rx' = rx
      BY <1>3, <2>2 DEF AddBa
    <3> QED BY <3>3, <3>4 DEF BoundsInv, HandOK, TaskOK
  <2> QED BY <2>1, <2>2
<1>4. CASE Delba
  <2>1. TaskOK(mgr')
    BY <1>2, <1>4, UntilOK DEF Delba, BoundsInv, WindowOK
  <2> QED BY <1>4, <2>1 DEF Delba, BoundsInv, WindowOK, HandOK, TaskOK, table
<1>5. CASE Unlink
  BY <1>5, IdleOK DEF Unlink, BoundsInv, WindowOK, HandOK, TaskOK
<1> QED BY <1>3, <1>4, <1>5

LEMMA BoundsNext == ASSUME BoundsInv, [Next]_vars PROVE BoundsInv'
<1>1. CASE PeerMoves
  BY <1>1, PacketAssumption DEF PeerMoves, BoundsInv, WindowOK, HandOK, TaskOK, table
<1>2. CASE HostSleep
  BY <1>2 DEF HostSleep, BoundsInv, WindowOK, HandOK, TaskOK
<1>3. CASE UNCHANGED vars
  BY <1>3 DEF vars, table, BoundsInv, WindowOK, HandOK, TaskOK
<1> QED BY <1>1, <1>2, <1>3, ArriveBounds, LoopsBounds, StoreBounds, ScanEndBounds,
           FlushBounds, ManagerBounds DEF Next

(* The inductive invariant, whatever interrupts what *)
THEOREM Bounds == Spec => []BoundsInv
BY BoundsInit, BoundsNext, PTL DEF Spec

(* No packet is ever stored outside rx_reorder_ptr[0..win_size-1]. *)
THEOREM StoresInBounds == Spec => []StoreInBounds
<1>1. BoundsInv => StoreInBounds
  BY DEF BoundsInv, HandOK, StoreInBounds
<1> QED BY <1>1, Bounds, PTL

-----------------------------------------------------------------------------
(* Until a race, a loop leaves empty slots behind it, and nothing is       *)
(* stored before the stream is in step; until the first interruption, a    *)
(* task also knows by how much the window will move and where it starts.   *)
LoopOK(t) ==
    /\ t.pc \in {"until", "scan"} => \A k \in Index : k < t.i => slots[k] = None
    /\ t.pc = "until" => t.n \in 1..W /\ t.i <= t.n
    /\ t.buf # None => t.pc \in {"until", "scan"} /\ (t.pc = "until" => t.i < t.n)
    /\ t.pc = "store" => t.i = 0

InStep == sync.check => Full = {} /\ rx = Idle

Matches == \A i \in Full : SeqNum(slots[i]) = Wrap(start + i)
Aims(t) ==
    /\ t.pc = "until" => t.n = ToSend(start, t.new)
    /\ t.pc = "store" => t.new = start
InPlace == Matches /\ Aims(rx) /\ Aims(mgr)

SerialInv ==
    /\ BoundsInv /\ InStep
    /\ rx = Idle \/ mgr = Idle
    /\ LoopOK(rx) /\ LoopOK(mgr)
    /\ clash = "none" => InPlace

(* Interruptions are not forgotten. *)
LEMMA ClashGrows ==
    ASSUME [Next]_vars
    PROVE  /\ clash' # "race" => clash # "race"
           /\ clash' = "none" => clash = "none"
BY DEF Next, vars, Arrive, Bar, Receive, PeerMoves, HostSleep, Store, RxLoop, ScanEnd, Flush, Worse,
       AddBa, Delba, Unlink, MgrLoop

(* No race: the dispatcher has found the connection manager idle. *)
LEMMA ReceiveTurn == ASSUME NEW n, NEW pkt, Receive(n, pkt), clash' # "race" PROVE mgr = Idle /\ clash' = clash
BY DEF Receive

LEMMA FlushTurn ==
    ASSUME Flush, clash' # "race"
    PROVE  rx.buf = None /\ mgr.buf = None /\ (clash' = "none" => Quiet)
BY DEF Flush, Worse

LEMMA UntilMoves ==
    ASSUME NEW s \in 0..M, NEW new \in 0..M, NEW i \in Index, i + ToSend(s, new) \in Index
    PROVE  Wrap(s + (i + ToSend(s, new))) = Wrap(new + i)
BY SizeAssumption DEF ToSend, Index, Wrap

LEMMA ScanMoves ==
    ASSUME NEW s \in 0..M, NEW n \in 0..W, NEW i \in Index, i + n \in Index
    PROVE  Wrap(s + (i + n)) = Wrap(Wrap(s + n) + i)
BY SizeAssumption DEF Index, Wrap

LEMMA StoreMatches ==
    ASSUME NEW s \in 0..M, NEW n \in SeqNums, Slot(s, n) \in Index
    PROVE  n = Wrap(s + Slot(s, n))
BY SizeAssumption DEF Slot, Index, Wrap, SeqNums

(* Behind empty slots, the rotation is a shift. *)
LEMMA ShiftedEmpty ==
    ASSUME WindowOK, NEW n \in 1..W, \A k \in Index : k < n => slots[k] = None
    PROVE  /\ Shifted(n) \in [Index -> Packets \cup {None}]
           /\ \A i \in Index : Shifted(n)[i] = IF i + n \in Index THEN slots[i + n] ELSE None
<1>1. Shifted(n) \in [Index -> Packets \cup {None}]
  BY DEF Shifted, WindowOK
<1>2. ASSUME NEW i \in Index
      PROVE  Shifted(n)[i] = IF i + n \in Index THEN slots[i + n] ELSE None
  BY SizeAssumption DEF Shifted, Index
<1> QED BY <1>1, <1>2

LEMMA SerialInit == Init => SerialInv
<1> SUFFICES ASSUME Init PROVE SerialInv
  OBVIOUS
<1>1. Full = {}
  BY DEF Init, Full
<1>2. LoopOK(Idle) /\ Aims(Idle)
  BY DEF LoopOK, Aims, Idle
<1> QED BY <1>1, <1>2, BoundsInit DEF Init, SerialInv, InPlace, Matches, InStep

(* A step that changes neither the slots nor the window's start *)
LEMMA SameWindow ==
    ASSUME SerialInv, BoundsInv', slots' = slots, start' = start
    PROVE  /\ Matches' <=> Matches
           /\ Full' = Full
           /\ \A t : (LoopOK(t) <=> LoopOK(t)') /\ (Aims(t) <=> Aims(t)')
BY DEF SerialInv, Matches, Full, LoopOK, Aims

LEMMA ReceiveSerial ==
    ASSUME SerialInv, clash' # "race", BoundsInv', NEW n \in SeqNums, NEW pkt \in Packets \cup {None},
           Receive(n, pkt)
    PROVE  SerialInv'
<1> USE DEF Receive
<1>0. mgr = Idle /\ mgr' = Idle /\ rx = Idle /\ slots' = slots /\ clash' = clash
  BY ReceiveTurn
<1>1. CASE start' = start /\ rx' = rx /\ (sync'.check => sync.check)
  BY <1>0, <1>1, SameWindow DEF SerialInv, InStep, InPlace
<1>2. CASE up /\ PassBy(n)
  <2>1. sync'.check = sync.check
    BY <1>2 DEF PassBy, SerialInv, BoundsInv, WindowOK
  <2> QED BY <1>1, <1>2, <2>1 DEF PassBy
<1>3. CASE up /\ Reorder(n, pkt)
  <2> DEFINE first == IF sync.check /\ n # start THEN Resynced(start, sync.last, n) ELSE start
             end == IF pkt = None THEN Wrap(n + W - 1) ELSE n
             next == IF pkt = None THEN "scan" ELSE "store"
  <2>1. sync'.check = FALSE
    BY <1>3 DEF Reorder, SerialInv, BoundsInv, WindowOK
  <2>2. start' = first /\ (first # start => sync.check)
    BY <1>3 DEF Reorder
  <2>3. clash' = "none" => Matches'
    <3>1. CASE start' = start
      BY <1>0, <3>1, SameWindow DEF SerialInv, InPlace
    <3>2. CASE sync.check
      BY <1>0, <3>2 DEF Matches, SerialInv, InStep, Full
    <3> QED BY <2>2, <3>1, <3>2
  <2>4. InStep' /\ LoopOK(mgr)' /\ Aims(mgr)'
    BY <1>0, <2>1, IdleOK DEF InStep, LoopOK, Aims
  <2>5. CASE rx' = rx
    BY <1>0, <2>3, <2>4, <2>5, IdleOK DEF SerialInv, LoopOK, InPlace, Aims
  <2>6. CASE Outside(first, end) /\ rx' = Until(first, NewStart(end), next, pkt)
    <3>1. first \in 0..M /\ NewStart(end) \in 0..M
      <4>1. end \in SeqNums
        BY WrapType, SizeAssumption DEF SeqNums
      <4> QED BY <4>1, <2>2, NewStartFits, SizeAssumption DEF SeqNums, BoundsInv, WindowOK
    <3>2. /\ rx'.pc = "until" /\ rx'.new = NewStart(end) /\ rx'.n = ToSend(first, NewStart(end))
          /\ rx'.i = 0 /\ rx'.buf = None
      BY <2>6, <3>1, UntilOK
    <3>3. ToSend(first, NewStart(end)) \in 1..W
      BY <3>1, ToSendType
    <3>4. LoopOK(rx)' /\ Aims(rx)'
      BY <2>2, <3>2, <3>3, SizeAssumption DEF LoopOK, Aims, Index
    <3> QED BY <1>0, <2>3, <2>4, <3>4 DEF SerialInv, InPlace
  <2>7. CASE rx' = At(next, first, pkt)
    <3>1. rx'.pc = next /\ rx'.new = first /\ rx'.i = 0 /\ rx'.buf = None
      BY <2>7 DEF At
    <3>2. LoopOK(rx)' /\ Aims(rx)'
      BY <2>2, <3>1 DEF LoopOK, Aims, Index
    <3> QED BY <1>0, <2>3, <2>4, <3>2 DEF SerialInv, InPlace
  <2> QED BY <1>3, <2>5, <2>6, <2>7 DEF Reorder
<1> QED BY <1>1, <1>2, <1>3

LEMMA ArriveSerial ==
    ASSUME SerialInv, clash' # "race", BoundsInv', Arrive \/ Bar PROVE SerialInv'
<1>1. CASE Arrive
  <2>1. PICK p \in lo..(lo + W - 1) : p <= Last /\ Receive(SeqNum(p), p)
    BY <1>1 DEF Arrive
  <2>2. p \in Packets /\ p \in Nat
    BY <2>1, PacketAssumption, SizeAssumption DEF SerialInv, BoundsInv, WindowOK, Packets
  <2> QED BY <2>1, <2>2, SeqNumType, ReceiveSerial
<1>2. CASE Bar
  <2>1. SeqNum(lo) \in SeqNums
    BY SeqNumType DEF SerialInv, BoundsInv, WindowOK
  <2> QED BY <1>2, <2>1, ReceiveSerial DEF Bar
<1> QED BY <1>1, <1>2

(* A step of either loop, up to who takes it *)
LEMMA LoopSerial ==
    ASSUME WindowOK, WindowOK', NEW t, NEW t2, TaskOK(t), LoopOK(t), Loop(t, t2)
    PROVE  /\ LoopOK(t2)'
           /\ Matches /\ Aims(t) => Matches' /\ Aims(t2)'
           /\ Full = {} => Full' = {}
           /\ sync' = sync
<1>1. CASE Take(t, t2)
  <2>1. slots' = slots /\ start' = start /\ sync' = sync
    BY <1>1 DEF Take, table
  <2>2. t2.pc = t.pc /\ t2.i = t.i /\ t2.n = t.n /\ t2.new = t.new
    BY <1>1 DEF Take, TaskOK, Tasks
  <2>3. t.pc \in {"until", "scan"} /\ (t.pc = "until" => t.i < t.n)
    BY <1>1 DEF Take, More
  <2> QED BY <2>1, <2>2, <2>3 DEF Matches, Full, LoopOK, Aims
<1>2. CASE Skip(t, t2)
  <2>1. slots' = slots /\ start' = start /\ sync' = sync
    BY <1>2 DEF Skip, table
  <2>2. /\ t2.pc = t.pc /\ t2.i = t.i + 1 /\ t2.n = t.n /\ t2.new = t.new
        /\ t2.buf = None /\ t2.pc # "store"
    BY <1>2 DEF Skip, More, TaskOK, Tasks
  <2>3. t.i \in Int /\ t.n \in Int /\ slots[t.i] = None /\ (t.pc = "until" => t.i < t.n)
    BY <1>2, SizeAssumption DEF Skip, More, TaskOK, Tasks
  <2>4. \A k \in Index : k < t.i + 1 => k < t.i \/ k = t.i
    BY <2>3, SizeAssumption DEF Index
  <2> QED BY <2>1, <2>2, <2>3, <2>4 DEF Matches, Full, LoopOK, Aims
<1>3. CASE Clear(t, t2)
  <2>1. start' = start /\ sync' = sync /\ slots' = [slots EXCEPT ![t.i] = None]
    BY <1>3 DEF Clear
  <2>2. /\ t2.pc = t.pc /\ t2.i = t.i + 1 /\ t2.n = t.n /\ t2.new = t.new
        /\ t2.buf = None /\ t2.pc # "store"
    BY <1>3 DEF Clear, LoopOK, TaskOK, Tasks
  <2>3. t.i \in Index /\ t.i \in Int /\ t.n \in Int
    BY <1>3, SizeAssumption DEF Clear, TaskOK, Tasks, Index
  <2>4. \A k \in Index : slots'[k] = IF k = t.i THEN None ELSE slots[k]
    BY <2>1, <2>3 DEF WindowOK
  <2>5. \A k \in Index : k < t.i + 1 => k < t.i \/ k = t.i
    BY <2>3, SizeAssumption DEF Index
  <2>6. t.pc = "until" => t.i < t.n
    BY <1>3 DEF LoopOK, Clear
  <2> QED BY <2>1, <2>2, <2>3, <2>4, <2>5, <2>6 DEF Matches, Full, LoopOK, Aims
<1>4. CASE UntilEnd(t, t2)
  <2>1. /\ t.pc = "until" /\ slots' = Shifted(t.n) /\ start' = t.new /\ sync' = sync
        /\ t.i = t.n /\ t.n \in 1..W /\ t.new \in 0..M
        /\ \A k \in Index : k < t.n => slots[k] = None
    BY <1>4 DEF UntilEnd, LoopOK, TaskOK, Tasks
  <2>2. Aims(t) => t.n = ToSend(start, t.new)
    BY <2>1 DEF Aims
  <2>3. \A i \in Index : slots'[i] = IF i + t.n \in Index THEN slots[i + t.n] ELSE None
    BY <2>1, ShiftedEmpty
  <2>4. Matches /\ Aims(t) => Matches'
    BY <2>1, <2>2, <2>3, UntilMoves DEF Matches, Full, WindowOK
  <2>5. Full = {} => Full' = {}
    BY <2>3 DEF Full
  <2>6. t2 = Idle \/ (t2 = At(t.then, t.new, t.pkt) /\ t.then \in {"store", "scan", "unlink"})
    <3>1. t.then \in {"idle", "store", "scan", "unlink"}
      BY DEF TaskOK, Tasks
    <3> QED BY <1>4, <3>1 DEF UntilEnd
  <2>7. t2.i = 0 /\ t2.buf = None /\ t2.pc # "until" /\ (t2.pc = "store" => t2.new = t.new)
    BY <2>6 DEF Idle, At
  <2>8. LoopOK(t2)' /\ Aims(t2)'
    BY <2>1, <2>7 DEF LoopOK, Aims, Index
  <2> QED BY <2>1, <2>4, <2>5, <2>8
<1> QED BY <1>1, <1>2, <1>3, <1>4 DEF Loop

LEMMA Looping ==
    ASSUME NEW t, NEW t2, LoopOK(t), Loop(t, t2) PROVE t.pc \in {"until", "scan"}
BY DEF LoopOK, Loop, Take, Skip, Clear, UntilEnd, More

LEMMA LoopsSerial ==
    ASSUME SerialInv, clash' # "race", BoundsInv', RxLoop \/ MgrLoop PROVE SerialInv'
<1> USE DEF SerialInv
<1>1. CASE RxLoop
  <2>1. rx.pc \in {"until", "scan"} /\ rx # Idle /\ mgr = Idle /\ mgr' = Idle
    BY <1>1, Looping, IdleOK DEF RxLoop
  <2>2. /\ LoopOK(rx)' /\ sync' = sync /\ clash' = clash
        /\ Matches /\ Aims(rx) => Matches' /\ Aims(rx)'
    BY <1>1, <2>1, LoopSerial DEF RxLoop, BoundsInv
  <2>3. LoopOK(mgr)' /\ Aims(mgr)'
    BY <2>1, IdleOK DEF LoopOK, Aims
  <2>4. InStep'
    BY <2>1, <2>2 DEF InStep
  <2> QED BY <2>1, <2>2, <2>3, <2>4 DEF InPlace
<1>2. CASE MgrLoop
  <2>1. rx = Idle /\ rx' = Idle
    BY <1>2 DEF MgrLoop
  <2>2. /\ LoopOK(mgr)' /\ sync' = sync /\ (Full = {} => Full' = {}) /\ clash' = clash
        /\ Matches /\ Aims(mgr) => Matches' /\ Aims(mgr)'
    BY <1>2, LoopSerial DEF MgrLoop, BoundsInv
  <2>3. LoopOK(rx)' /\ Aims(rx)'
    BY <2>1, IdleOK DEF LoopOK, Aims
  <2>4. InStep'
    BY <2>1, <2>2 DEF InStep
  <2> QED BY <2>1, <2>2, <2>3, <2>4 DEF InPlace
<1> QED BY <1>1, <1>2

LEMMA StoreSerial == ASSUME SerialInv, clash' # "race", BoundsInv', Store PROVE SerialInv'
<1> DEFINE k == Slot(rx.new, SeqNum(rx.pkt))
<1>1. /\ k \in Index /\ rx.pkt \in Packets /\ mgr = Idle /\ mgr' = mgr /\ start' = start
      /\ clash' = clash /\ rx.pc = "store"
  BY DEF Store, SerialInv, BoundsInv, HandOK, Idle
<1>2. CASE slots[k] # None
  <2>1. rx' = Idle /\ slots' = slots /\ sync' = sync
    BY <1>2 DEF Store, Done
  <2>2. InStep' /\ LoopOK(rx)' /\ LoopOK(mgr)' /\ Aims(rx)' /\ Aims(mgr)'
    BY <1>1, <2>1, SameWindow, IdleOK DEF SerialInv, InStep, LoopOK, Aims
  <2> QED BY <1>1, <2>1, <2>2, SameWindow DEF SerialInv, InPlace
<1>3. CASE slots[k] = None
  <2>1. sync.check = FALSE /\ sync' = sync
    BY DEF Store, SerialInv, InStep, Idle, BoundsInv, WindowOK
  <2>2. rx' = [rx EXCEPT !.pc = "scan", !.pkt = None] /\ slots' = [slots EXCEPT ![k] = rx.pkt]
    BY <1>3 DEF Store
  <2>3. clash' = "none" => Matches'
    <3> SUFFICES ASSUME clash' = "none" PROVE Matches'
      OBVIOUS
    <3>1. rx.new = start /\ Matches
      BY <1>1 DEF SerialInv, InPlace, Aims
    <3>2. SeqNum(rx.pkt) = Wrap(start + k)
      BY <1>1, <3>1, SeqNumType, StoreMatches, PacketAssumption
      DEF Packets, SerialInv, BoundsInv, WindowOK
    <3> QED BY <1>1, <2>2, <3>1, <3>2 DEF Matches, Full, SerialInv, BoundsInv, WindowOK
  <2>4. rx'.pc = "scan" /\ rx'.i = 0 /\ rx'.buf = None
    BY <2>2 DEF Store, SerialInv, LoopOK, BoundsInv, TaskOK, Tasks
  <2>5. LoopOK(rx)' /\ LoopOK(mgr)' /\ InStep' /\ Aims(rx)' /\ Aims(mgr)'
    BY <1>1, <2>1, <2>4, IdleOK DEF LoopOK, InStep, Aims, Index
  <2> QED BY <1>1, <2>3, <2>5 DEF SerialInv, InPlace
<1> QED BY <1>2, <1>3

LEMMA ScanEndSerial == ASSUME SerialInv, clash' # "race", BoundsInv', ScanEnd PROVE SerialInv'
<1>1. /\ rx.pc = "scan" /\ mgr = Idle /\ mgr' = Idle /\ rx' = Idle /\ sync' = sync /\ sync.check = FALSE
      /\ start' = Wrap(start + rx.i) /\ rx.i \in 0..W /\ start \in 0..M /\ clash' = clash
  BY IdleOK DEF ScanEnd, Done, SerialInv, InStep, BoundsInv, TaskOK, Tasks, WindowOK
<1>2. \A i \in Index : slots'[i] = IF i + rx.i \in Index THEN slots[i + rx.i] ELSE None
  <2>1. CASE rx.i = 0
    BY <2>1, SizeAssumption DEF ScanEnd, Index
  <2>2. CASE rx.i > 0
    <3>1. rx.i \in 1..W /\ \A k \in Index : k < rx.i => slots[k] = None
      BY <1>1, <2>2, SizeAssumption DEF SerialInv, LoopOK
    <3> QED BY <2>2, <3>1, ShiftedEmpty DEF ScanEnd, SerialInv, BoundsInv
  <2> QED BY <1>1, <2>1, <2>2, SizeAssumption
<1>3. clash' = "none" => Matches'
  BY <1>1, <1>2, ScanMoves DEF Matches, Full, SerialInv, InPlace
<1>4. InStep' /\ LoopOK(rx)' /\ LoopOK(mgr)' /\ Aims(rx)' /\ Aims(mgr)'
  BY <1>1, IdleOK DEF InStep, LoopOK, Aims
<1> QED BY <1>1, <1>3, <1>4 DEF SerialInv, InPlace

(* The flush empties the window and never leaves a packet in it. *)
LEMMA FlushEmpties ==
    ASSUME WindowOK, Flush
    PROVE  /\ Full' = {} /\ \A i \in Index : slots'[i] = None
           /\ Full = {} => start' = start /\ UNCHANGED record
           /\ Full # {} => Deliver(slots, Full)
<1>1. CASE Full = {}
  BY <1>1 DEF Flush, Full
<1>2. CASE Full # {}
  <2>1. PICK last \in Full :
           LET new == Wrap(start + last + 1)
               n == ToSend(start, new) IN
           /\ \A j \in Full : j <= last
           /\ Deliver(slots, {i \in Full : i < n})
           /\ slots' = [i \in Index |-> IF i + n \in Index THEN slots[i + n] ELSE None]
    BY <1>2 DEF Flush
  <2> DEFINE n == ToSend(start, Wrap(start + last + 1))
  <2>2. last \in 0..(W - 1) /\ start \in 0..M
    BY <2>1 DEF Full, Index, WindowOK
  <2>3. last < n
    BY <2>2, SizeAssumption DEF ToSend, Wrap
  <2>4. n \in 1..W
    <3>1. start + last + 1 \in 0..(2 * M - 1)
      BY <2>2, SizeAssumption
    <3>2. Wrap(start + last + 1) \in 0..M
      BY <3>1, WrapType, SizeAssumption DEF SeqNums
    <3> QED BY <2>2, <3>2, ToSendType
  <2> HIDE DEF n
  <2>5. {i \in Full : i < n} = Full
    BY <2>1, <2>2, <2>3, <2>4 DEF Full, Index
  <2>6. \A i \in Index : slots'[i] = None
    <3>1. \A i \in Index : slots'[i] = IF i + n \in Index THEN slots[i + n] ELSE None
      BY <2>1 DEF n
    <3>2. \A j \in Index : j > last => slots[j] = None
      BY <2>1, <2>2 DEF Full, Index
    <3>3. \A i \in Index : i + n > last
      BY <2>2, <2>3, <2>4 DEF Index
    <3> QED BY <3>1, <3>2, <3>3
  <2>7. Deliver(slots, Full)
    BY <2>1, <2>5 DEF n
  <2> QED BY <1>2, <2>6, <2>7 DEF Full
<1> QED BY <1>1, <1>2

LEMMA FlushSerial == ASSUME SerialInv, clash' # "race", BoundsInv', Flush PROVE SerialInv'
<1>1. rx' = rx /\ mgr' = mgr /\ sync' = sync /\ rx.buf = None /\ mgr.buf = None
  BY FlushTurn DEF Flush
<1>2. Full' = {} /\ \A i \in Index : slots'[i] = None
  BY FlushEmpties DEF SerialInv, BoundsInv
<1>3. InStep' /\ LoopOK(rx)' /\ LoopOK(mgr)'
  BY <1>1, <1>2 DEF InStep, LoopOK, SerialInv
<1>4. clash' = "none" => InPlace'
  <2> SUFFICES ASSUME clash' = "none" PROVE InPlace'
    OBVIOUS
  <2>1. rx' = Idle /\ mgr' = Idle
    BY <1>1, FlushTurn DEF Quiet
  <2> QED BY <1>2, <2>1, IdleOK DEF InPlace, Matches, Aims
<1> QED BY <1>1, <1>3, <1>4 DEF SerialInv

LEMMA ManagerSerial ==
    ASSUME SerialInv, clash' # "race", BoundsInv', AddBa \/ Delba \/ Unlink PROVE SerialInv'
<1>1. rx = Idle /\ rx' = Idle /\ LoopOK(Idle)' /\ Aims(Idle)' /\ clash' = clash
  BY IdleOK DEF AddBa, Delba, Unlink, Quiet, LoopOK, Aims
<1>2. CASE slots' = slots /\ start' = start /\ sync' = sync /\ LoopOK(mgr)' /\ Aims(mgr)'
  BY <1>1, <1>2, SameWindow DEF SerialInv, InStep, InPlace
<1>3. ASSUME NEW new \in 0..M, NEW then \in {"idle", "unlink"}, mgr' = Until(start, new, then, None),
             slots' = slots, start' = start
      PROVE  LoopOK(mgr)' /\ Aims(mgr)'
  <2>1. start \in 0..M
    BY DEF SerialInv, BoundsInv, WindowOK
  <2>2. /\ mgr'.pc = "until" /\ mgr'.new = new /\ mgr'.n = ToSend(start, new)
        /\ mgr'.i = 0 /\ mgr'.buf = None
    BY <1>3, <2>1, UntilOK
  <2>3. ToSend(start, new) \in 1..W
    BY <2>1, ToSendType
  <2> QED BY <1>3, <2>2, <2>3, SizeAssumption DEF LoopOK, Aims, Index
<1>4. SeqNum(lo) \in 0..M /\ Wrap(start + W) \in 0..M
  BY SeqNumType, WrapType, SizeAssumption DEF SerialInv, BoundsInv, WindowOK, SeqNums
<1>5. CASE slots' = [i \in Index |-> None] /\ mgr' = Idle
  <2>1. Full' = {}
    BY <1>5 DEF Full
  <2> QED BY <1>1, <1>5, <2>1 DEF SerialInv, InPlace, Matches, InStep
<1>6. CASE AddBa /\ up
  BY <1>2, <1>3, <1>4, <1>6 DEF AddBa, table
<1>7. CASE AddBa /\ ~up
  BY <1>5, <1>7 DEF AddBa, Quiet
<1>8. CASE Delba
  BY <1>2, <1>3, <1>4, <1>8 DEF Delba, table
<1>9. CASE Unlink
  BY <1>5, <1>9 DEF Unlink
<1> QED BY <1>6, <1>7, <1>8, <1>9

LEMMA SerialNext == ASSUME SerialInv, clash' # "race", [Next]_vars PROVE SerialInv'
<1>1. BoundsInv'
  BY BoundsNext DEF SerialInv
<1>2. CASE PeerMoves \/ HostSleep \/ UNCHANGED vars
  <2>1. /\ slots' = slots /\ start' = start /\ sync' = sync /\ rx' = rx /\ mgr' = mgr
        /\ clash' = clash
    BY <1>2 DEF PeerMoves, HostSleep, vars, table
  <2> QED BY <1>1, <2>1, SameWindow DEF SerialInv, InStep, InPlace
<1> QED BY <1>1, <1>2, ArriveSerial, LoopsSerial, StoreSerial, ScanEndSerial,
           FlushSerial, ManagerSerial DEF Next

(* Until a task is interrupted in the middle of a call, slot i holds the   *)
(* packet numbered start_win + i, for every window size and across every   *)
(* wrap.                                                                   *)
THEOREM SlotsMatchInTurns == Spec => []SlotsMatch
<1> DEFINE Inv == clash = "race" \/ SerialInv
<1>1. Init => Inv
  BY SerialInit
<1>2. Inv /\ [Next]_vars => Inv'
  BY SerialNext, ClashGrows
<1>3. Inv => SlotsMatch
  BY DEF SerialInv, InPlace, Matches, SlotsMatch
<1> QED BY <1>1, <1>2, <1>3, PTL DEF Spec
-----------------------------------------------------------------------------
(* Where the packets are until a race: the dispatcher has one in its hand  *)
(* only until it is stored, a task that has read a slot knows the slot's   *)
(* packet, and a table without a stream is empty.                          *)
HandInv ==
    /\ rx.pkt # None => rx.pc = "store" \/ (rx.pc = "until" /\ rx.then = "store")
    /\ mgr.pkt = None
    /\ rx.buf # None => slots[rx.i] = rx.buf
    /\ mgr.buf # None => slots[mgr.i] = mgr.buf

(* The manager's loop passes every slot before the table is freed. *)
TearDown ==
    /\ mgr.pc \in {"idle", "until", "unlink"} /\ mgr.then \in {"idle", "unlink"}
    /\ mgr.pc = "until" /\ mgr.then = "unlink" => mgr.n = W
    /\ mgr.pc = "unlink" => Full = {}
    /\ rx # Idle => up
    /\ ~up => Full = {}

Owned == live = Cardinality(Full) + (IF rx.pkt # None THEN 1 ELSE 0)

OwnInv == SerialInv /\ HandInv /\ TearDown /\ Owned

LEMMA FullFinite == ASSUME W \in Nat PROVE IsFiniteSet(Full) /\ Cardinality(Full) \in 0..W
<1>1. IsFiniteSet(Index) /\ Cardinality(Index) = W
  BY FS_Interval DEF Index
<1>2. Full \in SUBSET Index
  BY DEF Full
<1> QED BY <1>1, <1>2, FS_Subset, FS_CardinalityType

LEMMA FullFinitePrime == ASSUME W \in Nat PROVE IsFiniteSet(Full') /\ Cardinality(Full') \in 0..W
<1>1. IsFiniteSet(Index) /\ Cardinality(Index) = W
  BY FS_Interval DEF Index
<1>2. Full' \in SUBSET Index
  BY DEF Full
<1> QED BY <1>1, <1>2, FS_Subset, FS_CardinalityType

(* A shift by n slots keeps the packets behind them. *)
LEMMA ShiftCount ==
    ASSUME NEW n \in 0..W,
           \A i \in Index : slots'[i] = IF i + n \in Index THEN slots[i + n] ELSE None
    PROVE  Cardinality(Full') = Cardinality({i \in Full : i >= n})
<1> DEFINE T == {i \in Full : i >= n}
           f == [i \in Full' |-> i + n]
<1>1. f \in [Full' -> T]
  BY SizeAssumption DEF Full, Index
<1>2. \A a, b \in Full' : f[a] = f[b] => a = b
  BY SizeAssumption DEF Full, Index
<1>3. \A t \in T : \E a \in Full' : f[a] = t
  <2> SUFFICES ASSUME NEW t \in T PROVE t - n \in Full' /\ (t - n) + n = t
    OBVIOUS
  <2> QED BY SizeAssumption DEF Full, Index
<1>4. f \in Bijection(Full', T)
  BY <1>1, <1>2, <1>3 DEF Bijection, Injection, Surjection, IsInjective
<1>5. ExistsBijection(Full', T)
  BY <1>4 DEF ExistsBijection
<1> HIDE DEF f, T
<1>6. Cardinality(T) = Cardinality(Full')
  BY <1>5, FullFinitePrime, FS_Bijection, SizeAssumption
<1> QED BY <1>6 DEF T

(* The same when the first n slots are empty *)
LEMMA ShiftKeeps ==
    ASSUME NEW n \in 0..W, \A k \in Index : k < n => slots[k] = None,
           \A i \in Index : slots'[i] = IF i + n \in Index THEN slots[i + n] ELSE None
    PROVE  Cardinality(Full') = Cardinality(Full)
<1>1. {i \in Full : i >= n} = Full
  BY SizeAssumption DEF Full, Index
<1> QED BY <1>1, ShiftCount

LEMMA CountExact == ASSUME clash' # "race", NEW x \in 0..(W + 1) PROVE Count(x) = x
BY DEF Count

LEMMA OwnInit == Init => OwnInv
<1> SUFFICES ASSUME Init PROVE OwnInv
  OBVIOUS
<1>1. Full = {}
  BY DEF Init, Full
<1>2. HandInv /\ TearDown
  BY <1>1 DEF Init, HandInv, TearDown, Idle
<1>3. Owned
  BY <1>1, FS_EmptySet DEF Init, Owned, Idle
<1> QED BY <1>2, <1>3, SerialInit DEF OwnInv

LEMMA ReceiveOwn ==
    ASSUME clash' # "race", OwnInv, SerialInv', NEW n \in SeqNums, NEW pkt \in Packets \cup {None},
           Receive(n, pkt)
    PROVE  OwnInv'
<1> USE DEF Receive
<1>0. /\ mgr = Idle /\ mgr' = Idle /\ rx = Idle /\ slots' = slots /\ Full' = Full /\ up' = up
      /\ rx.pkt = None /\ live = Cardinality(Full) /\ Cardinality(Full) \in 0..W
  BY ReceiveTurn, FullFinite, SizeAssumption, IdleOK DEF Full, OwnInv, Owned
<1>1. CASE rx' = rx /\ live' = live
  BY <1>0, <1>1 DEF OwnInv, HandInv, TearDown, Owned
<1>2. CASE up /\ Reorder(n, pkt) /\ ~(rx' = rx /\ live' = live)
  <2> DEFINE next == IF pkt = None THEN "scan" ELSE "store"
  <2>1. live' = IF pkt = None THEN live ELSE Count(live + 1)
    BY <1>2 DEF Reorder
  <2>2. /\ rx'.pkt = pkt /\ rx'.buf = None
        /\ rx'.pc = next \/ (rx'.pc = "until" /\ rx'.then = next)
    <3>1. PICK a, b, s : rx' = Until(a, b, next, pkt) \/ rx' = At(next, s, pkt)
      BY <1>2 DEF Reorder
    <3> QED BY <3>1 DEF Until, At
  <2>3. Owned'
    <3>1. live \in 0..W
      BY <1>0
    <3>2. CASE pkt = None
      BY <1>0, <2>1, <2>2, <3>1, <3>2, SizeAssumption DEF Owned
    <3>3. CASE pkt # None
      <4>1. live' = live + 1
        BY <2>1, <3>1, <3>3, CountExact, SizeAssumption
      <4> QED BY <1>0, <2>2, <3>3, <4>1 DEF Owned
    <3> QED BY <3>2, <3>3
  <2>4. HandInv'
    BY <1>0, <2>2, IdleOK DEF HandInv
  <2>5. TearDown'
    BY <1>0, <1>2 DEF TearDown, OwnInv
  <2> QED BY <2>3, <2>4, <2>5 DEF OwnInv
<1> QED BY <1>1, <1>2 DEF PassBy, Reorder

(* A step of either loop *)
LEMMA LoopOwn ==
    ASSUME clash' # "race", SerialInv, SerialInv', NEW t, NEW t2, TaskOK(t), LoopOK(t), Loop(t, t2),
           t.buf # None => slots[t.i] = t.buf,
           NEW e \in {0, 1}, live = Cardinality(Full) + e
    PROVE  /\ live' = Cardinality(Full') + e
           /\ t2.buf # None => slots'[t2.i] = t2.buf
           /\ up' = up
<1>0. Cardinality(Full) \in 0..W /\ IsFiniteSet(Full)
  BY FullFinite, SizeAssumption
<1>1. CASE Take(t, t2)
  <2>1. slots' = slots /\ live' = live /\ Full' = Full /\ up' = up
    BY <1>1 DEF Take, table, record, Full
  <2>2. t2.i = t.i /\ t2.buf = slots[t.i]
    BY <1>1 DEF Take, TaskOK, Tasks
  <2> QED BY <2>1, <2>2
<1>2. CASE Skip(t, t2)
  <2>1. slots' = slots /\ live' = live /\ Full' = Full /\ up' = up
    BY <1>2 DEF Skip, table, record, Full
  <2>2. t2.buf = None
    BY <1>2 DEF Skip, TaskOK, Tasks
  <2> QED BY <2>1, <2>2
<1>3. CASE Clear(t, t2)
  <2>1. t.i \in Index /\ t.i \in Full /\ t2.buf = None /\ up' = up
    BY <1>3, SizeAssumption DEF Clear, TaskOK, Tasks, Index, Full
  <2>2. Full' = Full \ {t.i}
    BY <1>3, <2>1 DEF Clear, Full, SerialInv, BoundsInv, WindowOK
  <2>3. Cardinality(Full') = Cardinality(Full) - 1
    BY <1>0, <2>1, <2>2, FS_RemoveElement
  <2>4. live' = Count(live - Cardinality({t.i}))
    BY <1>3 DEF Clear, Deliver
  <2>5. Cardinality({t.i}) = 1
    BY FS_Singleton
  <2>6. Cardinality(Full') \in 0..W
    BY FullFinitePrime, SizeAssumption
  <2>7. live - 1 \in 0..(W + 1)
    BY <1>0, <2>3, <2>6, SizeAssumption
  <2> QED BY <1>0, <2>1, <2>3, <2>4, <2>5, <2>7, CountExact, SizeAssumption
<1>4. CASE UntilEnd(t, t2)
  <2>1. /\ slots' = Shifted(t.n) /\ t.i = t.n /\ live' = live /\ up' = up
        /\ \A k \in Index : k < t.n => slots[k] = None
    BY <1>4 DEF UntilEnd, LoopOK, record
  <2>2. t.n \in 1..W
    BY <1>4 DEF UntilEnd, LoopOK
  <2>3. \A i \in Index : slots'[i] = IF i + t.n \in Index THEN slots[i + t.n] ELSE None
    BY <2>1, <2>2, ShiftedEmpty DEF SerialInv, BoundsInv
  <2>4. Cardinality(Full') = Cardinality(Full)
    BY <2>1, <2>2, <2>3, ShiftKeeps, SizeAssumption
  <2>5. t2.buf = None
    BY <1>4 DEF UntilEnd, Idle, At
  <2> QED BY <2>1, <2>4, <2>5
<1> QED BY <1>1, <1>2, <1>3, <1>4 DEF Loop

LEMMA LoopsOwn == ASSUME clash' # "race", OwnInv, SerialInv', RxLoop \/ MgrLoop PROVE OwnInv'
<1> USE DEF OwnInv
<1>1. CASE RxLoop
  <2>1. rx.pc \in {"until", "scan"} /\ rx # Idle /\ mgr = Idle /\ mgr' = Idle
    BY <1>1, Looping, IdleOK DEF RxLoop, SerialInv
  <2> DEFINE e == IF rx.pkt # None THEN 1 ELSE 0
  <2>2. /\ live' = Cardinality(Full') + e
        /\ rx'.buf # None => slots'[rx'.i] = rx'.buf
        /\ up' = up
    BY <1>1, LoopOwn DEF RxLoop, SerialInv, BoundsInv, HandInv, Owned
  <2>3. /\ rx'.pkt = rx.pkt
        /\ rx'.pkt # None => rx'.pc = "store" \/ (rx'.pc = "until" /\ rx'.then = "store")
    <3>1. CASE rx'.pc = rx.pc /\ rx'.then = rx.then /\ rx'.pkt = rx.pkt
      BY <3>1 DEF HandInv
    <3>2. CASE rx.pc = "until" /\ rx' = IF rx.then = "idle" THEN Idle ELSE At(rx.then, rx.new, rx.pkt)
      BY <3>2 DEF HandInv, At, Idle
    <3> QED BY <1>1, <3>1, <3>2, LoopBounds DEF RxLoop, SerialInv, BoundsInv
  <2>4. TearDown'
    BY <2>1, <2>2 DEF TearDown, Idle
  <2> QED BY <2>1, <2>2, <2>3, <2>4, IdleOK DEF HandInv, Owned
<1>2. CASE MgrLoop
  <2>1. rx = Idle /\ rx' = Idle /\ rx.pkt = None
    BY <1>2, IdleOK DEF MgrLoop
  <2>2. /\ live' = Cardinality(Full') + 0
        /\ mgr'.buf # None => slots'[mgr'.i] = mgr'.buf
        /\ up' = up
    BY <1>2, <2>1, LoopOwn DEF MgrLoop, SerialInv, BoundsInv, HandInv, Owned
  <2>3. Full = {} => Full' = {}
    BY <1>2, LoopSerial DEF MgrLoop, SerialInv, BoundsInv
  <2>4. mgr.pc = "until"
    BY <1>2, Looping DEF MgrLoop, SerialInv, TearDown
  <2>5. /\ mgr'.pkt = None /\ mgr'.then \in {"idle", "unlink"} /\ mgr'.pc \in {"idle", "until", "unlink"}
        /\ mgr'.pc = "until" => mgr'.n = mgr.n /\ mgr'.then = mgr.then
    <3>1. CASE Take(mgr, mgr') \/ Skip(mgr, mgr') \/ Clear(mgr, mgr')
      BY <2>4, <3>1 DEF Take, Skip, Clear, SerialInv, BoundsInv, TaskOK, Tasks, HandInv, TearDown
    <3>2. CASE UntilEnd(mgr, mgr')
      BY <3>2 DEF UntilEnd, Idle, At, HandInv, TearDown
    <3> QED BY <1>2, <3>1, <3>2 DEF MgrLoop, Loop
  <2>6. ASSUME mgr'.pc = "unlink" PROVE Full' = {}
    <3>1. UntilEnd(mgr, mgr')
      BY <1>2, <2>4, <2>6 DEF MgrLoop, Loop, Take, Skip, Clear, SerialInv, BoundsInv, TaskOK, Tasks
    <3>2. mgr.then = "unlink" /\ mgr.n = W
      BY <2>4, <2>6, <3>1 DEF UntilEnd, TearDown, Idle, At
    <3>3. \A k \in Index : k < W /\ slots[k] = None
      BY <2>4, <3>1, <3>2, SizeAssumption DEF UntilEnd, SerialInv, LoopOK, Index
    <3>4. Full = {}
      BY <3>3 DEF Full
    <3> QED BY <2>3, <3>4
  <2>7. TearDown'
    BY <2>1, <2>2, <2>3, <2>4, <2>5, <2>6 DEF TearDown
  <2> QED BY <2>1, <2>2, <2>5, <2>7, IdleOK DEF HandInv, Owned
<1> QED BY <1>1, <1>2

LEMMA StoreOwn == ASSUME clash' # "race", OwnInv, SerialInv', Store PROVE OwnInv'
<1> DEFINE k == Slot(rx.new, SeqNum(rx.pkt))
<1>1. /\ k \in Index /\ rx.pkt \in Packets /\ rx.pkt # None /\ mgr = Idle /\ mgr' = mgr /\ up' = up /\ up
      /\ rx.buf = None /\ rx # Idle
  BY PacketAssumption DEF Store, OwnInv, SerialInv, BoundsInv, HandOK, Idle, LoopOK, TearDown, Packets
<1>2. live = Cardinality(Full) + 1 /\ Cardinality(Full) \in 0..W /\ IsFiniteSet(Full)
  BY <1>1, FullFinite, SizeAssumption DEF OwnInv, Owned
<1>3. CASE slots[k] # None
  <2>1. slots' = slots /\ Full' = Full /\ rx' = Idle /\ live' = Count(live - 1)
    BY <1>3 DEF Store, Done, Full
  <2>2. live' = Cardinality(Full)
    BY <1>2, <2>1, CountExact, SizeAssumption
  <2>3. Owned'
    BY <1>2, <2>1, <2>2, IdleOK, SizeAssumption DEF Owned
  <2> QED BY <1>1, <2>1, <2>3, IdleOK DEF OwnInv, HandInv, TearDown
<1>4. CASE slots[k] = None
  <2>1. /\ live' = live /\ rx' = [rx EXCEPT !.pc = "scan", !.pkt = None]
        /\ slots' = [slots EXCEPT ![k] = rx.pkt]
    BY <1>4 DEF Store
  <2>2. k \notin Full /\ Full' = Full \cup {k}
    BY <1>1, <1>4, <2>1 DEF Full, OwnInv, SerialInv, BoundsInv, WindowOK
  <2>3. Cardinality(Full') = Cardinality(Full) + 1
    BY <1>2, <2>2, FS_AddElement
  <2>4. rx'.pkt = None /\ rx'.buf = None
    BY <1>1, <2>1 DEF OwnInv, SerialInv, BoundsInv, TaskOK, Tasks
  <2> QED BY <1>1, <1>2, <2>1, <2>3, <2>4, IdleOK DEF OwnInv, HandInv, TearDown, Owned
<1> QED BY <1>3, <1>4

LEMMA ScanEndOwn == ASSUME clash' # "race", OwnInv, SerialInv', ScanEnd PROVE OwnInv'
<1>1. /\ rx.pc = "scan" /\ mgr = Idle /\ mgr' = Idle /\ rx' = Idle /\ rx.i \in 0..W /\ rx.pkt = None
      /\ live' = live /\ up' = up /\ up
  BY IdleOK DEF ScanEnd, Done, OwnInv, SerialInv, BoundsInv, TaskOK, Tasks, HandInv, TearDown, record
<1>2. \A k \in Index : k < rx.i => slots[k] = None
  BY <1>1 DEF OwnInv, SerialInv, LoopOK
<1>3. \A i \in Index : slots'[i] = IF i + rx.i \in Index THEN slots[i + rx.i] ELSE None
  <2>1. CASE rx.i = 0
    BY <2>1, SizeAssumption DEF ScanEnd, Index
  <2>2. CASE rx.i > 0
    <3>1. rx.i \in 1..W
      BY <1>1, <2>2, SizeAssumption
    <3> QED BY <1>2, <2>2, <3>1, ShiftedEmpty DEF ScanEnd, OwnInv, SerialInv, BoundsInv
  <2> QED BY <1>1, <2>1, <2>2, SizeAssumption
<1>4. Cardinality(Full') = Cardinality(Full)
  BY <1>1, <1>2, <1>3, ShiftKeeps
<1> QED BY <1>1, <1>4, IdleOK DEF OwnInv, HandInv, TearDown, Owned

LEMMA FlushOwn == ASSUME clash' # "race", OwnInv, SerialInv', Flush PROVE OwnInv'
<1> DEFINE e == IF rx.pkt # None THEN 1 ELSE 0
<1>1. rx' = rx /\ mgr' = mgr /\ rx.buf = None /\ mgr.buf = None /\ up' = up
  BY FlushTurn DEF Flush
<1>2. Full' = {} /\ (Full = {} => live' = live) /\ (Full # {} => live' = Count(live - Cardinality(Full)))
  BY FlushEmpties DEF OwnInv, SerialInv, BoundsInv, record, Deliver
<1>3. live = Cardinality(Full) + e /\ Cardinality(Full) \in 0..W
  BY FullFinite, SizeAssumption DEF OwnInv, Owned
<1>4. Cardinality({}) = 0
  BY FS_EmptySet
<1>5. live' = e
  <2>1. CASE Full = {}
    BY <1>2, <1>3, <1>4, <2>1
  <2>2. CASE Full # {}
    <3>1. live - Cardinality(Full) = e /\ e \in 0..(W + 1)
      BY <1>3, SizeAssumption
    <3> QED BY <1>2, <2>2, <3>1, CountExact
  <2> QED BY <2>1, <2>2
<1>6. Owned'
  BY <1>1, <1>2, <1>4, <1>5 DEF Owned
<1> QED BY <1>1, <1>2, <1>6 DEF OwnInv, HandInv, TearDown

LEMMA ManagerOwn == ASSUME clash' # "race", OwnInv, SerialInv', AddBa \/ Delba \/ Unlink PROVE OwnInv'
<1>1. rx = Idle /\ rx' = Idle /\ live' = live /\ rx.pkt = None
  BY IdleOK DEF AddBa, Delba, Unlink, Quiet, record
<1>2. ASSUME Full = {}, slots' = [i \in Index |-> None], mgr' = Idle
      PROVE  OwnInv'
  <2>1. Full' = {}
    BY <1>2 DEF Full
  <2> QED BY <1>1, <1>2, <2>1, IdleOK DEF OwnInv, HandInv, TearDown, Owned, Idle
<1>3. ASSUME NEW new, NEW then \in {"idle", "unlink"}, mgr' = Until(start, new, then, None),
             slots' = slots, up, up', then = "unlink" => ToSend(start, new) = W
      PROVE  OwnInv'
  <2>1. /\ mgr'.pc = "until" /\ mgr'.then = then /\ mgr'.n = ToSend(start, new)
        /\ mgr'.pkt = None /\ mgr'.buf = None
    BY <1>3 DEF Until
  <2>2. Full' = Full
    BY <1>3 DEF Full
  <2> QED BY <1>1, <1>3, <2>1, <2>2, IdleOK DEF OwnInv, HandInv, TearDown, Owned
<1>4. CASE AddBa /\ up
  BY <1>3, <1>4 DEF AddBa, table
<1>5. CASE AddBa /\ ~up
  BY <1>2, <1>5 DEF AddBa, Quiet, OwnInv, TearDown
<1>6. CASE Delba
  <2>1. ToSend(start, Wrap(start + W)) = W
    BY SizeAssumption DEF ToSend, Wrap, OwnInv, SerialInv, BoundsInv, WindowOK
  <2> QED BY <1>3, <1>6, <2>1 DEF Delba, table
<1>7. CASE Unlink
  BY <1>2, <1>7 DEF Unlink, OwnInv, TearDown
<1> QED BY <1>4, <1>5, <1>6, <1>7

LEMMA OwnNext == ASSUME clash' # "race", OwnInv, [Next]_vars PROVE OwnInv'
<1>1. SerialInv'
  BY SerialNext DEF OwnInv
<1>2. CASE Arrive
  <2>1. PICK p \in lo..(lo + W - 1) : p <= Last /\ Receive(SeqNum(p), p)
    BY <1>2 DEF Arrive
  <2>2. p \in Packets /\ p \in Nat
    BY <2>1, PacketAssumption, SizeAssumption DEF OwnInv, SerialInv, BoundsInv, WindowOK, Packets
  <2> QED BY <1>1, <2>1, <2>2, SeqNumType, ReceiveOwn
<1>3. CASE Bar
  <2>1. SeqNum(lo) \in SeqNums
    BY SeqNumType DEF OwnInv, SerialInv, BoundsInv, WindowOK
  <2> QED BY <1>1, <1>3, <2>1, ReceiveOwn DEF Bar
<1>4. CASE PeerMoves \/ HostSleep \/ UNCHANGED vars
  BY <1>1, <1>4 DEF PeerMoves, HostSleep, vars, table, record, OwnInv, HandInv, TearDown, Owned, Full
<1> QED BY <1>1, <1>2, <1>3, <1>4, LoopsOwn, StoreOwn, ScanEndOwn, FlushOwn, ManagerOwn DEF Next

(* Until a race, no packet is handed on twice, overwritten in its slot or  *)
(* forgotten, whatever tears the stream down and wherever the timer        *)
(* flushes the window between two slots of a task.                         *)
THEOREM OwnedUntilRace == Spec => []OwnedOnce
<1> DEFINE Inv == clash = "race" \/ OwnInv
<1>1. Init => Inv
  BY OwnInit
<1>2. Inv /\ [Next]_vars => Inv'
  BY OwnNext, ClashGrows
<1>3. Inv => OwnedOnce
  BY DEF OwnInv, Owned, OwnedOnce
<1> QED BY <1>1, <1>2, <1>3, PTL DEF Spec

-----------------------------------------------------------------------------
(* The order of delivery until the first interruption, as long as the      *)
(* sequence numbers do not wrap (the run rx_wrap shows what happens when   *)
(* they do) and nothing else than the peer moves the window                *)
BeforeWrap == Events \subseteq {"bar"} /\ Ssn <= Last /\ Last + 2 * W < M

(* Nothing kept back is ahead of the peer's window, *)
Near ==
    /\ \A i \in Full : slots[i] < lo + W
    /\ rx.pkt # None => rx.pkt < lo + W
    /\ rx.pc = "until" => start < rx.new /\ rx.new <= lo + W /\ rx.new <= Last + 2
    /\ rx.pc # "until" => start + rx.i <= lo + W /\ start + rx.i <= Last + 2
    /\ start <= Last + 2 /\ lo <= Last + 1

(* and the window has not moved before it is in step. *)
Unsynced ==
    sync.check =>
        /\ top = -1
        /\ sync.last \in {NoSeq, M - 1} \/ (sync.last < lo + W /\ sync.last <= Last + 1)

(* What left the buffer lies before the slot that is next. *)
OrderInv ==
    /\ OwnInv /\ Near /\ Unsynced
    /\ clash = "none" /\ up /\ mgr = Idle /\ ~nodrop
    /\ ordered = TRUE
    /\ top \in Int /\ top < start + rx.i

LEMMA DeliverOne ==
    ASSUME clash' = "none", NEW p \in Int, NEW k \in Int, top \in Int, top < p, ordered = TRUE,
           Deliver([j \in {k} |-> p], {k})
    PROVE  ordered' = TRUE /\ top' = p
<1> DEFINE f == [j \in {k} |-> p]
           S == {f[i] : i \in {k}} \cup {top}
           Highest(x) == \A i \in {k} : f[i] <= x /\ top <= x
<1>1. f[k] = p /\ S = {p, top} /\ \A i \in {k} : i = k
  OBVIOUS
<1>2. ordered' = TRUE
  <2>1. \A i \in {k} : f[i] > top /\ \A j \in {k} : i < j => f[i] < f[j]
    BY <1>1
  <2> QED BY <2>1 DEF Deliver
<1>3. top' = CHOOSE x \in S : Highest(x)
  BY DEF Deliver
<1>4. p \in S /\ Highest(p)
  BY <1>1
<1>5. top' \in S /\ Highest(top')
  BY <1>3, <1>4
<1>6. top' >= p
  BY <1>1, <1>5
<1>7. top' = p
  BY <1>1, <1>5, <1>6
<1> QED BY <1>2, <1>7

(* Before the numbers wrap, a slot holds the packet of its place itself. *)
LEMMA SlotHolds ==
    ASSUME BeforeWrap, SerialInv, clash = "none", start <= Last + 2, NEW i \in Full
    PROVE  slots[i] = start + i /\ slots[i] \in Packets
<1>1. i \in Index /\ slots[i] \in Packets
  BY DEF Full, SerialInv, BoundsInv, WindowOK
<1>2. SeqNum(slots[i]) = slots[i]
  BY <1>1, PacketAssumption, SizeAssumption DEF Packets, SeqNum, BeforeWrap
<1>3. Wrap(start + i) = start + i
  BY <1>1, PacketAssumption, SizeAssumption
  DEF Wrap, Index, BeforeWrap, SerialInv, BoundsInv, WindowOK
<1> QED BY <1>1, <1>2, <1>3 DEF SerialInv, InPlace, Matches

LEMMA OrderInit == ASSUME BeforeWrap, Init PROVE OrderInv
<1>1. Full = {}
  BY DEF Init, Full
<1>2. start = Ssn /\ lo = Ssn /\ SeqNum(Ssn) = Ssn
  BY PacketAssumption, SizeAssumption DEF Init, SeqNum, BeforeWrap
<1>3. sync.last \in {NoSeq, M - 1} \/ (sync.last < lo + W /\ sync.last <= Last + 1)
  <2>1. Ssn > 0 => SeqNum(Ssn + M - 1) = Ssn - 1
    BY PacketAssumption, SizeAssumption DEF SeqNum, BeforeWrap
  <2>2. Ssn = 0 => SeqNum(Ssn + M - 1) = M - 1
    BY PacketAssumption, SizeAssumption DEF SeqNum, BeforeWrap
  <2> QED BY <1>2, <2>1, <2>2, PacketAssumption, SizeAssumption DEF Init, BeforeWrap
<1>4. Near
  BY <1>1, <1>2, IdleOK, PacketAssumption, SizeAssumption DEF Init, Near, BeforeWrap
<1>5. top < start + rx.i
  BY <1>2, IdleOK, PacketAssumption DEF Init
<1> QED BY <1>3, <1>4, <1>5, OwnInit, IdleOK DEF Init, OrderInv, Unsynced

(* The window a packet is compared with reaches no further than the peer's. *)
LEMMA FirstNear ==
    ASSUME BeforeWrap, OrderInv, rx = Idle, NEW n \in SeqNums, sync.check
    PROVE  LET first == Resynced(start, sync.last, n)
           IN  first \in Nat /\ first <= lo + W /\ first <= Last + 2
<1>1. /\ start \in Nat /\ start <= lo + W /\ start <= Last + 2
      /\ sync.last \in {NoSeq, M - 1} \/ (sync.last < lo + W /\ sync.last <= Last + 1)
      /\ sync.last \in SeqNums \cup {NoSeq} /\ lo \in Nat
  BY IdleOK, SizeAssumption
  DEF OrderInv, OwnInv, SerialInv, BoundsInv, WindowOK, Near, Unsynced
<1>2. CASE sync.last = NoSeq
  BY <1>1, <1>2 DEF Resynced
<1>3. CASE sync.last = M - 1
  BY <1>1, <1>3, SizeAssumption, PacketAssumption
  DEF Resynced, EndWin, Wrap, SeqNums, BeforeWrap
<1>4. CASE sync.last < lo + W /\ sync.last <= Last + 1 /\ sync.last \in SeqNums
  BY <1>1, <1>4, SizeAssumption, PacketAssumption DEF Resynced, SeqNums
<1> QED BY <1>1, <1>2, <1>3, <1>4

LEMMA ReceiveOrder ==
    ASSUME BeforeWrap, OrderInv, clash' = "none", OwnInv', NEW n \in lo..(lo + W - 1), n <= Last + 1,
           NEW pkt \in Packets \cup {None}, pkt = None => n = lo, pkt # None => n = pkt,
           Receive(n, pkt)
    PROVE  OrderInv'
<1> USE DEF Receive
<1>0. /\ rx = Idle /\ mgr' = Idle /\ slots' = slots /\ Full' = Full /\ up' = up /\ lo' = lo
      /\ top' = top /\ ordered' = ordered /\ lo \in Nat /\ n \in Nat /\ n < M /\ n \in SeqNums
      /\ rx.i = 0 /\ up /\ start \in Nat /\ lo <= Last + 1
  BY IdleOK, SizeAssumption, PacketAssumption
  DEF Full, OrderInv, OwnInv, SerialInv, BoundsInv, WindowOK, BeforeWrap, SeqNums, Near
<1>1. CASE rx' = rx /\ start' = start /\ nodrop' = nodrop /\ Unsynced'
  BY <1>0, <1>1 DEF OrderInv, Near
<1>2. CASE PassBy(n)
  <2>1. sync'.check = sync.check /\ sync'.last = n
    BY <1>2 DEF PassBy, OrderInv, OwnInv, SerialInv, BoundsInv, WindowOK
  <2>2. Unsynced'
    BY <1>0, <2>1, SizeAssumption DEF Unsynced, OrderInv
  <2> QED BY <1>1, <1>2, <2>2 DEF PassBy
<1>3. CASE Reorder(n, pkt)
  <2> DEFINE first == IF sync.check /\ n # start THEN Resynced(start, sync.last, n) ELSE start
             end == IF pkt = None THEN Wrap(n + W - 1) ELSE n
             next == IF pkt = None THEN "scan" ELSE "store"
  <2>1. start' = first /\ nodrop' = FALSE /\ sync'.check = FALSE
    BY <1>3 DEF Reorder, OrderInv, OwnInv, SerialInv, BoundsInv, WindowOK
  <2>2. first \in Nat /\ first <= lo + W /\ first <= Last + 2
    BY <1>0, FirstNear, IdleOK DEF OrderInv, Near
  <2>3. top \in Int /\ top < first
    <3>1. CASE first = start
      BY <1>0, <3>1 DEF OrderInv
    <3>2. CASE sync.check
      BY <2>2, <3>2 DEF OrderInv, Unsynced
    <3> QED BY <3>1, <3>2
  <2>4. \A i \in Full : slots[i] < lo + W
    BY DEF OrderInv, Near
  <2>5. CASE rx' = rx
    BY <1>0, <2>1, <2>2, <2>3, <2>4, <2>5, IdleOK DEF OrderInv, Near, Unsynced
  <2>6. CASE ~TooOld(first, n) /\ rx' = IF Outside(first, end) THEN Until(first, NewStart(end), next, pkt)
                                                              ELSE At(next, first, pkt)
    <3> HIDE DEF first
    <3>1. first <= n
      BY <1>0, <2>2, <2>6, SizeAssumption, PacketAssumption DEF TooOld, Wrap, BeforeWrap
    <3>2. end \in Nat /\ end < M /\ end - W + 1 <= n /\ (pkt = None => end = n + W - 1)
      BY <1>0, SizeAssumption, PacketAssumption DEF Wrap, BeforeWrap
    <3>3. pkt # None => pkt < lo + W
      BY <1>0, SizeAssumption
    <3>4. CASE Outside(first, end)
      <4>1. EndWin(first) = first + W - 1
        BY <2>2, SizeAssumption, PacketAssumption DEF EndWin, Wrap, BeforeWrap
      <4>2. end > first + W - 1
        BY <2>2, <3>1, <3>2, <3>4, <4>1, SizeAssumption DEF Outside
      <4>3. NewStart(end) = end - W + 1
        BY <2>2, <3>2, <4>2, SizeAssumption DEF NewStart
      <4>4. /\ rx'.pc = "until" /\ rx'.new = NewStart(end) /\ rx'.pkt = pkt /\ rx'.i = 0
        BY <2>6, <3>4 DEF Until
      <4>5. first < rx'.new /\ rx'.new <= lo + W /\ rx'.new <= Last + 2
        BY <1>0, <2>2, <3>2, <4>2, <4>3, <4>4, SizeAssumption, PacketAssumption
      <4> QED BY <1>0, <2>1, <2>2, <2>3, <2>4, <3>3, <4>4, <4>5 DEF OrderInv, Near, Unsynced
    <3>5. CASE ~Outside(first, end)
      <4>1. rx'.pc = next /\ rx'.pc # "until" /\ rx'.pkt = pkt /\ rx'.i = 0
        BY <2>6, <3>5 DEF At
      <4> QED BY <1>0, <2>1, <2>2, <2>3, <2>4, <3>3, <4>1 DEF OrderInv, Near, Unsynced
    <3> QED BY <3>4, <3>5
  <2> HIDE DEF first, end, next
  <2>7. \/ rx' = rx
        \/ /\ ~TooOld(first, n)
           /\ rx' = IF Outside(first, end) THEN Until(first, NewStart(end), next, pkt)
                                           ELSE At(next, first, pkt)
    BY <1>3 DEF Reorder, OrderInv, first, end, next
  <2> QED BY <2>5, <2>6, <2>7
<1> QED BY <1>0, <1>2, <1>3

LEMMA LoopOrder == ASSUME BeforeWrap, OrderInv, clash' = "none", OwnInv', RxLoop PROVE OrderInv'
<1>0. /\ mgr' = mgr /\ lo' = lo /\ Loop(rx, rx') /\ rx.pc \in {"until", "scan"}
      /\ rx \in Tasks /\ start \in Nat /\ lo \in Nat /\ rx.i \in Nat /\ top \in Int
      /\ start <= Last + 2 /\ sync.check = FALSE /\ slots \in [Index -> Packets \cup {None}]
  BY Looping, IdleOK
  DEF RxLoop, OrderInv, OwnInv, SerialInv, InStep, BoundsInv, WindowOK, TaskOK, Tasks, Near
<1>1. CASE Take(rx, rx')
  <2>1. /\ UNCHANGED <<table, record>> /\ rx'.pc = rx.pc /\ rx'.i = rx.i /\ rx'.pkt = rx.pkt
        /\ rx'.new = rx.new
    BY <1>0, <1>1 DEF Take, Tasks
  <2> QED BY <1>0, <2>1 DEF OrderInv, Near, Unsynced, table, record, Full
<1>2. CASE Skip(rx, rx')
  <2>1. /\ UNCHANGED <<table, record>> /\ rx'.pc = "until" /\ rx.pc = "until" /\ rx'.i = rx.i + 1
        /\ rx'.pkt = rx.pkt /\ rx'.new = rx.new
    BY <1>0, <1>2 DEF Skip, Tasks, More
  <2> QED BY <1>0, <2>1 DEF OrderInv, Near, Unsynced, table, record, Full
<1>3. CASE Clear(rx, rx')
  <2>1. /\ slots' = [slots EXCEPT ![rx.i] = None] /\ start' = start /\ rx'.pc = rx.pc
        /\ rx'.i = rx.i + 1 /\ rx'.pkt = rx.pkt /\ rx'.new = rx.new /\ sync' = sync /\ up' = up
        /\ nodrop' = nodrop
    BY <1>0, <1>3 DEF Clear, Tasks
  <2>2. rx.i \in Full /\ slots[rx.i] = rx.buf
    BY <1>0, <1>3, SizeAssumption, SMTT(20)
    DEF Clear, OrderInv, OwnInv, HandInv, SerialInv, BoundsInv, TaskOK, Tasks, Full, Index
  <2>3. rx.buf = start + rx.i /\ rx.buf \in Packets /\ rx.buf < lo + W
    BY <1>0, <2>2, SlotHolds DEF OrderInv, OwnInv, Near
  <2>4. ordered' = TRUE /\ top' = start + rx.i
    <3>1. rx.buf \in Int /\ rx.i \in Int /\ top < rx.buf /\ ordered = TRUE
      BY <1>0, <2>3 DEF OrderInv
    <3>2. Deliver([j \in {rx.i} |-> rx.buf], {rx.i})
      BY <1>3 DEF Clear
    <3> QED BY <1>0, <2>3, <3>1, <3>2, DeliverOne
  <2>5. \A i \in Full' : i \in Full /\ slots'[i] = slots[i]
    BY <1>0, <2>1, <2>2 DEF Full
  <2>6. start + rx'.i <= lo + W /\ start + rx'.i <= Last + 2
    BY <1>0, <2>1, <2>3, SizeAssumption, PacketAssumption DEF Packets
  <2>7. Near'
    BY <1>0, <2>1, <2>5, <2>6 DEF OrderInv, Near
  <2> QED BY <1>0, <2>1, <2>4, <2>7 DEF OrderInv, Unsynced
<1>4. CASE UntilEnd(rx, rx')
  <2>1. /\ rx.pc = "until" /\ slots' = Shifted(rx.n) /\ start' = rx.new /\ UNCHANGED record
        /\ rx.i = rx.n /\ rx.n = ToSend(start, rx.new) /\ sync' = sync /\ up' = up /\ nodrop' = nodrop
        /\ \A k \in Index : k < rx.n => slots[k] = None
    BY <1>4 DEF UntilEnd, OrderInv, OwnInv, SerialInv, LoopOK, InPlace, Aims
  <2>2. rx.new \in Nat /\ start < rx.new /\ rx.new <= lo + W /\ rx.new <= Last + 2
    BY <1>0, <2>1, SizeAssumption DEF OrderInv, Near, Tasks
  <2>3. start + rx.n <= rx.new
    BY <1>0, <2>1, <2>2, SizeAssumption DEF ToSend
  <2>4. rx'.pc # "until" /\ rx'.i = 0 /\ (rx'.pkt # None => rx'.pkt = rx.pkt)
    BY <1>0, <1>4 DEF UntilEnd, At, Idle, Tasks
  <2>5. rx.n \in 1..W
    BY <1>0, <2>1, ToSendType DEF Tasks, OrderInv, OwnInv, SerialInv, BoundsInv, WindowOK
  <2>6. \A i \in Index : slots'[i] = IF i + rx.n \in Index THEN slots[i + rx.n] ELSE None
    BY <2>1, <2>5, ShiftedEmpty DEF OrderInv, OwnInv, SerialInv, BoundsInv
  <2>7. \A i \in Full' : i + rx.n \in Full /\ slots'[i] = slots[i + rx.n]
    BY <2>6 DEF Full
  <2>8. Near'
    BY <1>0, <2>1, <2>2, <2>4, <2>7 DEF OrderInv, Near
  <2> QED BY <1>0, <2>1, <2>2, <2>3, <2>4, <2>8 DEF OrderInv, Unsynced, record
<1> QED BY <1>0, <1>1, <1>2, <1>3, <1>4 DEF Loop

LEMMA StoreOrder == ASSUME BeforeWrap, OrderInv, clash' = "none", OwnInv', Store PROVE OrderInv'
<1> DEFINE k == Slot(rx.new, SeqNum(rx.pkt))
<1>1. /\ UNCHANGED <<mgr, lo, up, sync, nodrop, start, top, ordered>> /\ rx.pc = "store" /\ rx.i = 0
      /\ k \in Index /\ rx.pkt \in Packets /\ rx.pkt # None /\ rx.pkt < lo + W
  BY PacketAssumption
  DEF Store, OrderInv, OwnInv, SerialInv, LoopOK, BoundsInv, HandOK, Near, Packets
<1>2. CASE slots[k] # None
  <2>1. slots' = slots /\ Full' = Full /\ rx' = Idle
    BY <1>2 DEF Store, Done, Full
  <2> QED BY <1>1, <2>1, IdleOK DEF OrderInv, Near, Unsynced
<1>3. CASE slots[k] = None
  <2>1. rx'.pc = "scan" /\ rx'.i = 0 /\ rx'.pkt = None
    BY <1>1, <1>3 DEF Store, OrderInv, OwnInv, SerialInv, BoundsInv, TaskOK, Tasks
  <2>2. \A i \in Full' : slots'[i] = rx.pkt \/ (i \in Full /\ slots'[i] = slots[i])
    BY <1>1, <1>3 DEF Store, Full, OrderInv, OwnInv, SerialInv, BoundsInv, WindowOK
  <2>3. Near'
    BY <1>1, <2>1, <2>2 DEF OrderInv, Near
  <2> QED BY <1>1, <2>1, <2>3 DEF OrderInv, Unsynced
<1> QED BY <1>2, <1>3

LEMMA ScanEndOrder == ASSUME BeforeWrap, OrderInv, clash' = "none", OwnInv', ScanEnd PROVE OrderInv'
<1>1. /\ UNCHANGED <<mgr, lo, up, sync, nodrop, record>> /\ rx.pc = "scan" /\ rx' = Idle
      /\ rx.i \in 0..W /\ start \in Nat /\ start + rx.i <= lo + W /\ start + rx.i <= Last + 2
      /\ rx # Idle
  BY SizeAssumption, IdleOK
  DEF ScanEnd, Done, OrderInv, OwnInv, SerialInv, BoundsInv, WindowOK, TaskOK, Tasks, Near
<1>2. start' = start + rx.i
  BY <1>1, SizeAssumption, PacketAssumption DEF ScanEnd, Wrap, BeforeWrap
<1>3. \A i \in Full' : \E j \in Full : slots'[i] = slots[j]
  <2>1. CASE rx.i = 0
    BY <2>1 DEF ScanEnd, Full
  <2>2. CASE rx.i > 0
    <3>1. rx.i \in 1..W /\ \A k \in Index : k < rx.i => slots[k] = None
      BY <1>1, <2>2, SizeAssumption DEF OrderInv, OwnInv, SerialInv, LoopOK
    <3>2. \A i \in Index : slots'[i] = IF i + rx.i \in Index THEN slots[i + rx.i] ELSE None
      BY <2>2, <3>1, ShiftedEmpty DEF ScanEnd, OrderInv, OwnInv, SerialInv, BoundsInv
    <3> QED BY <3>2 DEF Full
  <2> QED BY <1>1, <2>1, <2>2, SizeAssumption
<1>4. Near'
  BY <1>1, <1>2, <1>3, IdleOK DEF OrderInv, Near
<1>5. sync.check = FALSE
  BY <1>1 DEF OrderInv, OwnInv, SerialInv, InStep, BoundsInv, WindowOK
<1> QED BY <1>1, <1>2, <1>4, <1>5, IdleOK DEF OrderInv, Unsynced, record

LEMMA FlushOrder == ASSUME BeforeWrap, OrderInv, clash' = "none", OwnInv', Flush PROVE OrderInv'
<1>1. /\ rx = Idle /\ UNCHANGED <<mgr, rx, lo, up, sync, nodrop>> /\ start \in Nat /\ lo \in Nat
      /\ top \in Int /\ top < start /\ start <= Last + 2 /\ start <= lo + W
  <2>1. rx = Idle /\ mgr = Idle
    BY FlushTurn DEF Quiet
  <2> QED BY <2>1, IdleOK, SizeAssumption
          DEF Flush, OrderInv, OwnInv, SerialInv, BoundsInv, WindowOK, Near
<1>2. CASE Full = {}
  <2>1. UNCHANGED <<slots, start, record>> /\ Full' = Full
    BY <1>2 DEF Flush, Full
  <2> QED BY <1>1, <2>1 DEF OrderInv, Near, Unsynced, record
<1>3. CASE Full # {}
  <2>0. PICK last \in Full :
           LET new == Wrap(start + last + 1)
               n == ToSend(start, new) IN
           /\ \A j \in Full : j <= last
           /\ Deliver(slots, {i \in Full : i < n})
           /\ slots' = [i \in Index |-> IF i + n \in Index THEN slots[i + n] ELSE None]
           /\ start' = new
    BY <1>3 DEF Flush
  <2>1. last \in Index /\ slots[last] = start + last /\ start + last <= Last /\ start + last < lo + W
    BY <1>1, <2>0, SlotHolds, PacketAssumption DEF Full, OrderInv, OwnInv, Near, Packets
  <2>2. Wrap(start + last + 1) = start + last + 1
    BY <1>1, <2>1, SizeAssumption, PacketAssumption DEF Wrap, BeforeWrap, Index
  <2>3. ToSend(start, start + last + 1) = last + 1
    BY <1>1, <2>1, SizeAssumption DEF ToSend, Index
  <2>4. Full = {i \in Full : i < last + 1}
    BY <2>0, <2>1, SizeAssumption DEF Full, Index
  <2>5. /\ Deliver(slots, Full) /\ start' = start + last + 1
        /\ slots' = [i \in Index |-> IF i + (last + 1) \in Index THEN slots[i + (last + 1)] ELSE None]
    BY <2>0, <2>2, <2>3, <2>4
  <2>6. \A i \in Full : slots[i] = start + i /\ i \in Nat /\ i <= last
    BY <1>1, <2>0, SlotHolds, SizeAssumption DEF Full, Index, OrderInv, OwnInv
  <2>7. ordered' = TRUE
    <3>1. \A i \in Full : slots[i] > top
      BY <1>1, <2>6
    <3>2. \A i \in Full : \A j \in Full : i < j => slots[i] < slots[j]
      BY <1>1, <2>6
    <3> QED BY <2>5, <3>1, <3>2 DEF Deliver, OrderInv
  <2>8. top' = start + last
    <3> DEFINE S == {slots[i] : i \in Full} \cup {top}
               Highest(x) == \A i \in Full : slots[i] <= x /\ top <= x
    <3>1. top' = CHOOSE x \in S : Highest(x)
      BY <2>5 DEF Deliver
    <3>2. slots[last] \in S /\ Highest(slots[last])
      BY <1>1, <2>0, <2>1, <2>6
    <3>3. top' \in S /\ Highest(top')
      BY <3>1, <3>2
    <3>4. top' >= slots[last] /\ (top' = top \/ \E i \in Full : top' = slots[i])
      BY <2>0, <3>3
    <3> QED BY <1>1, <2>1, <2>6, <3>4, SizeAssumption DEF Index
  <2>9. Full' = {}
    <3> SUFFICES ASSUME NEW i \in Index, i + (last + 1) \in Index, slots[i + (last + 1)] # None
                 PROVE  FALSE
      BY <2>5 DEF Full
    <3>1. i + (last + 1) \in Full
      BY DEF Full
    <3> QED BY <2>1, <2>6, <3>1, SizeAssumption DEF Index
  <2>10. Near'
    BY <1>1, <2>1, <2>5, <2>9, IdleOK, SizeAssumption, PacketAssumption DEF OrderInv, Near, Index
  <2>11. sync.check = FALSE
    BY <1>3 DEF OrderInv, OwnInv, SerialInv, InStep, BoundsInv, WindowOK
  <2> QED BY <1>1, <2>1, <2>5, <2>7, <2>8, <2>10, <2>11, IdleOK, SizeAssumption
          DEF OrderInv, Unsynced, Index
<1> QED BY <1>2, <1>3

LEMMA OrderNext == ASSUME BeforeWrap, OrderInv, clash' = "none", [Next]_vars PROVE OrderInv'
<1>1. OwnInv' /\ lo \in Nat
  BY OwnNext DEF OrderInv, OwnInv, BeforeWrap, SerialInv, BoundsInv, WindowOK
<1>2. CASE Arrive
  <2>1. PICK p \in lo..(lo + W - 1) : p <= Last /\ Receive(SeqNum(p), p)
    BY <1>2 DEF Arrive
  <2>2. p \in Packets /\ p # None
    BY <1>1, <2>1, PacketAssumption, SizeAssumption
    DEF OrderInv, OwnInv, SerialInv, BoundsInv, WindowOK, Packets
  <2>3. SeqNum(p) = p /\ p <= Last + 1
    BY <1>1, <2>1, PacketAssumption, SizeAssumption DEF SeqNum, BeforeWrap
  <2> QED BY <1>1, <2>1, <2>2, <2>3, ReceiveOrder
<1>3. CASE Bar
  <2>1. SeqNum(lo) = lo /\ lo <= Last + 1 /\ lo \in lo..(lo + W - 1)
    BY <1>1, PacketAssumption, SizeAssumption DEF SeqNum, BeforeWrap, OrderInv, Near
  <2> QED BY <1>1, <1>3, <2>1, ReceiveOrder DEF Bar
<1>4. CASE PeerMoves
  <2>1. /\ lo' = lo + 1 /\ lo <= Last
        /\ UNCHANGED <<up, start, slots, sync, nodrop, rx, mgr, top, ordered, Full>>
    BY <1>4 DEF PeerMoves, table, record, Full
  <2>2. /\ start \in Int /\ rx.i \in Int /\ rx.new \in Int /\ (sync.last \in Int \/ sync.last = NoSeq)
        /\ \A i \in Full : slots[i] \in Int
        /\ rx.pkt # None => rx.pkt \in Int
    BY SizeAssumption
    DEF OrderInv, OwnInv, SerialInv, BoundsInv, WindowOK, TaskOK, Tasks, Full, Packets, SeqNums
  <2>3. Near'
    BY <1>1, <2>1, <2>2, SizeAssumption, PacketAssumption DEF OrderInv, Near
  <2>4. Unsynced'
    BY <1>1, <2>1, <2>2, SizeAssumption, PacketAssumption DEF OrderInv, Unsynced
  <2> QED BY <1>1, <2>1, <2>3, <2>4 DEF OrderInv
<1>5. CASE UNCHANGED vars
  BY <1>1, <1>5 DEF vars, table, record, OrderInv, Near, Unsynced, Full
<1>6. ~HostSleep /\ ~AddBa /\ ~Delba
  BY DEF HostSleep, AddBa, Delba, BeforeWrap
<1>7. ~Unlink /\ ~MgrLoop
  BY Looping, IdleOK DEF Unlink, MgrLoop, OrderInv, OwnInv, SerialInv
<1> QED BY <1>1, <1>2, <1>3, <1>4, <1>5, <1>6, <1>7, LoopOrder, StoreOrder, ScanEndOrder,
           FlushOrder DEF Next

(* Until the sequence numbers wrap or a task is interrupted in the middle  *)
(* of a call, the packets of a stream that stays set up leave the buffer   *)
(* in the peer's order, each one once: whatever is lost, repeated or given *)
(* up, and however often the timer flushes.                                *)
THEOREM OrderedBeforeWrap == ASSUME BeforeWrap PROVE Spec => []InOrder
<1> DEFINE Inv == clash # "none" \/ OrderInv
<1>1. Init => Inv
  BY OrderInit
<1>2. Inv /\ [Next]_vars => Inv'
  BY OrderNext, ClashGrows
<1>3. Inv => InOrder
  BY DEF OrderInv, InOrder
<1> QED BY <1>1, <1>2, <1>3, PTL DEF Spec
=============================================================================

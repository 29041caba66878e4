------------------------------ MODULE RxReorder ------------------------------
(***************************************************************************)
(* Receive reordering of 802.11n block-ack streams (wifidriver/            *)
(* mlan_11n_rxreorder.c), for one stream.  Packets are buffered in a       *)
(* window of W slots that starts at sequence number start; holes hold the  *)
(* later ones back until they are filled, the window moves on, or a timer  *)
(* flushes the buffer.                                                     *)
(*                                                                         *)
(* Three tasks work on the table: "rx", the stack dispatcher, receives     *)
(* packets; "mgr", the connection manager of lower priority, sets streams  *)
(* up and tears them down; the timer task has the highest priority.  The   *)
(* locks around each access (rx_pkt_lock) do nothing: mlan_glue.c, line    *)
(* 267.  So the timer interrupts the other two at any slot, and "rx"       *)
(* interrupts "mgr" there; clash remembers it.  The rotation of the window *)
(* behind a loop is one step: an interruption inside it is not modelled.   *)
(*                                                                         *)
(* The peer (external) numbers its packets from Ssn on and sends those of  *)
(* a window of W packets, in any order, repeating some and giving up some. *)
(***************************************************************************)
EXTENDS Integers, FiniteSets

CONSTANTS
    M,       \* MAX_TID_VALUE, the number of sequence numbers
    W,       \* win_size
    Ssn,     \* number of the peer's first packet
    Last,    \* bound: number of its last one
    None,    \* no packet
    Events   \* what happens beside packets: "bar", "addba", "delba", "sleep"

ASSUME SizeAssumption == M \in Nat /\ W \in Nat /\ 2 <= W /\ 2 * W <= M
ASSUME PacketAssumption == Ssn \in Nat /\ Last \in Nat /\ None \notin Int
ASSUME EventAssumption == Events \subseteq {"bar", "addba", "delba", "sleep"}

VARIABLES
    up,      \* the stream has a reorder table
    start,   \* start_win
    slots,   \* rx_reorder_ptr
    sync,    \* check_start_win, pkt_count and last_seq
    nodrop,  \* force_no_drop
    timer,   \* the flush timer runs (timer_is_set)
    seen,    \* priv->rx_seq of the traffic class
    rx, mgr, \* where the two tasks are, and their local variables
    lo,      \* the peer's oldest packet
    live,    \* history: packets kept back, neither handed on nor freed
    top,     \* history: highest packet that left the buffer
    ordered, \* history: each packet that left it was higher than those before
    clash    \* history: how tasks have interrupted one another

table  == <<up, start, slots, sync, nodrop, timer, seen>>
record == <<live, top, ordered>>
vars   == <<table, rx, mgr, lo, record, clash>>

NoSeq == 2 * M  \* DEFAULT_SEQ_NUM, equal to no sequence number
Index == 0..(W - 1)
Packets == Ssn..Last
SeqNum(p) == p % M

(* x & (MAX_TID_VALUE - 1), for the sums of the code *)
Wrap(x) == IF x >= M THEN x - M ELSE x

-----------------------------------------------------------------------------
(* Window arithmetic of mlan_11n_rxreorder_pkt *)
EndWin(s) == Wrap(s + W - 1)

(* dropped as older than the window *)
TooOld(s, n) ==
    IF s + M \div 2 > M - 1
    THEN Wrap(s + M \div 2) <= n /\ n < s
    ELSE n < s \/ n > s + M \div 2

Outside(s, n) ==
    \/ EndWin(s) < s /\ n < s /\ n > EndWin(s)
    \/ EndWin(s) > s /\ (n > EndWin(s) \/ n < s)

(* Mutant: one too far *)
MutNewStart(n) == IF n - W >= 0 THEN n - W ELSE M - (W - n)

(* the window that ends with n *)
NewStart(n) == IF n - W + 1 >= 0 THEN n - W + 1 ELSE M - (W - n) + 1

Slot(s, n) == IF n >= s THEN n - s ELSE n + M - s

(* number of slots that wlan_11n_dispatch_pkt_until_start_win empties *)
ToSend(s, new) == IF new > s THEN IF new - s < W THEN new - s ELSE W ELSE W

(* after so many packets that do not start the window, it starts behind    *)
(* the last one, when that lies in the window or before it                 *)
Resynced(s, last, n) ==
    LET end == EndWin(s) IN
    IF last # NoSeq
       /\ (\/ end > s /\ last >= s /\ last < end
           \/ end < s /\ (last >= s \/ last < end)
           \/ n < s /\ n > last)
    THEN last + 1 ELSE s

-----------------------------------------------------------------------------
(* A task empties the first n slots (pc "until") or the slots up to a hole *)
(* ("scan"), then moves the window to new and goes to then.                *)
Idle == [pc |-> "idle", then |-> "idle", pkt |-> None, new |-> 0, n |-> 0, i |-> 0, buf |-> None]

Until(s, new, then, pkt) ==
    [pc |-> "until", then |-> then, pkt |-> pkt, new |-> new, n |-> ToSend(s, new), i |-> 0, buf |-> None]

At(pc, new, pkt) ==
    [pc |-> pc, then |-> "idle", pkt |-> pkt, new |-> new, n |-> 0, i |-> 0, buf |-> None]

Quiet == rx = Idle /\ mgr = Idle

(* Interruptions: "none" while every task has found the others between two *)
(* calls; "flush" when the timer has flushed the window between two slots  *)
(* of a loop; "race" when it has done so between the read of a slot and    *)
(* its clearing, or a packet was received while a loop of the connection   *)
(* manager was under way.                                                  *)
Worse(c) == IF clash = "race" THEN clash ELSE c

Init ==
    /\ up = TRUE /\ start = SeqNum(Ssn) /\ slots = [i \in Index |-> None]
    /\ seen \in {NoSeq, SeqNum(Ssn + M - 1)}
    /\ sync = [check |-> TRUE, count |-> 0, last |-> seen]
    /\ nodrop = FALSE /\ timer = FALSE
    /\ rx = Idle /\ mgr = Idle
    /\ lo = Ssn
    /\ live = 0 /\ top = -1 /\ ordered = TRUE
    /\ clash = "none"

(* The count of packets kept back, -1 when more or fewer than there can be *)
Count(x) == IF clash' = "race" THEN 0 ELSE IF x \in 0..(W + 1) THEN x ELSE -1

Full == {i \in Index : slots[i] # None}

(* The packets f[i], i in D, are handed on in the order of the indices.    *)
(* The histories end where the properties about them do.                   *)
Deliver(f, D) ==
    /\ live' = Count(live - Cardinality(D))
    /\ IF clash' = "none"
       THEN /\ ordered' = (ordered /\ \A i \in D : f[i] > top /\ \A j \in D : i < j => f[i] < f[j])
            /\ top' = CHOOSE x \in {f[i] : i \in D} \cup {top} :
                          \A i \in D : f[i] <= x /\ top <= x
       ELSE top' = -1 /\ ordered' = FALSE

(* Mutant: the slots that are moved are not emptied *)
MutShifted(n) == [i \in Index |-> IF i + n \in Index THEN slots[i + n] ELSE slots[i]]

(* the rotation by n slots, n > 0 *)
Shifted(n) ==
    [i \in Index |-> IF i + n \in Index THEN slots[i + n] ELSE IF i >= n THEN None ELSE slots[i]]

-----------------------------------------------------------------------------
(* mlan_11n_rxreorder_pkt for sequence number n; pkt is the data packet,   *)
(* None for a block-ack request.                                           *)

(* The stream's first packets did not start the window yet. *)
OutOfStep(n) == sync.check /\ n # start /\ sync.count + 1 < W \div 2

(* They pass by the buffer. *)
PassBy(n) ==
    /\ OutOfStep(n)
    /\ sync' = [sync EXCEPT !.count = @ + 1, !.last = n]
    /\ UNCHANGED <<start, nodrop, timer, rx, live>>

(* Mutant: packets older than the window are kept *)
MutReorder(n, pkt) ==
    LET first == IF sync.check /\ n # start THEN Resynced(start, sync.last, n) ELSE start
        end == IF pkt = None THEN Wrap(n + W - 1) ELSE n
        next == IF pkt = None THEN "scan" ELSE "store"
    IN
    /\ sync' = [sync EXCEPT !.check = FALSE]
    /\ start' = first /\ nodrop' = FALSE
    /\ live' = IF pkt = None THEN live ELSE Count(live + 1)
    /\ rx' = IF Outside(first, end) THEN Until(first, NewStart(end), next, pkt)
                                    ELSE At(next, first, pkt)
    /\ UNCHANGED timer

Reorder(n, pkt) ==
    LET first == IF sync.check /\ n # start THEN Resynced(start, sync.last, n) ELSE start
        end == IF pkt = None THEN Wrap(n + W - 1) ELSE n
        next == IF pkt = None THEN "scan" ELSE "store"
    IN
    /\ ~OutOfStep(n)
    /\ sync' = [sync EXCEPT !.check = FALSE]
    /\ start' = first /\ nodrop' = FALSE
    /\ IF ~nodrop /\ TooOld(first, n)
       THEN timer' = TRUE /\ UNCHANGED <<rx, live>>
       ELSE /\ live' = IF pkt = None THEN live ELSE Count(live + 1)
            /\ rx' = IF Outside(first, end) THEN Until(first, NewStart(end), next, pkt)
                                            ELSE At(next, first, pkt)
            /\ UNCHANGED timer

Receive(n, pkt) ==
    /\ rx = Idle
    /\ clash' = IF mgr = Idle THEN clash ELSE "race"
    /\ IF up THEN PassBy(n) \/ Reorder(n, pkt)
             ELSE UNCHANGED <<sync, start, nodrop, timer, rx, live>>
    /\ UNCHANGED <<up, slots, mgr, lo, top, ordered>>

(* A packet of the peer's window arrives. *)
Arrive ==
    \E p \in lo..(lo + W - 1) :
        p <= Last /\ seen' = SeqNum(p) /\ Receive(SeqNum(p), p)

(* The peer says that it will repeat no packet below lo. *)
Bar == "bar" \in Events /\ seen' = seen /\ Receive(SeqNum(lo), None)

(* The peer's oldest packet was acknowledged or given up. *)
PeerMoves ==
    /\ lo <= Last /\ lo' = lo + 1
    /\ UNCHANGED <<table, rx, mgr, record, clash>>

(* The host sleeps: the next packet is kept, however old. *)
HostSleep ==
    /\ "sleep" \in Events /\ up /\ rx = Idle /\ ~nodrop
    /\ nodrop' = TRUE
    /\ UNCHANGED <<up, start, slots, sync, timer, seen, rx, mgr, lo, record, clash>>

(* Mutant: a timer that is off stays off *)
MutDone == rx' = Idle /\ timer' = timer

(* "done:" the timer is restarted when it is off or the window has moved. *)
Done == rx' = Idle /\ timer' = TRUE

(* Mutant: the slot's packet is replaced *)
MutStore ==
    /\ rx.pc = "store"
    /\ slots' = [slots EXCEPT ![Slot(rx.new, SeqNum(rx.pkt))] = rx.pkt]
    /\ rx' = [rx EXCEPT !.pc = "scan", !.pkt = None]
    /\ UNCHANGED <<up, start, sync, nodrop, timer, seen, mgr, lo, record, clash>>

(* The packet goes into its slot; one that has a packet already frees it. *)
Store ==
    /\ rx.pc = "store" /\ clash' = clash
    /\ LET k == Slot(rx.new, SeqNum(rx.pkt)) IN
       IF slots[k] # None
       THEN Done /\ live' = Count(live - 1) /\ slots' = slots
       ELSE /\ slots' = [slots EXCEPT ![k] = rx.pkt]
            /\ rx' = [rx EXCEPT !.pc = "scan", !.pkt = None]
            /\ UNCHANGED <<timer, live>>
    /\ UNCHANGED <<up, start, sync, nodrop, seen, mgr, lo, top, ordered>>

-----------------------------------------------------------------------------
(* The dispatch loops, of a task in state t whose next state is t2 *)
More(t) == \/ t.pc = "until" /\ t.i < t.n
           \/ t.pc = "scan" /\ t.i < W /\ slots[t.i] # None

(* The slot is read, *)
Take(t, t2) ==
    /\ More(t) /\ t.buf = None /\ slots[t.i] # None
    /\ t2 = [t EXCEPT !.buf = slots[t.i]]
    /\ UNCHANGED <<table, record>>

Skip(t, t2) ==
    /\ More(t) /\ t.buf = None /\ slots[t.i] = None
    /\ t2 = [t EXCEPT !.i = @ + 1]
    /\ UNCHANGED <<table, record>>

(* then emptied, and its packet handed on. *)
Clear(t, t2) ==
    /\ t.buf # None
    /\ slots' = [slots EXCEPT ![t.i] = None]
    /\ Deliver([k \in {t.i} |-> t.buf], {t.i})
    /\ t2 = [t EXCEPT !.i = @ + 1, !.buf = None]
    /\ UNCHANGED <<up, start, sync, nodrop, timer, seen>>

(* wlan_11n_dispatch_pkt_until_start_win ends. *)
UntilEnd(t, t2) ==
    /\ t.pc = "until" /\ t.i = t.n /\ t.buf = None
    /\ slots' = Shifted(t.n) /\ start' = t.new
    /\ t2 = IF t.then = "idle" THEN Idle ELSE At(t.then, t.new, t.pkt)
    /\ UNCHANGED <<up, sync, nodrop, timer, seen, record>>

Loop(t, t2) == Take(t, t2) \/ Skip(t, t2) \/ Clear(t, t2) \/ UntilEnd(t, t2)

RxLoop == UNCHANGED <<mgr, lo, clash>> /\ Loop(rx, rx')

(* wlan_11n_scan_and_dispatch ends at a hole. *)
ScanEnd ==
    /\ rx.pc = "scan" /\ ~More(rx) /\ rx.buf = None
    /\ slots' = IF rx.i > 0 THEN Shifted(rx.i) ELSE slots
    /\ start' = Wrap(start + rx.i)
    /\ Done
    /\ UNCHANGED <<up, sync, nodrop, seen, mgr, lo, record, clash>>

(* wlan_flush_data: everything up to the highest packet is handed on. *)
Flush ==
    /\ timer /\ timer' = FALSE
    /\ clash' = IF rx.buf # None \/ mgr.buf # None THEN "race"
                ELSE IF Quiet THEN clash ELSE Worse("flush")
    /\ \/ Full = {} /\ UNCHANGED <<slots, start, record>>
       \/ \E last \in Full :
            LET new == Wrap(start + last + 1)
                n == ToSend(start, new)
            IN /\ \A j \in Full : j <= last
               /\ Deliver(slots, {i \in Full : i < n})
               /\ slots' = [i \in Index |-> IF i + n \in Index THEN slots[i + n] ELSE None]
               /\ start' = new
    /\ UNCHANGED <<up, sync, nodrop, seen, rx, mgr, lo>>

-----------------------------------------------------------------------------
(* The connection manager runs when the dispatcher waits. *)

(* wlan_11n_create_rxreorder_tbl, for a request that starts at the peer's  *)
(* oldest packet: a table that is there moves on, else one is made.        *)
AddBa ==
    /\ "addba" \in Events /\ Quiet
    /\ IF up THEN mgr' = Until(start, SeqNum(lo), "idle", None) /\ UNCHANGED table
             ELSE /\ up' = TRUE /\ start' = SeqNum(lo) /\ slots' = [i \in Index |-> None]
                  /\ sync' = [check |-> TRUE, count |-> 0, last |-> seen]
                  /\ nodrop' = FALSE /\ timer' = FALSE
                  /\ UNCHANGED <<mgr, seen>>
    /\ UNCHANGED <<rx, lo, record, clash>>

(* wlan_11n_delete_rxreorder_tbl_entry: the buffer is emptied, *)
Delba ==
    /\ "delba" \in Events /\ Quiet /\ up
    /\ mgr' = Until(start, Wrap(start + W), "unlink", None)
    /\ UNCHANGED <<table, rx, lo, record, clash>>

(* then the timer is freed, the table taken off the list and freed. *)
Unlink ==
    /\ mgr.pc = "unlink" /\ rx = Idle
    /\ mgr' = Idle /\ up' = FALSE /\ timer' = FALSE
    /\ slots' = [i \in Index |-> None]
    /\ UNCHANGED <<start, sync, nodrop, seen, rx, lo, record, clash>>

MgrLoop == rx = Idle /\ UNCHANGED <<rx, lo, clash>> /\ Loop(mgr, mgr')

Next ==
    \/ Arrive \/ Bar \/ PeerMoves \/ HostSleep
    \/ Store \/ RxLoop \/ ScanEnd
    \/ Flush
    \/ AddBa \/ Delba \/ Unlink \/ MgrLoop

Spec == Init /\ [][Next]_vars

(* A task that has work is scheduled, and a timer that runs expires: its   *)
(* task has the highest priority, so packets that keep arriving cannot put *)
(* it off.  The peer and the air promise nothing.                          *)
FairSpec ==
    Spec /\ WF_vars(Store \/ RxLoop \/ ScanEnd) /\ WF_vars(Unlink \/ MgrLoop) /\ SF_vars(Flush)

-----------------------------------------------------------------------------
(* A packet is stored inside the buffer, rx_reorder_ptr[0..win_size-1]:    *)
(* the window arithmetic of mlan_11n_rxreorder_pkt never leaves it, at the *)
(* wrap of the sequence numbers and after a resynchronisation too.         *)
StoreInBounds == rx.pc = "store" => Slot(rx.new, SeqNum(rx.pkt)) \in Index

(* Every packet that is kept back is in exactly one place, a slot or the   *)
(* dispatcher's hand: none is handed on twice, overwritten or forgotten,   *)
(* also when the timer flushes the window between two slots of a task's    *)
(* loop, or while the task is about to store a packet.  After a race it    *)
(* does not hold: the task hands on the packet that the timer has handed   *)
(* on already, or rotates a new packet out of the window.                  *)
OwnedOnce == clash # "race" => live = Cardinality(Full) + (IF rx.pkt # None THEN 1 ELSE 0)

(* Slot i holds the packet numbered start + i, whatever moves the window:  *)
(* else a duplicate or a hole would not be recognised.  It holds until the *)
(* first interruption: a flush between the choice of a slot and the store  *)
(* moves the window away under the packet.                                 *)
SlotsMatch == clash = "none" => \A i \in Full : SeqNum(slots[i]) = Wrap(start + i)

(* Packets leave the buffer in the peer's order, each one once ("will do   *)
(* the reordering if required before sending it to kernel"), until a task  *)
(* is interrupted in the middle of a call.                                 *)
InOrder == clash = "none" => ordered

(* A packet in the buffer does not stay there, though the peer may send    *)
(* nothing more: a hole is given up when the timer expires.                *)
HeldIsDelivered ==
    \A p \in Packets : (\E i \in Index : slots[i] = p) ~> (\A i \in Index : slots[i] # p)
=============================================================================

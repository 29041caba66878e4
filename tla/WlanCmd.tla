------------------------------ MODULE WlanCmd ------------------------------
(***************************************************************************)
(* Commands to the WLAN card: a caller builds a command under command_lock,*)
(* sends it and waits for command_resp_sem (wifidriver/wifi.c); the stack  *)
(* dispatcher reads what the card sends (wifi-sdio.c) and queues it; the   *)
(* driver's main loop handles answers and events and gives the semaphore.  *)
(* All answers are read into one buffer, and the handler writes what a     *)
(* caller asked for through the one pointer cmd_resp_priv.                 *)
(*                                                                         *)
(* Commands are numbered in the order in which they are sent; 0 stands for *)
(* no command.  The card (external) answers a command at any time, or      *)
(* never; it sends events at any time.                                     *)
(***************************************************************************)
EXTENDS Naturals, Sequences

CONSTANTS
    Callers,  \* tasks that send commands
    None,     \* no task
    QLen,     \* MAX_EVENTS, the length of io_events
    Last      \* bound: number of commands sent in a behaviour

ASSUME CallersAssumption == None \notin Callers
ASSUME NumbersAssumption == QLen \in Nat \ {0} /\ Last \in Nat

VARIABLES
    at,     \* at[c]: where caller c is
    num,    \* num[c]: its command
    wants,  \* wants[c]: it passes a pointer for the result
    ok,     \* ok[c]: the answer came in time
    lock,   \* owner of command_lock
    sem,    \* command_resp_sem can be taken
    priv,   \* cmd_resp_priv: the command whose caller it belongs to
    next,   \* number of the next command
    card,   \* commands the card has got and not answered
    disp,   \* the dispatcher has read an answer that it has not queued
    buf,    \* buffhuge: the command answered there
    queue,  \* io_events
    drv,    \* where the main loop is
    resp,   \* the answer it handles
    ptr,    \* the pointer it has found in cmd_resp_priv
    last,   \* history: the answer handled last
    late,   \* history: a call was given up that may still be answered
    kept    \* history: a call has returned with command_lock

caller == <<at, num, wants, ok>>
sync   == <<lock, sem, priv, next>>
loop   == <<drv, resp, ptr, last>>
slips  == <<late, kept>>
vars   == <<caller, sync, card, disp, buf, queue, loop, slips>>

Init ==
    /\ at = [c \in Callers |-> "out"] /\ num = [c \in Callers |-> 0]
    /\ wants = [c \in Callers |-> FALSE] /\ ok = [c \in Callers |-> FALSE]
    /\ lock = None /\ sem = FALSE /\ priv = 0 /\ next = 1
    /\ card = {} /\ disp = FALSE /\ buf = 0 /\ queue = <<>>
    /\ drv = "idle" /\ resp = 0 /\ ptr = 0 /\ last = 0
    /\ late = FALSE /\ kept = FALSE

Go(c, from, to) == at[c] = from /\ at' = [at EXCEPT ![c] = to]

-----------------------------------------------------------------------------
(* The callers *)

Call(c) ==
    /\ Go(c, "out", "call")
    /\ \E w \in BOOLEAN : wants' = [wants EXCEPT ![c] = w]
    /\ UNCHANGED <<num, ok, sync, card, disp, buf, queue, loop, slips>>

(* wifi_get_command_lock *)
Lock(c) ==
    /\ lock = None /\ lock' = c
    /\ Go(c, "call", "build")
    /\ UNCHANGED <<num, wants, ok, sem, priv, next, card, disp, buf, queue, loop, slips>>

(* The caller's variables end with the call. *)
Forget(c) ==
    /\ num' = [num EXCEPT ![c] = 0]
    /\ wants' = [wants EXCEPT ![c] = FALSE]
    /\ ok' = [ok EXCEPT ![c] = FALSE]

(* Mutant: the lock is kept when the command cannot be built *)
MutFail(c) ==
    /\ Go(c, "build", "out") /\ Forget(c)
    /\ priv' = 0
    /\ UNCHANGED <<lock, sem, next, card, disp, buf, queue, loop, slips>>

(* The command cannot be built. *)
Fail(c) ==
    /\ Go(c, "build", "out") /\ Forget(c)
    /\ priv' = 0 /\ lock' = None
    /\ UNCHANGED <<sem, next, card, disp, buf, queue, loop, slips>>

(* The command is larger than WIFI_FW_CMDBUF_SIZE, or is not built, or its *)
(* buffer is missing, in mlan_api.c: the call returns with the lock.       *)
Keep(c) ==
    /\ Go(c, "build", "out") /\ Forget(c)
    /\ kept' = TRUE
    /\ UNCHANGED <<sync, card, disp, buf, queue, loop, late>>

(* wifi_wait_for_cmdresp: the pointer is stored, *)
Point(c) ==
    /\ next <= Last
    /\ Go(c, "build", "send")
    /\ num' = [num EXCEPT ![c] = next] /\ next' = next + 1
    /\ priv' = IF wants[c] THEN next ELSE 0
    /\ UNCHANGED <<wants, ok, lock, sem, card, disp, buf, queue, loop, slips>>

(* Mutant: the lock is given back before the answer *)
MutSend(c) ==
    /\ ~disp
    /\ Go(c, "send", "wait")
    /\ card' = card \cup {num[c]} /\ lock' = None
    /\ UNCHANGED <<num, wants, ok, sem, priv, next, disp, buf, queue, loop, slips>>

(* and the command is sent, under the SDIO lock, which the dispatcher has  *)
(* until the answer is queued.                                             *)
Send(c) ==
    /\ ~disp
    /\ Go(c, "send", "wait")
    /\ card' = card \cup {num[c]}
    /\ UNCHANGED <<num, wants, ok, sync, disp, buf, queue, loop, slips>>

Answered(c) ==
    /\ sem /\ sem' = FALSE
    /\ Go(c, "wait", "done")
    /\ ok' = [ok EXCEPT ![c] = TRUE]
    /\ UNCHANGED <<num, wants, lock, priv, next, card, disp, buf, queue, loop, slips>>

(* An answer that is still to come, or to be handled *)
Queued == \E i \in DOMAIN queue : queue[i] = "answer"
Pending == card # {} \/ disp \/ Queued \/ drv # "idle"

(* WIFI_COMMAND_RESPONSE_WAIT_MS is over. *)
Timeout(c) ==
    /\ ~sem
    /\ Go(c, "wait", "done")
    /\ ok' = [ok EXCEPT ![c] = FALSE]
    /\ late' = (late \/ Pending)
    /\ UNCHANGED <<num, wants, sync, card, disp, buf, queue, loop, kept>>

(* cmd_resp_priv is reset, the lock is given back and the caller goes on,  *)
(* with the memory it pointed to.                                          *)
Return(c) ==
    /\ Go(c, "done", "out") /\ Forget(c)
    /\ priv' = 0 /\ lock' = None
    /\ UNCHANGED <<sem, next, card, disp, buf, queue, loop, slips>>

-----------------------------------------------------------------------------
(* The card and the stack dispatcher *)

(* wlan_decode_rx_packet: an answer is copied to buffhuge, *)
Answer(n) ==
    /\ n \in card /\ ~disp
    /\ card' = card \ {n}
    /\ buf' = n /\ disp' = TRUE
    /\ UNCHANGED <<caller, sync, queue, loop, slips>>

(* The card loses a command. *)
Lose(n) ==
    /\ n \in card
    /\ card' = card \ {n}
    /\ UNCHANGED <<caller, sync, disp, buf, queue, loop, slips>>

(* then queued, *)
Enqueue ==
    /\ disp /\ Len(queue) < QLen
    /\ disp' = FALSE /\ queue' = Append(queue, "answer")
    /\ UNCHANGED <<caller, sync, card, buf, loop, slips>>

(* or lost when the queue is full for WIFI_RESP_WAIT_TIME. *)
Drop ==
    /\ disp /\ Len(queue) = QLen
    /\ disp' = FALSE
    /\ UNCHANGED <<caller, sync, card, buf, queue, loop, slips>>

(* An event has a buffer of its own. *)
Event ==
    /\ ~disp /\ Len(queue) < QLen
    /\ queue' = Append(queue, "event")
    /\ UNCHANGED <<caller, sync, card, disp, buf, loop, slips>>

-----------------------------------------------------------------------------
(* wifi_driver_main_loop *)

(* Mutant: the semaphore is given for events too *)
MutHandleEvent ==
    /\ drv = "idle" /\ queue # <<>> /\ Head(queue) = "event"
    /\ queue' = Tail(queue) /\ sem' = TRUE
    /\ UNCHANGED <<caller, lock, priv, next, card, disp, buf, loop, slips>>

(* An event is passed on to the connection manager. *)
HandleEvent ==
    /\ drv = "idle" /\ queue # <<>> /\ Head(queue) = "event"
    /\ queue' = Tail(queue)
    /\ UNCHANGED <<caller, sync, card, disp, buf, loop, slips>>

(* Mutant: the semaphore is given before the answer is handled *)
MutTake ==
    /\ drv = "idle" /\ queue # <<>> /\ Head(queue) = "answer"
    /\ queue' = Tail(queue) /\ drv' = "look" /\ sem' = TRUE
    /\ UNCHANGED <<caller, lock, priv, next, card, disp, buf, resp, ptr, last, slips>>

Take ==
    /\ drv = "idle" /\ queue # <<>> /\ Head(queue) = "answer"
    /\ queue' = Tail(queue) /\ drv' = "look"
    /\ UNCHANGED <<caller, sync, card, disp, buf, resp, ptr, last, slips>>

(* wifi_process_cmd_response looks at the answer and at the pointer, *)
Look ==
    /\ drv = "look" /\ drv' = "fill"
    /\ resp' = buf /\ ptr' = priv
    /\ UNCHANGED <<caller, sync, card, disp, buf, queue, last, slips>>

(* and writes through it; some answers reset it. *)
Fill ==
    /\ drv = "fill" /\ drv' = "put"
    /\ last' = resp
    /\ priv' \in {priv, 0} /\ (ptr = 0 => priv' = priv)
    /\ UNCHANGED <<caller, lock, sem, next, card, disp, buf, queue, resp, ptr, slips>>

(* wifi_put_command_resp_sem *)
Put ==
    /\ drv = "put" /\ drv' = "idle"
    /\ sem' = TRUE /\ resp' = 0 /\ ptr' = 0
    /\ UNCHANGED <<caller, lock, priv, next, card, disp, buf, queue, last, slips>>

MainLoop == HandleEvent \/ Take \/ Look \/ Fill \/ Put

Progress(c) ==
    Fail(c) \/ Keep(c) \/ Point(c) \/ Send(c) \/ Answered(c) \/ Timeout(c) \/ Return(c)

Next ==
    \/ MainLoop \/ Enqueue \/ Drop \/ Event
    \/ \E n \in card : Answer(n) \/ Lose(n)
    \/ \E c \in Callers : Call(c) \/ Lock(c) \/ Progress(c)

Spec == Init /\ [][Next]_vars

(* Every task is scheduled, and the command lock goes round among those    *)
(* that wait for it.  Nothing is assumed about the card.                   *)
FairSpec ==
    /\ Spec /\ WF_vars(MainLoop) /\ WF_vars(Enqueue \/ Drop)
    /\ \A c \in Callers : WF_vars(Progress(c)) /\ SF_vars(Lock(c))

-----------------------------------------------------------------------------
TypeOK ==
    /\ at \in [Callers -> {"out", "call", "build", "send", "wait", "done"}]
    /\ num \in [Callers -> Nat] /\ wants \in [Callers -> BOOLEAN] /\ ok \in [Callers -> BOOLEAN]
    /\ next \in Nat /\ queue \in Seq({"answer", "event"})
    /\ disp \in BOOLEAN /\ sem \in BOOLEAN /\ late \in BOOLEAN /\ kept \in BOOLEAN
    /\ drv \in {"idle", "look", "fill", "put"}

(* wifi-mem.c: "CMD are all serialised and they dont need any locking".    *)
(* Until a call is given up whose answer still comes, a call that succeeds *)
(* has had its own answer handled.                                         *)
AnswerIsOwn ==
    \A c \in Callers : ~late /\ at[c] = "done" /\ ok[c] => last = num[c]

(* Nor does the handler then write through the pointer of another call, or *)
(* of one that has returned, from an answer that is being overwritten.     *)
FillsOwn ==
    ~late /\ drv = "fill" =>
        /\ resp = buf /\ ptr \in {0, resp}
        /\ \E c \in Callers : at[c] = "wait" /\ num[c] = resp

(* Every call comes to its end, late answers or not, and the lock with it, *)
(* unless a call has returned by one of the paths that keep command_lock   *)
(* (wifi.c:814, mlan_api.c:1699, 1713 and 1722).                           *)
CommandsReturn == \A c \in Callers : at[c] # "out" ~> at[c] = "out" \/ kept

(* The inductive invariant behind AnswerIsOwn and FillsOwn: only the       *)
(* holder of the lock is under way, and the pointer is its own; *)
LockInv ==
    \A c \in Callers :
        /\ at[c] \in {"build", "send", "wait", "done"} => lock = c
        /\ lock = c => at[c] \in {"build", "send", "wait", "done"} \/ kept
PointerInv == \A c \in Callers : at[c] \in {"send", "wait"} => priv \in {0, num[c]}

(* an answer is in one place, on its way to a call that waits for it, *)
OnePlace ==
    /\ card # {} => ~disp /\ ~Queued /\ drv = "idle"
    /\ disp => ~Queued /\ drv = "idle"
    /\ Queued => drv = "idle"
    /\ \A i, j \in DOMAIN queue : queue[i] = "answer" /\ queue[j] = "answer" => i = j
Expected ==
    Pending => ~sem /\ \E c \in Callers :
        /\ at[c] = "wait" /\ card \subseteq {num[c]}
        /\ disp \/ Queued \/ drv \in {"look", "fill"} => buf = num[c]
        /\ drv = "fill" => resp = num[c] /\ ptr \in {0, num[c]}
        /\ drv = "put" => last = num[c]

(* and the semaphore is given for the answer to the call that waits. *)
Given == sem => \E c \in Callers : at[c] = "wait" /\ last = num[c]

IInv ==
    /\ TypeOK /\ LockInv /\ PointerInv
    /\ ~late => OnePlace /\ Expected /\ Given /\ AnswerIsOwn
=============================================================================

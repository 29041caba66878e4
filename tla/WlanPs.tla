------------------------------- MODULE WlanPs -------------------------------
(***************************************************************************)
(* IEEE power save of the station: the state machine of the connection     *)
(* manager (wlcmgr/wlan.c), the tasks that send packets (wifidriver/       *)
(* wifi.c) and wlan_disconnect, over the reader-writer lock ps_rwlock.     *)
(* Who sends is a reader; the connection manager is the writer while the   *)
(* card sleeps.  The reader callback of the lock wakes the card up.        *)
(*                                                                         *)
(* The connection manager handles one message of its queue at a time.  The *)
(* card's firmware (external) is known by the events the code handles: it  *)
(* asks to sleep, sleeps when the host confirms, and tells that it woke.   *)
(***************************************************************************)
EXTENDS Naturals, FiniteSets, Sequences

CONSTANTS
    Senders,  \* tasks that call wifi_low_level_output
    User,     \* the task that calls wlan_disconnect
    Cases,    \* sets of events that happen in one behaviour
    QLen      \* bound: requests and events other than answers need a shorter queue

Tasks == Senders \cup {User}

ASSUME TasksAssumption == IsFiniteSet(Senders) /\ User \notin Senders /\ QLen \in Nat
ASSUME CasesAssumption ==
    \A e \in Cases : e \subseteq {"send", "timeout", "disconnect", "off", "awake", "fail", "full"}

VARIABLES
    events,     \* the case of this behaviour
    ps, prev,   \* ieeeps_state and ieeeps_prev_state
    req,        \* g_req_sl_confirm: a sleep confirm is due
    configured, \* cm_ieeeps_configured
    conn,       \* the station is connected
    cm,         \* where the connection manager is
    queue,      \* wlan.events
    at,         \* at[t]: where task t is
    free,       \* ps_rwlock's semaphore can be taken
    count,      \* its reader_count
    writer,     \* history: the connection manager took it as a writer
    pending,    \* xfer_pending
    card,       \* "on", "asked" to sleep, or "asleep"
    auto,       \* the card's power save is enabled
    wake        \* the card was told to wake up

sm   == <<ps, prev, req, configured, conn>>
lock == <<free, count, writer>>
fw   == <<card, auto, wake>>
state == <<sm, cm, queue, at, lock, pending, fw>>
vars == <<events, state>>

Init ==
    /\ events \in Cases
    /\ ps = "INIT" /\ prev = "INIT" /\ req = FALSE /\ configured = FALSE /\ conn = TRUE
    /\ cm = "loop" /\ queue = <<>>
    /\ at = [t \in Tasks |-> "idle"]
    /\ free = TRUE /\ count = 0 /\ writer = FALSE
    /\ pending = FALSE
    /\ card = "on" /\ auto = FALSE /\ wake = FALSE

(* A first reader that waits for the semaphore keeps reader_mutex. *)
MutexFree == \A t \in Tasks : at[t] \notin {"wake", "sem"}

(* Tasks that hold ps_rwlock as readers *)
Inside == {t \in Tasks : at[t] \in {"in", "sent"}}

WakeUpCard == wake' = (card # "on")
Go(t, from, to) == at[t] = from /\ at' = [at EXCEPT ![t] = to]

-----------------------------------------------------------------------------
(* os_rwlock_read_lock and read_unlock of ps_rwlock, and their callers *)

(* wifi_low_level_output or wlan_disconnect is called. *)
Call(t) ==
    /\ IF t = User THEN "disconnect" \in events ELSE "send" \in events
    /\ Go(t, "idle", "call")
    /\ UNCHANGED <<sm, cm, queue, lock, pending, fw>>

(* reader_mutex is had; the first reader tries the semaphore, *)
Count(t) ==
    /\ MutexFree
    /\ count' = count + 1
    /\ IF count = 0 /\ ~free THEN Go(t, "call", "wake") ELSE Go(t, "call", "in")
    /\ free' = (free /\ count > 0)
    /\ UNCHANGED <<sm, cm, queue, writer, pending, fw>>

(* Mutant: the reader waits without waking the card *)
MutWakeCard(t) ==
    /\ Go(t, "wake", "sem")
    /\ pending' = TRUE
    /\ UNCHANGED <<sm, cm, queue, lock, fw>>

(* ps_wakeup_card_cb: else it wakes the card up and waits. *)
WakeCard(t) ==
    /\ Go(t, "wake", "sem")
    /\ WakeUpCard /\ pending' = TRUE
    /\ UNCHANGED <<sm, cm, queue, lock, card, auto>>

GetSem(t) ==
    /\ free /\ free' = FALSE
    /\ Go(t, "sem", "in")
    /\ UNCHANGED <<sm, cm, queue, count, writer, pending, fw>>

(* MAX_WAIT_TIME is over: the packet is not sent. *)
GiveUp(t) ==
    /\ "timeout" \in events /\ t \in Senders /\ ~free
    /\ Go(t, "sem", "idle") /\ count' = count - 1
    /\ UNCHANGED <<sm, cm, queue, free, writer, pending, fw>>

(* os_rwlock_read_unlock *)
ReadUnlock ==
    /\ MutexFree
    /\ count' = count - 1 /\ free' = (free \/ count = 1)

(* wifi_low_level_output ends: the lock is given back first, *)
Leave(t) ==
    /\ t \in Senders /\ Go(t, "in", "left")
    /\ ReadUnlock
    /\ UNCHANGED <<sm, cm, queue, writer, pending, fw>>

(* Mutant: the flag is left set *)
MutClear(t) ==
    /\ t \in Senders /\ Go(t, "left", "idle")
    /\ UNCHANGED <<sm, cm, queue, lock, pending, fw>>

(* then the flag is reset. *)
Clear(t) ==
    /\ t \in Senders /\ Go(t, "left", "idle")
    /\ pending' = FALSE
    /\ UNCHANGED <<sm, cm, queue, lock, fw>>

(* wlan_disconnect: the connection manager is to give the lock back.  A    *)
(* request that finds the queue full is lost, and the lock stays taken.    *)
Request ==
    /\ Go(User, "in", "sent")
    /\ \/ queue' = Append(queue, "disconnect")
       \/ "full" \in events /\ UNCHANGED queue
    /\ UNCHANGED <<sm, cm, lock, pending, fw>>

-----------------------------------------------------------------------------
(* The state machine, wlan_ieeeps_sm *)
To(s) == ps' = s /\ prev' = ps

WriteUnlock == free' = TRUE /\ writer' = FALSE

(* wlan_host_sleep_and_sleep_confirm, up to its first command *)
HostSleep ==
    IF pending \/ ~free
    THEN req' = TRUE /\ cm' = "loop" /\ UNCHANGED <<free, writer>>
    ELSE free' = FALSE /\ writer' = TRUE /\ cm' = "hs" /\ UNCHANGED req

(* Mutant: the card is told to sleep also while packets are sent *)
MutSleepEvent ==
    \/ /\ ps \in {"CONFIGURING", "AWAKE"} /\ To("PRE_SLEEP")
       /\ cm' = "hs" /\ free' = FALSE /\ writer' = TRUE /\ UNCHANGED req
    \/ ps = "PRE_SLEEP" /\ UNCHANGED <<ps, prev>> /\ HostSleep
    \/ ps = "SLEEP" /\ WriteUnlock /\ To("PRE_SLEEP") /\ cm' = "enter" /\ UNCHANGED req
    \/ ps \notin {"CONFIGURING", "AWAKE", "PRE_SLEEP", "SLEEP"} /\ UNCHANGED <<ps, prev, req, cm, free, writer>>

(* IEEEPS_EVENT_SLEEP; in SLEEP the lock is given back first. *)
SleepEvent ==
    \/ ps \in {"CONFIGURING", "AWAKE"} /\ To("PRE_SLEEP") /\ HostSleep
    \/ ps = "PRE_SLEEP" /\ UNCHANGED <<ps, prev>> /\ HostSleep
    \/ ps = "SLEEP" /\ To("PRE_SLEEP") /\ WriteUnlock /\ cm' = "enter" /\ UNCHANGED req
    \/ ps \notin {"CONFIGURING", "AWAKE", "PRE_SLEEP", "SLEEP"} /\ UNCHANGED <<ps, prev, req, cm, free, writer>>

(* IEEEPS_EVENT_AWAKE *)
AwakeEvent ==
    \/ ps = "CONFIGURING" /\ cm' = "wlock" /\ UNCHANGED <<ps, prev, free, writer>>
    \/ ps = "SLEEP" /\ To("AWAKE") /\ WriteUnlock /\ UNCHANGED cm
    \/ /\ ps = "PRE_DISABLE" \/ (ps = "DISABLING" /\ prev = "PRE_SLEEP")
       /\ IF ps = "PRE_DISABLE" THEN To("DISABLING") ELSE UNCHANGED <<ps, prev>>
       /\ cm' = "exit" /\ UNCHANGED <<free, writer>>
    \/ /\ ps \in {"INIT", "AWAKE", "PRE_SLEEP"} \/ (ps = "DISABLING" /\ prev # "PRE_SLEEP")
       /\ UNCHANGED <<ps, prev, cm, free, writer>>

(* IEEEPS_EVENT_DISABLE *)
DisableEvent ==
    \/ /\ ps \in {"CONFIGURING", "AWAKE"} /\ To("DISABLING")
       /\ cm' = "exit" /\ UNCHANGED <<req, free, writer, wake>>
    \/ /\ ps = "PRE_SLEEP" /\ To("DISABLING")
       /\ req' = FALSE /\ WriteUnlock /\ WakeUpCard /\ UNCHANGED cm
    \/ /\ ps = "SLEEP" /\ WriteUnlock /\ UNCHANGED req
       /\ IF conn THEN To("PRE_DISABLE") /\ WakeUpCard /\ UNCHANGED cm
                  ELSE To("DISABLING") /\ cm' = "exit" /\ UNCHANGED wake
    \/ ps \in {"INIT", "PRE_DISABLE", "DISABLING"} /\ UNCHANGED <<ps, prev, req, cm, free, writer, wake>>

-----------------------------------------------------------------------------
(* The connection manager, cm_main *)
Receive(m) == cm = "loop" /\ queue # <<>> /\ Head(queue) = m

(* SleepEvent by the firmware's event, or by the queue's timeout when a    *)
(* confirm is due                                                          *)
OnSleep ==
    /\ \/ Receive("sleep") /\ queue' = Tail(queue)
       \/ cm = "loop" /\ queue = <<>> /\ req /\ conn /\ UNCHANGED queue
    /\ SleepEvent
    /\ UNCHANGED <<configured, conn, at, count, pending, fw>>

Enter ==
    /\ cm = "enter" /\ HostSleep
    /\ UNCHANGED <<ps, prev, configured, conn, queue, at, count, pending, fw>>

OnAwake ==
    /\ Receive("awake") /\ queue' = Tail(queue)
    /\ AwakeEvent
    /\ UNCHANGED <<req, configured, conn, at, count, pending, fw>>

(* wlan_ieeeps_off, or the answer to a deauthentication *)
OnDisable ==
    /\ Receive("off") \/ Receive("deauth")
    /\ queue' = Tail(queue)
    /\ IF Receive("off") \/ configured
       THEN DisableEvent
       ELSE UNCHANGED <<ps, prev, req, cm, free, writer, wake>>
    /\ UNCHANGED <<configured, conn, at, count, pending, card, auto>>

(* wlan_ieeeps_on; the card answers. *)
OnEnable ==
    /\ Receive("on")
    /\ configured' = TRUE
    /\ IF ps = "INIT" THEN auto' = TRUE /\ queue' = Append(Tail(queue), "enabled")
                      ELSE auto' = auto /\ queue' = Tail(queue)
    /\ UNCHANGED <<ps, prev, req, conn, cm, at, lock, pending, card, wake>>

(* The answers to the power-save commands *)
OnAnswer ==
    /\ \E m \in {"enabled", "disabled", "confirmed"} :
         /\ Receive(m)
         /\ \/ m = "enabled" /\ ps = "INIT" /\ To("CONFIGURING") /\ UNCHANGED <<req, configured>>
            \/ m = "confirmed" /\ ps = "PRE_SLEEP" /\ To("SLEEP") /\ req' = FALSE /\ UNCHANGED configured
            \/ /\ m = "disabled" /\ configured' = FALSE /\ UNCHANGED req
               /\ IF ps = "DISABLING" THEN To("INIT") ELSE UNCHANGED <<ps, prev>>
            \/ m = "enabled" /\ ps # "INIT" /\ UNCHANGED <<ps, prev, req, configured>>
            \/ m = "confirmed" /\ ps # "PRE_SLEEP" /\ UNCHANGED <<ps, prev, req, configured>>
    /\ queue' = Tail(queue)
    /\ UNCHANGED <<conn, cm, at, lock, pending, fw>>

(* wlcm_request_disconnect: the station leaves the network, *)
OnDisconnect ==
    /\ Receive("disconnect")
    /\ conn' = FALSE
    /\ queue' = IF conn THEN Append(Tail(queue), "deauth") ELSE Tail(queue)
    /\ cm' = "unread"
    /\ UNCHANGED <<ps, prev, req, configured, at, lock, pending, fw>>

(* then the lock that wlan_disconnect took is given back, *)
Unread ==
    /\ cm = "unread" /\ cm' = "unpend"
    /\ ReadUnlock
    /\ Go(User, "sent", "left")
    /\ UNCHANGED <<sm, queue, writer, pending, fw>>

(* and the flag is reset. *)
Unpend ==
    /\ cm = "unpend" /\ cm' = "loop"
    /\ pending' = FALSE /\ Go(User, "left", "idle")
    /\ UNCHANGED <<sm, queue, lock, fw>>

(* Mutant: the lock is kept when the card cannot be sent to sleep *)
MutHostSleepDone ==
    /\ cm = "hs"
    /\ \/ conn /\ cm' = "confirm" /\ UNCHANGED <<req, free, writer>>
       \/ /\ ~conn \/ "fail" \in events
          /\ cm' = "loop" /\ req' = TRUE /\ writer' = FALSE /\ free' = free
    /\ UNCHANGED <<ps, prev, configured, conn, queue, at, count, pending, fw>>

(* The host-sleep command is answered, or fails. *)
HostSleepDone ==
    /\ cm = "hs"
    /\ \/ conn /\ cm' = "confirm" /\ UNCHANGED <<req, free, writer>>
       \/ /\ ~conn \/ "fail" \in events
          /\ cm' = "loop" /\ req' = TRUE /\ WriteUnlock
    /\ UNCHANGED <<ps, prev, configured, conn, queue, at, count, pending, fw>>

(* The sleep confirm is answered: the card sleeps. *)
Confirm ==
    /\ cm = "confirm" /\ cm' = "loop"
    /\ card' = "asleep" /\ req' = FALSE
    /\ queue' = Append(queue, "confirmed")
    /\ UNCHANGED <<ps, prev, configured, conn, at, lock, pending, auto, wake>>

(* AWAKE in CONFIGURING: the write lock is had, and given back. *)
TakeWrite ==
    /\ cm = "wlock" /\ free /\ cm' = "loop"
    /\ To("AWAKE")
    /\ UNCHANGED <<req, configured, conn, queue, at, lock, pending, fw>>

(* wifi_exit_ieee_power_save: a sleeping card does not answer. *)
Exit ==
    /\ cm = "exit" /\ cm' = "loop"
    /\ \/ /\ card # "asleep" /\ card' = "on" /\ auto' = FALSE
          /\ queue' = Append(queue, "disabled")
       \/ card = "asleep" /\ UNCHANGED <<card, auto, queue>>
    /\ UNCHANGED <<sm, at, lock, pending, wake>>

-----------------------------------------------------------------------------
(* The user and the card *)
Post(m) == Len(queue) < QLen /\ queue' = Append(queue, m)

TurnOn ==
    /\ ~configured /\ Post("on")
    /\ UNCHANGED <<sm, cm, at, lock, pending, fw>>

TurnOff ==
    /\ "off" \in events /\ configured /\ Post("off")
    /\ UNCHANGED <<sm, cm, at, lock, pending, fw>>

Connect ==
    /\ ~conn /\ cm = "loop" /\ conn' = TRUE
    /\ UNCHANGED <<ps, prev, req, configured, cm, queue, at, lock, pending, fw>>

(* The card asks to sleep, again when nobody answers. *)
CardAsks ==
    /\ auto /\ card' = "asked" /\ Post("sleep")
    /\ card = "asked" => queue = <<>>
    /\ UNCHANGED <<sm, cm, at, lock, pending, auto, wake>>

(* The card wakes, on its own or when told to.  A card that waits for the  *)
(* confirm is woken after it, or when power save is disabled: DISABLING    *)
(* waits for its event.                                                    *)
CardWakes ==
    /\ \/ card = "asleep"
       \/ card = "asked" /\ wake /\ ps = "DISABLING"
    /\ card' = "on" /\ wake' = FALSE
    /\ queue' = Append(queue, "awake")
    /\ UNCHANGED <<sm, cm, at, lock, pending, auto>>

(* The card says that it is awake before it ever slept. *)
CardStarts ==
    /\ "awake" \in events /\ auto /\ card = "on" /\ ps = "CONFIGURING"
    /\ Post("awake")
    /\ UNCHANGED <<sm, cm, at, lock, pending, fw>>

Manager ==
    \/ OnSleep \/ Enter \/ OnAwake \/ OnDisable \/ OnEnable \/ OnAnswer \/ OnDisconnect
    \/ Unread \/ Unpend \/ HostSleepDone \/ Confirm \/ TakeWrite \/ Exit

Task(t) == Count(t) \/ WakeCard(t) \/ GetSem(t) \/ GiveUp(t) \/ Leave(t) \/ Clear(t)

Next ==
    /\ events' = events
    /\ \/ Manager \/ Request
       \/ \E t \in Tasks : Call(t) \/ Task(t)
       \/ TurnOn \/ TurnOff \/ Connect \/ CardAsks \/ CardWakes \/ CardStarts

Spec == Init /\ [][Next]_vars

(* The connection manager and the tasks are scheduled, and get a lock that *)
(* is free again and again; the card wakes when it is told to.  Nobody has *)
(* to call, and the card need not wake or ask on its own.                  *)
FairSpec ==
    /\ Spec /\ WF_state(Manager) /\ WF_state(Request) /\ WF_state(wake /\ CardWakes)
    /\ \A t \in Tasks : WF_state(WakeCard(t) \/ Leave(t) \/ Clear(t)) /\ SF_state(Count(t)) /\ SF_state(GetSem(t))

-----------------------------------------------------------------------------
(* wifi.c: "When Wi-Fi card is in IEEE PS and sleeping CMD or Data cannot  *)
(* be transmitted. The card must be woken up."  While power save stays     *)
(* enabled, a task that sends has the card awake from lock to unlock.      *)
TransmitsAwake ==
    {"off", "disconnect"} \cap events = {} /\ Inside # {} => card # "asleep"

Places == {"idle", "call", "wake", "sem", "in", "sent", "left"}

TypeOK ==
    /\ at \in [Tasks -> Places]
    /\ free \in BOOLEAN /\ writer \in BOOLEAN /\ count \in Nat

(* reader_count counts the readers inside and the one that waits. *)
Counted == {t \in Tasks : at[t] \in {"wake", "sem", "in", "sent"}}
CountInv == count = Cardinality(Counted)

(* ps_rwlock is never left taken by nobody, which would silence the        *)
(* station: through disconnects, failed sleeps and timeouts of readers.    *)
LockHasOwner == ~free => writer \/ Inside # {}

(* The inductive invariant behind LockHasOwner *)
IInv == TypeOK /\ CountInv /\ LockHasOwner

(* The inductive invariant behind TransmitsAwake: without disconnects and  *)
(* while power save stays enabled the connection manager goes round in a   *)
(* part of its states;                                                     *)
Undisturbed == {"off", "disconnect"} \cap events = {}
InQueue(m) == {i \in DOMAIN queue : queue[i] = m}
CalmInv ==
    /\ conn /\ at[User] = "idle"
    /\ ps \in {"INIT", "CONFIGURING", "AWAKE", "PRE_SLEEP", "SLEEP"}
    /\ cm \in {"loop", "wlock", "enter", "hs", "confirm"}
    /\ cm = "wlock" => ps = "CONFIGURING"
    /\ cm = "enter" => ps = "PRE_SLEEP" /\ ~writer
    /\ queue \in Seq({"sleep", "awake", "on", "enabled", "confirmed"})
    /\ ps # "INIT" \/ InQueue("enabled") # {} => configured

(* the lock excludes it from the readers;                                  *)
ExclusionInv == writer \/ free => Inside = {} /\ ~(writer /\ free)

(* and it gives the lock back for an event that a card sends which left    *)
(* its sleep: such an event comes after the answer to the sleep confirm.   *)
SleepInv ==
    /\ writer => ps \in {"PRE_SLEEP", "SLEEP"}
    /\ ps = "SLEEP" => writer /\ cm = "loop" /\ ~req /\ InQueue("confirmed") = {}
    /\ cm \in {"hs", "confirm"} =>
          writer /\ ps = "PRE_SLEEP" /\ card # "asleep" /\ InQueue("confirmed") = {}
    /\ InQueue("confirmed") # {} => writer /\ ps = "PRE_SLEEP" /\ cm = "loop"
    /\ \A i, j \in InQueue("confirmed") : i = j
    /\ card = "asleep" =>
          \/ ps = "SLEEP" /\ InQueue("sleep") \cup InQueue("awake") = {}
          \/ ps = "PRE_SLEEP" /\ Len(queue) \in InQueue("confirmed")

AwakeInv == IInv /\ (Undisturbed => CalmInv /\ ExclusionInv /\ SleepInv)

(* A card that asks to sleep is told to, at last when the tasks stop       *)
(* sending: "delayed sleep confirmed" is performed.  This is while the     *)
(* station is connected, power save enabled and no task timed out, and for *)
(* a card that sleeps before it first reports to be awake.                 *)
SleepConfirmed ==
    events \subseteq {"send"} =>
        \/ []<>(card # "asked")
        \/ []<>(\E t \in Tasks : at[t] # "idle")

(* wlan.h: "This is an asynchronous function and successful disconnection  *)
(* will be notified": wlan_disconnect comes to its end.                    *)
DisconnectAnswered == at[User] = "call" ~> at[User] = "idle"

(* It does when nobody sends meanwhile, the card sleeps before it first    *)
(* reports to be awake and the queue takes the request.                    *)
DisconnectAloneAnswered ==
    {"send", "awake", "full"} \cap events = {} => DisconnectAnswered
=============================================================================

# A TLA+ model of the 88MW320 SDK

The repository is NXP's SDK for the 88MW320 Wi-Fi microcontroller.  This
directory holds TLA+ modules for the parts of it that keep state which several
tasks share or which must survive a power failure, the TLC configurations that
check them and the TLAPS proofs about them.  Paths below are relative to
`src/`; `psm-v2.c`, `partition.c` and `boot_flags.c` are in
`components/boot2_utils`, `os.c` in `middleware/wifi/port/os`, `wlan.c` in
`middleware/wifi/wlcmgr`, the other C files of the Wi-Fi driver in
`middleware/wifi/wifidriver`, and `httpssrv_ota.c` is
`boards/rdmw320_r0/lwip_examples/mw_lwip_httpssrv_ota/lwip_httpssrv_ota.c`.

## 1. Inventory

| Component | State | Operations | Interacts with | Hard because |
|---|---|---|---|---|
| **PSM object store** (`psm-v2.c`) | objects appended to flash; swap descriptor; RAM counters `total_active_object_size`, `data_free_offset`, `highest_used_obj_id`; index | init, set, get, delete, object open/read/write/close, format, list | flash driver, partition table, reader-writer lock, CRC | power failure at any flash access; compaction through a swap area; counters that must agree with flash |
| **Flash driver** (`components/flash/mflash/mw320/mflash_drv.c`) | flash contents | program, erase | interrupts masked during an access | NOR: bits only clear; erase by block |
| **Reader-writer lock** (`os.c` 463-561) | `reader_count`, `reader_mutex`, `rw_lock` | create, read/write lock and unlock with `wait_time` | FreeRTOS mutex and semaphore; used by PSM and by the WLAN power save | interleaving, timeouts, a mutex held while waiting |
| **Event flags** (`os.c` 126-461) | flags, waiting list, one semaphore per waiter | get, set, delete | as above; nothing in the repository calls them | list shared by waiters that time out; deletion while waiting |
| **Partition table** (`partition.c`) | two copies of the table with a generation level | `part_init`, `part_write_layout`, `part_set_active_partition` | Boot2 (not in the repository) through boot flags; firmware update | power failure between erase and write; two updates in one boot |
| **Firmware update** (`httpssrv_ota.c`) | two image slots, `ota_status`, `part_entry` | upload, reboot to test, accept | partition table, flash, Boot2 | requests of several sessions in any order, resets between them, rollback |
| **Connection manager and power save** (`wlan.c`) | station, access point and power-save states; `ps_rwlock`; `g_req_sl_confirm` | user requests, firmware events, timers | WLAN driver, lock, DHCP | the lock's writer is the sleeping card; it is taken in one task and given in another |
| **WLAN driver: receive reordering** (`mlan_11n_rxreorder.c`) | window, buffer and timer of each block-ack stream | packet, block-ack request, set-up, tear-down, flush | stack dispatcher, connection manager, timer task | three tasks without a lock; sequence numbers that wrap |
| **WLAN driver: commands** (`wifi.c`, `wifi-sdio.c`) | `command_lock`, `command_resp_sem`, `cmd_resp_priv`, one response buffer, `io_events` | send and wait, receive, handle | firmware (not in the repository), every caller of the driver | an answer that comes after its call was given up |
| **WLAN driver: the rest** | SDIO ports, scan table, security state | transmit, scan, associate | firmware | encoding, mostly |
| **Key store, TLV, CRC, secure PSM** (`components/boot2_utils`) | none after start-up | lookup, encode, encrypt | PSM | parsing, no concurrency |
| **Flash file store** (`mflash_file.c`) | one file per region | save, read | flash driver | no recovery at all |
| **DHCP and DNS server** (`middleware/wifi/dhcpd`) | leases | one datagram at a time | lwIP | parsing |
| **Serial manager, UART, generic lists, memory manager, OSA** (`components`) | ring buffers, lists | interrupt-driven I/O | drivers | vendor support code |
| **Drivers, sdmmc, boards, tools, third party** | hardware | | | out of scope |

What makes each correct:

* PSM: a map from names to values that survives power failures and changes only
  by acknowledged or interrupted calls; space admission that always leaves room
  for a compaction; initialisation that always ends and never loses data.
* Lock: exclusion, the promised reader priority, no lost or doubled semaphore.
* Partition table: at every instant one newest valid table on flash, changed
  atomically.
* Firmware update: the device always boots; an image that was not accepted is
  rolled back; the image that runs is not erased.
* Power save: nobody sends to a sleeping card; the lock is given exactly as
  often as it is taken; requests to sleep and to disconnect are answered.
* Receive reordering: packets are delivered once and in order, inside the
  buffer, and none is kept for ever.
* Commands: every call returns, with its own answer or none, and the handler
  of an answer writes only to the caller that waits for it.

The hazards of this code, each with its line, are listed in `PROJECT.json`.

## 2. Modules

| Module | What it is |
|---|---|
| `PsmLayout` | constants, offsets and the admission rule of a PSM partition |
| `NorFlash` | the contents of the partition as extents; program and erase |
| `Psm` | the object store: calls, compaction, power failure, recovery |
| `PsmStore` | abstract: a durable map with calls that take effect at one instant |
| `PsmSpace` | abstract: the space accounting alone, for any object sizes |
| `PsmProps` | properties of `Psm`, and its two refinement mappings |
| `PsmLayoutProofs` | the arithmetic of block boundaries and swap areas |
| `PsmSpaceProofs` | proofs about `PsmSpace` |
| `PsmInv`, `PsmProofs` | the inductive invariant of `Psm`, and the proofs about it |
| `RwLock`, `RwLockProofs` | the reader-writer lock and its proofs |
| `PartTable` | the two copies of the partition table |
| `AtomicTable` | abstract: a table that changes at one instant |
| `FwUpdate`, `FwUpdateProofs` | the update example, on top of `PartTable`, and proofs about both |
| `WlanPs`, `WlanPsProofs` | power save: connection manager, senders, `wlan_disconnect`, card |
| `RxReorder`, `RxReorderProofs` | one block-ack stream |
| `WlanCmd`, `WlanCmdProofs` | the command path |
| `MCPsm`, `MCPsmSpace`, `MCRwLock`, `MCFwUpdate`, `MCWlanPs`, `MCRxReorder`, `MCWlanCmd` | instances for TLC |

`PsmLayout` <- `NorFlash` <- `Psm` <- `PsmProps` <- `PsmInv` <- `MCPsm` extend
each other; `PsmProofs` extends `PsmInv` and `PsmLayoutProofs`;
`PsmProps` instantiates `PsmStore` and `PsmSpace` with the mappings;
`FwUpdate` extends `PartTable`, which instantiates `AtomicTable`.  `Mut...`
definitions are variants of the definition that follows them, with a plausible
bug; no specification uses them.

### `Psm`

Every write operation holds the partition's write lock from its first to its
last flash access, so at most one is in progress.  The variable `op` is that
call, `pc` the place in the C code it has reached and `w` its local variables.
One step is one `psm_write_flash` or one block of `psm_erase_flash`, with the
RAM updates up to the next flash access; a `Crash` may follow any step.

| Code | Action |
|---|---|
| `psm_set_variable` / `psm_object_open`: admission, `manage_space_constraints` | `BeginSet`, `Refuse` |
| `_psm_object_open`: search, id, header and name | `WriteHeader` |
| `_psm_object_write` | `WriteData` |
| `_psm_object_close`: CRC and length, then inactivation of the old object | `Commit`, `InactivateOld` |
| `psm_object_delete` | `BeginDelete`, `DeleteObject` |
| `psm_format` | `BeginFormat`, `FormatErase`, `Rescan` |
| `handle_recovery`, CHECKPOINT_0 | `EraseSwap`, `WriteSwapStart` |
| CHECKPOINT_1 | `CopyToSwap`, `WriteMarker` |
| CHECKPOINT_2 | `EraseData`, `CopyToData`, `InvalidateDescriptor` |
| CHECKPOINT_3 | `CleanSwap` |
| `psm_part_scan` with `handle_double_active_object` | `Scan`, in `Rescan` and `Boot` |
| `psm_module_physical_init`, `deduce_checkpoint_at_init` | `Boot` |
| `search_active_object`, `psm_get_variable` | `Search`, `Lookup` |

Flash is a set of extents, byte-exact in position and length and abstract in
content.  What the code can tell apart is kept: a complete object, one whose
length field is still 0xFFFF ("torn"), one whose type was zeroed ("dead"),
anything else ("junk"), and blank bytes.  Programming over programmed bytes
makes junk.  `psm_swap_desc_t` is the variable `desc`: its start offset and its
marker, each blank, written, or torn.  Reads are not actions: they exclude
writers and change nothing, so the properties evaluate `Lookup` whenever no
write is in progress.

Simplifications:

* The header and the name of an object are written by two calls in a row; a
  power failure between them or inside either is a torn header of one byte, or
  of full length.  What lies behind is the same: blank flash that no scan
  accepts as an object.
* A block erase that the power interrupts is either done or not.
* Flash writes and erases do not fail by themselves.
* The code's `os_mem_calloc` succeeds.
* The index is left out: objects are searched on flash, as the code does when
  an object was not opened with the indexing attribute.
* One partition, not read-only and not encrypted.

### `RwLock`

One action per blocking call and the code up to the next one.  `reader_count`
changes only under `reader_mutex`, so a section that takes and gives the mutex
without blocking is one step.  It models locks created without a reader
callback, as PSM's are; `ps_rwlock`, which has one, is part of `WlanPs`.

### `PartTable` and `FwUpdate`

| Code | Action |
|---|---|
| `part_write_layout`: erase of the passive copy | `Erase` |
| header with the next generation level, entries, CRC | `WriteHeader`, `WriteEntries`, `WriteCrc` |
| Boot2 chooses a copy; `part_init` reads it | `Start` |
| Boot2 chooses an image; `main()` | `Boot`, `EnterTest`, `Serve` |
| `cgi_ota_upload`, `store_update_image`, `validate_update_image` | `UploadErase`, `UploadStore`, `UploadEnd`, `UploadFail` |
| `cgi_ota_reboot`, the reset by its timer, power failure | `AskReboot`, `Reset` |
| `cgi_ota_accept` | `Accept`, `Accepted` |

A write that the power interrupts leaves a wrong CRC and counts as not done; an
erase is complete at once, because a copy with any byte erased is not valid
either.  Boot2 is external, modelled by what `partition.c` and `boot_flags.c`
expect: it takes the valid copy of the higher generation level, and the image
of the higher level, or the other one when its CRC is wrong.  Layout writes of
two sessions do not overlap in time.  `MaxGen` and `MaxLevel` bound the levels.

The server takes an upload in every state: while an image is tested, while
another session uploads, after an upload that was good, between the request to
reboot and the reset.  `UploadErase` therefore has no guard but that the
session is free, and `UploadFail` leaves the status as it was.  The history
`care` remembers what users have done with that: it is "pending" from the first
change of the slot to the end of an upload that is reported good, and "lost"
once somebody marks an image for a test while it is pending or an upload is
under way, or begins an upload in a run that has begun to write a layout.  The
three properties about images are stated until it is lost (`Careful`), because
they do not hold afterwards (section 3).

### `WlanPs`

| Code | Action |
|---|---|
| `os_rwlock_read_lock` with `ps_wakeup_card_cb` | `Count`, `WakeCard`, `GetSem`, `GiveUp` |
| `wifi_low_level_output` after the lock | `Leave`, `Clear` |
| `wlan_disconnect` | `Call`, `Request` |
| `wlcm_request_disconnect` | `OnDisconnect`, `Unread`, `Unpend` |
| `wlan_ieeeps_sm` for each event | `SleepEvent`, `AwakeEvent`, `DisableEvent` |
| `wlan_host_sleep_and_sleep_confirm`, `send_sleep_confirm_command` | `HostSleep`, `HostSleepDone`, `Confirm` |
| `cm_main` and its handlers | `OnSleep`, `OnAwake`, `OnDisable`, `OnEnable`, `OnAnswer`, `Enter`, `TakeWrite`, `Exit` |
| `wlan_ieeeps_on`, `wlan_ieeeps_off` | `TurnOn`, `TurnOff` |
| the card (external) | `CardAsks`, `CardWakes`, `CardStarts` |

The connection manager handles one message at a time; `cm` tells where it is
between two accesses to shared state.  The card is known by the events the code
handles: once power save is enabled it asks to sleep, sleeps after the confirm
and tells that it woke; told to wake up while it waits for the confirm, it
wakes after it, or when power save is being disabled; asleep, it does not
answer the command that disables power save.  It need not wake or ask on its
own.  The host-sleep command fails when the station is no longer connected,
and at any time in the cases with "fail".  Requests and the card's own events
are posted only while the queue is shorter than `QLen`; a full queue is the
case "full", in which the request of `wlan_disconnect` is lost and its lock
kept.  The micro access point, deep
sleep, scanning, reconnection and a disconnection by the connection manager
itself are left out.  `Cases` are the sets of events that may happen together
in one behaviour: which properties hold depends on them.

### `RxReorder`

| Code | Action |
|---|---|
| `mlan_11n_rxreorder_pkt`: resynchronisation, too old, window | `PassBy`, `Reorder`, in `Arrive` and `Bar` |
| its store, and `done:` | `Store`, `Done` |
| `wlan_11n_dispatch_pkt_until_start_win` | `Take`, `Skip`, `Clear`, `UntilEnd` |
| `wlan_11n_scan_and_dispatch` | the same, and `ScanEnd` |
| `wlan_flush_data` | `Flush` |
| `wlan_11n_create_rxreorder_tbl`, `wlan_11n_delete_rxreorder_tbl_entry` | `AddBa`, `Delba`, `Unlink` |
| `wlan_update_rxreorder_tbl` | `HostSleep` |

Packets are received by the stack dispatcher (priority 1), streams are set up
and torn down by the connection manager, whose turn comes when the dispatcher
waits, and the flush is a callback of the timer task, which has the highest
priority.  `configUSE_PREEMPTION` is 1 and the functions that lock the table do
nothing (`mlan_glue.c:268`), so the tasks interrupt one another at every slot.
The history `clash` says how they have done so: "flush" when the timer has
flushed the window between two slots of a loop or while a packet is about to be
stored, "race" when it has done so between the read of a slot and its clearing,
or when a packet was received within a loop of the connection manager.  The
properties name the interruptions up to which they hold.  The peer is external: it sends a window of W packets, repeats
some and gives some up.  A-MSDU, packets that the firmware reports as dropped
and the list of streams are left out.  Packets that pass by before the window
is synchronised are not counted by `InOrder`: the code hands them on as they
come.

### `WlanCmd`

| Code | Action |
|---|---|
| `wifi_get_command_lock`, `wlan_ops_sta_prepare_cmd` failing | `Call`, `Lock`, `Fail` |
| the returns that keep the lock: `wifi.c:814`, `mlan_api.c:1699`, `:1713`, `:1722` | `Keep` |
| `wifi_wait_for_cmdresp` | `Point`, `Send`, `Answered`, `Timeout`, `Return` |
| `wlan_decode_rx_packet` | `Answer`, `Enqueue`, `Drop`, `Event` |
| `wifi_driver_main_loop`, `wifi_process_cmd_response` | `HandleEvent`, `Take`, `Look`, `Fill`, `Put` |

Commands are numbered, which the code does not do: `num`, `last`, `late` and
`kept` exist to state the properties.  The contents of the response buffer are the
number of the command it answers.  The dispatcher has the SDIO lock from
reading an answer to queueing it, so that commands are sent before or after.
The card answers whenever it likes, or never.  The wait of an answer for a
place in `io_events` is one step that can only give up while the queue is full.

## 3. What the runs check

| Run | Instance | Shows |
|---|---|---|
| `psm_store` | 2 names, 2 values, 4 blocks of 64 bytes, objects of 36 and 44 bytes, `max_data_len` 0 or 8 above the data | the store is an atomic durable map (`ImplementsStore`); readers see what a restart would restore; nothing is programmed twice; counters, ids and areas stay consistent; initialisation always succeeds; the invariant of `PsmProofs` holds (`IInv`) |
| `psm_full` | 3 blocks, objects of 64 and 36 bytes; fair | the admission rule leaves room for every compaction, also when the data reach the swap area exactly; `Psm` implements `PsmSpace`; initialisation and every call end |
| `psm_space` | 4 blocks; sizes 15, 34, 120 | the space properties and their inductive invariant with totals at every distance from a block boundary |
| `rwlock` | 4 tasks; fair | exclusion, reader priority, exact semaphore; nobody waits in vain for a lock that nobody holds |
| `fw_update` | 2 sessions, levels up to 5, generation levels up to 12 | the table changes atomically and is never lost; for careful users, whose uploads come at any time, overlap, fail and are repeated: the device always boots, an image that is not accepted is rolled back, the image that runs is never erased |
| `ps` | 2 senders, one disconnecting user, requests queued two deep, five sets of events; fair | nobody sends to a sleeping card; `ps_rwlock` always has an owner when it is taken; requests to sleep and to disconnect are answered |
| `rx_order` | window of 4, 16 numbers, 5 packets, block-ack requests; no wrap; fair | packets leave in order and once, until a task is interrupted in the middle of a call; none is kept for ever, whatever is interrupted |
| `rx_owner` | window of 4, 8 numbers, 5 packets across the wrap, all events | every packet kept back is in exactly one place, also when the timer flushes between two slots; in the right slot until an interruption; every store is inside the buffer |
| `cmd` | 2 callers, 3 commands, `io_events` of length 2; fair | each call has its own answer until one comes late; every call returns until one keeps the lock |
| `psm_edge_brick`, `rx_wrap`, `ps_first` | | violations, below |

Why the bounds are enough.

* PSM.  Two names and two values give every relation between an object and the
  one before it: new, replacing, replacing after a delete, deleted, other name.
  Four blocks let the data area and the swap area have one, two or three
  blocks, and a compaction start with the data ending in either.  A block is 64
  bytes, the smallest the code accepts, and all offsets are computed with the
  code's constants (12, 12 and 4), so every rounding case of the real layout
  occurs.  The state space is finite without any bound on the number of calls:
  ids are given again after a compaction and offsets are bounded by the
  partition.
* Lock.  Four tasks: a writer, a first reader, a further reader, and one that
  times out.
* `fw_update`.  Two sessions are what the server allows.  An update that is
  accepted makes three layout writes and one level, so that the bounds allow
  several in a row, with power failures in each.  Deadlock is not checked: when
  users were not careful, a device may have no image that starts.
* `ps`.  Two senders, because `xfer_pending` and the reader count are shared:
  one can leave while the other waits.  The sets of events combine what the
  properties tell apart; all but a full queue happen together in one of them.
* `rx_*`.  A window of 4 has a first, a last and inner slots, and the number
  space has room for old, current and new packets (2W <= M).  In `rx_owner`
  the window crosses the wrap; its behaviours are followed up to the first race,
  after which two of its three properties say nothing (the third,
  `StoreInBounds`, is proved for all interruptions), and the histories that only
  `InOrder` reads are left out of the states.  Either run has one packet more
  than the window, so that the window moves with a hole in it.
* `cmd`.  Two callers, because there is one lock; three commands, so that one
  follows another that was given up; a queue of two is full of events when an
  answer comes.

`MaxGen`, `MaxLevel`, `QLen` of `WlanPs`, `Last` of `RxReorder` and of
`WlanCmd` are the bounds that the code does not have.

### Where the code does not do what it says

Three runs end in a violation; `PROJECT.json` quotes the comment each
contradicts.

* `psm_edge_brick`.  `psm_get_swap_start_offset` leaves out the four
  demarcation bytes that the admission rule keeps.  When the part of the
  partition that is left beside descriptor and active objects ends 5 bytes above
  a block boundary, the end of the copies cannot be recognised when they are
  copied back: the type of the object that is not there is read half from the
  descriptor.  By then the data area is erased.  When it ends 0 to 4 bytes
  above, the copies do not fit and the compaction only gives up.  The theorem
  `EdgeWindow` (`PsmLayoutProofs`) states that these are exactly the cases.  The sizes of
  `psm_store` and of `psm_full` stay outside of this window; `psm_space`
  has totals at every distance from a block boundary.
* `rx_wrap`.  `wlan_11n_dispatch_pkt_until_start_win` compares the new start of
  the window with the old one without regard to the wrap (`rxreorder.c:147`).
* `ps_first`.  When the card reports to be awake before its first sleep, the
  connection manager waits without limit for the write lock, which
  `wlan_disconnect` may hold until the connection manager gives it back.

The following was met while modelling.  No run of the present set shows it;
most of it the models reach with the constants, or without the conditions of
the properties, that are given in parentheses.

* `psm_format`: a power failure between two block erases leaves blocks that
  nothing cleans (`FailPlaces <- Everywhere` with `AreasAreClean`).
* Ids of deleted names are not given again before a compaction, and admission
  does not look at ids: with `MaxObjects` deletions in a row, new objects share
  `PSM_INVALID_OBJ_ID` (`IdsNameObjects`, a small `MaxObjects`).
* `wait_time` of the reader-writer lock does not bound the wait for
  `reader_mutex` (`os.c:488`).
* Update example, when users are not `Careful`.  A failed upload after a good
  one leaves the status at uploaded (`httpssrv_ota.c:634`), and so does an
  upload that another session has just begun: the broken image can be marked,
  Boot2 starts the other one, and `part_entry[0]` is then not the slot that
  executes, so that the next upload erases the image that runs.  An upload
  while an image is tested erases the one to return to: the page disables only
  its Accept button (`:152`), and the next restart comes up with the image that
  nobody accepted and takes the erased slot for the active one.  An upload and reboot in the run of an acceptance overwrite the table
  that was just written (`:757`).  `AlwaysBoots`, `Rollback` and
  `RunningIsActive` without `Careful` show them.
* Receive reordering, after an interruption.  A flush between the read of a
  slot and its clearing hands its packet on twice, and the rotation then moves a
  newer packet out of the window (`rxreorder.c:153`, `:228`; `OwnedOnce` without
  its condition); one between the choice of a slot and the store puts the packet
  into a slot with another number (`SlotsMatch`), and one before the store hands
  later packets on before the one to be stored (`InOrder`).  The comment in `mlan_glue.c:268`
  says "Locks not needed for now".
* Power save: a sender wipes the mark of a waiting `wlan_disconnect`
  (`wifi.c:1550`), whose disconnection then is not served while the card sleeps
  (`DisconnectAnswered` with "send"); a sender that times out after it woke the
  card leaves the mark set (`wifi.c:1494`; `SleepConfirmed` with "timeout");
  disabling power save gives the lock back before the card is awake
  (`wlan.c:599`; `TransmitsAwake` with "off") and, in IEEEPS_PRE_SLEEP, even
  when it was not taken, which lets a writer in beside a reader (`wlan.c:569`);
  `wlan_disconnect` reports success when its request did not get into the queue
  (`wlan.c:3400`), and the lock stays taken (`DisconnectAnswered` with "full").
* Commands: the answer to a call that was given up (after 20 s; the comment
  in `wifi.c:833` says 10) gives a semaphore that nothing takes back.  The next
  call returns with it at once, before its own answer, which then serves the
  call after it: from then on every call runs one answer behind, and its
  pointer may be written after it returned.  `wifi-mem.c:44` says "CMD are all
  serialised and they dont need any locking", which is true only until then.
* Some error returns keep the command lock for ever: `mlan_api.c:1699`,
  `:1713`, `:1722` and `wifi.c:814` (`Keep`; `CommandsReturn` without `kept`).
  The generic path (`mlan_glue.c:939`) gives it back.

### Fairness

* `Psm!FairSpec`: the task in a call goes on (a FreeRTOS task that is ready
  runs, and flash accesses return) and a device that is down is started.
  Nothing is assumed about calls and power failures: the liveness properties
  hold although the power may fail for ever.
* `RwLock!FairSpec`: a task that can take its next step inside the lock's code
  does so; nothing about tasks asking for the lock or giving it back.
* `RxReorder!FairSpec`: tasks with work run, and the timer fires although
  packets keep arriving, which is what the priority of its task gives (strong
  fairness).  Nothing about the peer.
* `WlanPs!FairSpec`: tasks run and get a mutex or semaphore that is free again
  and again (FreeRTOS queues its waiters); a card that was told to wake up
  does.
* `WlanCmd!FairSpec`: tasks run, waits end at their timeout, and the command
  lock goes round among its waiters.  Nothing about the card: `CommandsReturn`
  holds if it never answers.

## 4. What is proved

From the named assumptions on the constants and nothing else:

`PsmLayoutProofs`, for every block size of at least 64 and every partition of
at least two blocks: where block boundaries and swap areas lie, among them
`SwapMonotone` (more active bytes never give a later swap area) and
`EdgeWindow`, which says when the copies of a compaction do not fit or touch
the descriptor.

`PsmSpaceProofs`, for every set of object sizes besides:

* `AreasNeverMeet`: no object, written or being written, lies in the area a
  compaction started next would erase first (`DataBelowSwap`);
* `NeverWraps`: the unsigned subtraction of `manage_space_constraints` does not
  wrap;
* `CopyBackAlwaysFits`: the active objects fit in front of the swap area;
* `TypeCorrect`.

None of the three properties is inductive.  `IInv` strengthens them: the end of
the data stays below `PlannedSwap` of the *active* bytes.  Admission
establishes this for the object to come (`WritingInv`, `CompactingInv`); a
delete or a replacement lowers the active bytes and so only raises the bound;
a compaction sets the end of the data to the active bytes.  The rest says that
the RAM counters agree with flash when they are used (`CountersInv`).

`PsmProofs`, for every partition, every set of names and every set of values of
any lengths: every safety property that `psm_store` and `psm_full` check of
`Psm`, that is `RecoveryNeverFails`, `ReadersSeeDurable`, `OnlyBlankProgrammed`,
`AreasStayClean`, `CountersExact`, `IdsStandForNames`, `CopiesAlwaysFit`, and
`StoreImplemented` and `SpaceImplemented`, the refinements of `PsmStore` and
`PsmSpace`.  Four hypotheses are needed, and each keeps out a behaviour in which
the code goes wrong:

* `ValidIds`, on the constants: `MaxObjects < InvalidId` (512 and 65535 in the
  code).
* `FormatIsSafe`, on the constants: the power does not fail inside
  `psm_format`, whose order of erases leaves objects behind a blank descriptor
  (`psm-v2.c:3083`).  It may fail between any two other flash accesses.
* `OffTheEdge`, on the behaviour: no compaction starts with active objects in
  the window of `EdgeWindow`.  `psm_edge_brick` is what happens in it.
* `IdsLeft`, on the behaviour: an id is left when an object of a new name is
  opened, and a compaction that looks for the next object has made fewer than
  `MaxObjects` copies.  Without it two names share an id, and
  `psm_copy_all_objects` gives up (`psm-v2.c:1412`).

They appear as `Spec /\ [](OffTheEdge /\ IdsLeft) => ...`.
`SmallPartitionKeepsIds` discharges the last for partitions without room for
more than `MaxObjects` objects of the smallest size, 12 bytes and the name: with
the 512 of the code, two blocks of 4 KiB and names of 4 bytes, or four blocks
and names of 20.  In `psm_store` all four hold (no reachable state is outside),
so that the runs and the theorems speak of the same behaviours, and there TLC
checks the invariant before it is proved.

The invariant is `IInv` of `PsmInv`.  Its core says what lies on the flash
while the device is down (`Recoverable`): either a data area, whole objects
without a gap from offset 0, behind them at most one that was not finished, and
remains of an old swap area beyond the place of the next one (`DataArea`); or,
if the descriptor is valid, the copies of all active objects in the swap area
and blank flash behind them (`SwapArea`).  While the device is up there is one
part for each place of the code: what the RAM counters say of the flash
(`Counted`, `ReadyInv`), that the object admitted fits (`Room`), how far a new
object has been written and which object it replaces (`WritingInv`), which of
the two areas is the good one while the other is erased or filled (`SavingInv`,
`MovingInv`, `CleaningInv`), and that a copy under way stands for exactly the
objects passed so far (`Progress`).  `WasInv` says that a call has not taken
effect before the step that ends it.  None of the properties is inductive
without this: that nothing is programmed twice, for instance, rests on the
descriptor being blank between calls, which rests on every compaction and
recovery having reached its end.

There is one lemma per action.  The lemmas about recovery state that what a
recovery would restore (`Durable`) does not change by any flash access but the
one that commits a call; from these follow `Invariant`, and `StoreImplemented`
with the mapping of `PsmProps`: an access maps to the effect of its call or to
a stuttering step, and a power failure to a loss of the call with or without
its effect.  `SpaceImplemented` maps the same steps to those of the accounting.
Its mapping takes `active` and `used` from the flash (`Occupied`), and the
invariant says at which places the RAM counters agree with them
(`PlaceOccupied`): the theorems of `PsmSpaceProofs` are thereby true of the
code's counters, although objects, copies and power failures are not in that
module.

`RwLockProofs`, for every finite set of tasks: `WritersExclude`,
`ReadersAlwaysPass` and `SemaphoreIsExact`.  The invariant adds that
`reader_count` is the number of tasks between their increment and their
decrement, and that the mutex is only ever held by a first reader that waits
for the semaphore, when it is the only counted reader.

`FwUpdateProofs`, first for the partition table alone, every set of tables and
any number of updates and power failures: `BootFindsTable`, and
`UpdateIsAtomic`, the refinement of `AtomicTable`.  The invariant `PartInv` says
that the copy the system started from stays valid until the next start, that
the level in memory is at least that of either copy, so that the copy being
written never ties with the active one, and how far it has been written at each
step.

Then, over `PartInv`, for any sessions, any bounds on the levels and uploads at
any time: `AlwaysBoots`, `Rollback` and `RunningIsActive`, each of which speaks
of a state that `Careful` users have led to.  The invariant (`IInv` of
`FwUpdate`) says that in such a state every table a start may use is safe: the
image it makes Boot2 choose is whole, and it is accepted or is to be tested with
an accepted image in the other slot.  Two further parts keep it so: an upload
is under way only in a run that has written no layout, whose active slot is
therefore the one Boot2 chose, and what has been uploaded and kept is whole;
and a run that tests an image has reset its level before it serves requests.
Care is lost by a single step of a user and never regained, so that each lemma
looks at one more step of users who have been careful so far.  The one
assumption, besides those on the bounds, is that the tables are the layouts of
two slots.

`RxReorderProofs`, for every window size, number space and number of packets:
`StoresInBounds`, whatever interrupts what; `SlotsMatchInTurns` until the first
interruption in the middle of a call; `OwnedUntilRace`, which goes on through
flushes between two slots up to the first race; and `OrderedBeforeWrap`, for
packets and block-ack requests alone, until the first interruption and as long
as the sequence numbers do not wrap.  The first needs only the ranges of the
window start, the loop indices and the arithmetic (`BoundsInv`); the second
(`SerialInv`) that slot i holds a packet numbered start + i, and that the slots
a loop has passed are empty, so that the rotation at its end keeps numbers and
slots together.  The third (`OwnInv`) counts: a loop that goes on after a flush
finds its slots empty, and rotates nothing away that was not passed.  `InOrder`
adds to the second that whatever was handed on is numbered below the start of
the window, and whatever is kept at or above it, in the order of the slots.
Its hypothesis `BeforeWrap` excludes set-up, tear-down and host sleep, which
move the window to the peer's numbers or take a packet of any age, and bounds
the numbers in use by one number space: `rx_wrap` is what happens at the wrap.

`WlanPsProofs`, for any finite set of senders and any queue: `LockNeverLost`,
for any set of events, and `SendersFindTheCardAwake` for behaviours without
`wlan_disconnect` and without turning power save off (with them the property
is false, section 3).  The invariant of the first adds that `reader_count` is
the number of tasks inside or waiting as the first; the last one to leave frees
the semaphore.  That of the second says that without those events the
connection manager goes round in part of its states, that it holds the lock
from the confirm on, so that no sender is inside while the card sleeps, and
that it gives the lock back only for an event that the card sent after it left
sleep; such an event follows the answer to the confirm.

`WlanCmdProofs`, for any callers, any queue length and any number of commands:
`AnswersAreOwn` and `FillsAreOwn`.  The invariant says that only the holder of
the command lock is under way and `cmd_resp_priv` its own pointer;
and, until an answer is late, that there is at most one answer, in one place on
its way from the card to the main loop, that its caller waits, and that the
semaphore is given only for that caller.

Only model-checked: all liveness properties (the proof system does not reach
`ENABLED` and fairness).  In `PsmSpace` the phase "broken", which the 5-byte
case leads to, is final; `psm_full` therefore uses sizes outside that case, as
`OffTheEdge` does in the proof.

## 5. Plan

Done: every module of section 2, and the proofs of every safety property and
every refinement that a passing run checks.

Left, in this order:

1. Flash errors in `Psm`: a failing write or erase at every step.
2. `PsmInit`: `psm_module_init` and `psm_module_deinit` by several tasks, over
   `RwLock`; sessions that hold the lock from open to close.
3. `PsmIndex`: the RAM index and cache against the flash.
4. `EventFlags`: waiting list, timeouts and deletion.
5. Deep sleep and the micro access point in `WlanPs`; the SDIO ports and their
   bitmaps.
6. Proofs: the refinement of an abstract lock by `RwLock`.

## 6. Not modelled

* Firmware of the Wi-Fi card and Boot2: not in the repository; modelled by what
  the code expects of them and marked external.
* Association, scan, security, DHCP, DNS, TLV and key store: encoding and
  decoding of messages one at a time; their state follows the last message.
* Secure PSM and CRC: change or check bytes, never the order of flash accesses.
* Peripheral drivers, SD and SDIO host: registers and protocol commands; the
  state is in the hardware.
* Lists, memory manager, OSA, serial manager: vendor support code that other
  devices share; the mutexes, semaphores and queues they wrap are modelled
  where they are used.
* Event flags: nothing in the repository calls them, so they come last in the
  plan.
* Third-party code (FreeRTOS, lwIP, mbed TLS, CMSIS and others), boards,
  examples other than the update example, host tools and scripts.

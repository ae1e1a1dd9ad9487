# Verification of zephyr_study

TLA+ models of the drivers and services of this repository, the TLC
configurations that check them on small instances, and TLAPS proofs of their
safety properties for all sizes.

The repository is a set of Zephyr applications. `Example/nrf52833DK` is the
large one: a Bluetooth LE peripheral that relays firmware updates between a
phone and a host MCU on a UART, with an LCD user interface and a collection of
kernel demos. `Example/nrf52833DK-pendant` adds an RS485 node. There are no
tests in it; the reference is the code, with the comments of its headers and
sources.

All paths below are relative to `src/`. `DK` is `Example/nrf52833DK`, `PD` is
`Example/nrf52833DK-pendant`.

## 1. Inventory

| Component | Source | State | Operations |
|---|---|---|---|
| mcu_transport | `DK/app/package_mcu_transport` | RX ring, semaphore, drop counter, callback and its data, two mutexes | init, UART interrupt, RX thread, register callback, send |
| rs485 | `PD/hardware/package_rs485` | staging buffer and position, completion semaphore, transceiver direction; RX as above | init, send, UART interrupt, RX thread, register callback |
| rs485_demo | `PD/app/package_rs485_demo` | none | register a callback, send a frame periodically |
| ble_core | `DK/app/package_ble_core` | none | `bt_enable` at boot |
| ble_adv | `DK/app/package_ble_adv` | `adv_active` | start, stop, is_active; start at boot |
| ble_conn | `DK/app/package_ble_conn` | `active_conn` and its reference, table of event callbacks | connected, disconnected, get_active, disconnect, register callback |
| ble_gatt_ota_service | `DK/app/package_ble_gatt_ota_service` | two subscription flags | CCC changes, writes to the MCU, relay from the MCU, connection event |
| ble_gatt_client | `DK/app/package_ble_gatt_client` | three busy flags with params and context, pool of subscriptions | discover (3), read, write, write without response, subscribe, unsubscribe, their callbacks, connection event |
| ble_led_ctrl_service | `DK/app/package_ble_led_ctrl_service` | mirror of two LEDs, two subscription flags | read, write, CCC changes, notify, connection event |
| lcd_ui, lcd_async_flush | `DK/app/package_lcd_ui` | pending flush, idle semaphore | UI thread, flush callback, completion interrupt, wait for idle |
| sys_monitor | `DK/app/package_sys_monitor` | frame counter, last kernel totals | refresh hook, periodic report |
| lvgl_demo | `PD/app/package_lvgl_demo`, `PD/hardware/package_display` | `display_ready`, uptime counter | wait for the display, refresh loop |
| pipe_bender_ui | `DK/app/package_lcd_ui` | target and live angle, four labels | buttons, sweep timer, layout |
| kernel demos | `DK/app/package_{kmsq,fifo,poll,sem,kmutex,spinlock,atomic,event,work_queue}` | one kernel object each, and what it protects | producers and consumers |
| Bluetooth demos | `DK/app/package_{gatt_server_demo,adv_conn_demo,ble_scan_conn_demo,ble_adv_demo}` | connection and its reference, subscription | start, connected, disconnected, attribute callbacks, scan callback |
| GPIO wrappers, tutorial programs, assets, build | the rest | none | |

How they interact:

* `SYS_INIT` functions run one after the other at boot (ble_core 90, ble_adv
  91, mcu_transport 92, ble_conn 93, the services 94 to 97); static threads
  start after them, interrupts and the Bluetooth threads do not wait for them.
* The Bluetooth RX thread calls `connected` and `disconnected` of ble_conn,
  which calls the registered services under a mutex and restarts ble_adv. It
  also calls the attribute callbacks of the services.
* The UART interrupt fills the ring of mcu_transport; its RX thread calls
  `on_mcu_rx` of the OTA service, which reads the connection of ble_conn and
  notifies the central. Writes of the central go to `mcu_transport_send` on
  the Bluetooth RX thread.
* The demos are alternatives to one another and to the relay: one Kconfig
  option each, of which `prj.conf` switches on what an image is built for.
* The LVGL refresh of the UI thread calls the flush callback, and the refresh
  hook of sys_monitor.

What is hard in it: an interrupt, a Bluetooth thread and application threads
share small pieces of state, protected by a mix of mutexes, semaphores, atomics
and nothing; calls are cut in two by a lost connection; waits have timeouts
that race with completions; buffers are finite. `PROJECT.json` lists each such
place under `hazards`.

What makes each component correct:

* mcu_transport: no byte vanishes unaccounted for, order is kept, no wakeup is
  lost, a callback gets its own data, frames stay whole on the line.
* rs485: the bus is released after every call; success means sent; a call
  returns also when the UART is stuck; frames do not mix.
* ble_adv, ble_conn, OTA service: handle and flags are those of the current
  central; nothing is leaked; chunks reach a subscriber; the device advertises
  again after a lost link.
* ble_gatt_client: one operation per flag at a time, answers go to the callback
  of their own call, and a flag never stays set; a subscription the stack
  knows keeps its slot, and no slot leaks.
* ble_led_ctrl_service: reads and notifications tell the state of the LED.
* display: commands and transfers exclude each other on the bus, every flush
  ends exactly once, the UI thread comes to switch the screen on and goes on.
* sys_monitor: no frame is counted twice.
* the demos: what each kernel object is there for (order, mutual exclusion, no
  lost wakeup), and, for the Bluetooth ones, a handle, a reference and a
  subscription that belong to the present link, and a device that does not
  fall silent.

## 2. Modules

| Module | Models | Checked by |
|---|---|---|
| `McuTransport` | mcu_transport | `MCMcuTransport` |
| `McuTransportProps` | its properties, and the refinement mapping to `ByteChannel` | |
| `ByteChannel` | abstract: what a receiver promises the layer above; `McuTransport` and `Rs485Rx` implement it | |
| `McuTransport_proofs` | theorems | `tlapm` |
| `Rs485` | rs485_send, the transmitting interrupt, UART and bus | `MCRs485` |
| `Rs485_proofs` | theorems about it | `tlapm` |
| `BleLink` | ble_adv, ble_conn and the relay of the OTA service, composed | `MCBleLink` |
| `BleLink_proofs` | theorems about it | `tlapm` |
| `GattClient` | discovery, read, write of ble_gatt_client | `MCGattClient` |
| `GattClient_proofs` | theorems about it | `tlapm` |
| `LedCtrl` | ble_led_ctrl_service, the LEDs, a button, a central | `MCLedCtrl` |
| `LedCtrl_proofs` | theorems about it | `tlapm` |
| `GattSubs` | the subscription pool of ble_gatt_client | `MCGattSubs` |
| `GattSubs_proofs` | theorems about it | `tlapm` |
| `LcdDisplay` | lcd_ui, lcd_async_flush, and the counter of sys_monitor | `MCLcdDisplay` |
| `LcdDisplay_proofs` | theorems about it | `tlapm` |
| `Program` | what the small programs below share: `mem`, `pc`, `seen` | |
| `KmsqDemo`, `FifoDemo`, `PollDemo`, `SemDemo`, `EventDemo`, `WorkQueueDemo`, `KmutexDemo`, `SpinlockDemo`, `AtomicDemo` | the kernel demo of that name | `MCPrograms` |
| `Rs485Rx` | the receiver of rs485 and its user rs485_demo | `MCPrograms` |
| `BleBoot` | the SYS_INIT functions of the Bluetooth side, the callback table of ble_conn | `MCPrograms` |
| `AdvConnDemo`, `ScanConnDemo`, `GattServerDemo` | the Bluetooth demo of that name | `MCPrograms` |
| `PipeBender` | the angles of pipe_bender_ui | `MCPrograms` |
| `LvglDemo` | lvgl_demo of the pendant and its display package | `MCPrograms` |
| `SysMonitor` | the CPU load of sys_monitor | `MCPrograms` |
| `Programs` | the seventeen programs above as alternatives | `MCPrograms` |
| `Programs_proofs` | theorems about them, program by program | `tlapm` |

State and actions carry the names of the code. A thread is a program counter
(`rxpc`, `pc`, `bt`, `ui`, ...); a step is a stretch of code that no other actor
can observe in the middle. Which stretches those are follows from the
scheduling of a single core:

* An interrupt handler is atomic for the threads (one iteration of its loop is
  one step, since it may return between two). In `Rs485` the loop itself
  matters, for it may not end: there `isr` says that the handler runs, and no
  thread takes a step until it has returned.
* Code under a mutex or a spinlock is split wherever another actor reads or
  writes what it touches without the lock.
* Callbacks on the Bluetooth RX thread (a cooperative thread) are not
  interrupted by the application, and appear as single steps where only
  application threads are the other party (`GattClient`, `LedCtrl`). In
  `BleLink` `disconnected()` is split all the same, because a service waits
  there for a mutex and the stack may block.

Names beginning with `Seeded mistake` in a comment are variants of an action
with a plausible bug. No specification uses them; each property is checked to
fail when one of them takes the place of the action it follows
(`PROJECT.json`, `mutants`).

### McuTransport

`rx_ring_buf`, `rx_data_sem`, `rx_dropped_bytes`, `rx_callback`,
`rx_callback_user_data`, `cb_lock`, `tx_lock` and `transport_ready` are the
static variables of `mcu_transport.c`. Received bytes are numbered, so that
loss, duplication and reordering show. `UartIsr(n)` is one iteration of the
interrupt loop. The RX thread is `RxTake`, `RxGet`, `RxLock`, `RxCopyCallback`,
`RxCopyUserData`, `RxCall`, `RxReport`; registration is three steps because the
pair it writes is copied by the RX thread; sending is a step per byte.
Initialisation fails in two places, before and after the kernel objects are
set up; in the first case the RX thread, which is defined statically, takes a
semaphore that was never initialised (`RxTakeUninitialised`).

### Rs485

`rs485_send` is `SendRejected` (early returns) or `Stage`, `DriveTx`,
`EnableTxIrq`, `TakeDone` or `TakeTimeout` and `AbandonTx`, `DriveRx`,
`Unlock`. `FillFifo`, `SignalDone` and `NotDrained` are the three ways through
`rs485_handle_tx`, `EnterIsr` and `LeaveIsr` the ends of the handler's loop.
`ShiftOut` is the UART: a byte leaves it, and reaches the
bus only when the transceiver is in transmit mode. It may take any time, so
a timeout may come at any moment, also when the frame is on the bus and the
interrupt is about to say so.

### BleLink

The stack (link, subscriptions of the central, MTU, advertising), the state of
ble_adv, ble_conn and the OTA service, and three threads. A lost link and a
new one may come between any two steps of `on_mcu_rx` and of the application.
The device has one connection object (`CONFIG_BT_MAX_CONN` is left at its
default), so an old pointer may name a new link; links are numbered to tell
them apart. The model starts after boot; the failure of the first
`ble_adv_start` is one of the initial states.

### GattClient

One busy flag, one params struct and one context per operation; calls are
numbered. The stack accepts or refuses a request, answers it once (or fails it)
and fails what is outstanding before it reports a disconnection.
Parameters that are rejected before the busy check change nothing and are left
out.

### GattSubs

`subscriptions[]` is `in_use`, `handle` (the value handle of the params) and
`owner` (the call whose callback and user data the slot holds). A subscription
is two steps, under `sub_mutex` and after it, because `bt_gatt_subscribe` is
called without the mutex; its error path is a third. The stack has a list of
params and CCC writes in flight, answers a write at any time later, and calls
`on_notify` with NULL for what it drops; `on_conn_event` follows a lost link.
The history variable `raced` is set when a slot is freed under a request in
progress, or taken again before the stack answered the write that ended its
last use: the two windows the code leaves open.

### LedCtrl

The two LEDs, the mirror, the flags, and what a central learnt from reads and
notifications. The application switches an LED and then calls
`ble_led_ctrl_service_notify`, interrupted by the central anywhere. Each
`bt_gatt_notify` may fail, which the service ignores; `unheard` and `refused`
record for which LED.

### LcdDisplay

The UI thread from its start through first frame, unblanking and later frames,
with each command of the flush callback able to fail; `switched` says that the
calls that switch panel and light on were made, whatever came of them; the DMA transfer with its
completion interrupt; the monitor thread, which has a lower priority.

### Programs

Each of the small programs has a module with one record of its static
variables, kernel objects and locals (`mem`), one record of labels (`pc`) with
a field per context, and one history variable (`seen`). `Step(t)` is a step of
context `t`. `Programs` chooses one program in `Init` and composes them by
disjunction, as the Kconfig options do. What is particular about them:

* `FifoDemo` has a clock, because only time keeps the producer from refilling a
  slot that is in use. The note at fifo_demo.c:97-100 makes that an assumption;
  `MaxHeld` is what it means: others keep the consumer from the CPU for at most
  so many ticks until it has caught up, and `SlotsSuffice` says how many are
  few enough.
* `PollDemo` has the two halves of `k_poll`: return with all that is ready, or
  block until the first event, and return with it and with what fires before
  the thread runs.
* `EventDemo`: `k_event_wait_all` with `reset` clears the events when the wait
  begins. The comment at event_demo.c:58-60 says it is when it returns; the
  run `event_posts` shows the difference.
* `WorkQueueDemo`: submitting an item whose handler is running queues it again.
  The comment at work_queue_demo.c:93-95 says it is ignored.
* `SpinlockDemo`: one core, so that nothing runs while the lock is held; steps
  inside the lock are separate all the same, and exclusion follows from the
  lock, not from the grain of the steps.
* `AtomicDemo`: one step per atomic operation.
* `Rs485Rx`: as the receiver of `McuTransport`, without a drop counter (how many
  bytes were cut off or ignored is history) and with one registration. It begins after an `rs485_init` that
  succeeded: otherwise no byte arrives and the registration is refused.
  `rs485_send` is in `Rs485`.
* `BleBoot`: the main thread runs the initialisation functions in the order of
  their priorities whether or not they fail; from the second on a central may
  connect, subscribe and leave between any two of them. The table of
  ble_conn has a size of 2 or 4, against three services that register.
* `AdvConnDemo`, `ScanConnDemo`: connection objects are 1 and 2 in turn, with a
  count of the references the program holds. Every call to the stack may be
  refused. `GattServerDemo` adds the attribute callbacks and the notifying
  thread.
* `PipeBender`: angles in half degrees on a short scale, with the floating
  point remainder of C; the live angle follows the target by any part of the
  way.
* `LvglDemo`: the clock is the history variable; LVGL asks for any sleep, and a
  sleep may last longer than asked. What the thread counts and when it sleeps
  are separate steps, since the code counts a sleep before it takes it.
* `SysMonitor`: the kernel's totals move between the reading and the
  arithmetic, and a reading may fail.

## 3. Runs

| Run | Question | Distinct states |
|---|---|---|
| `mcu_transport` | safety and liveness of the transport, refinement of `ByteChannel` | 307 thousand |
| `rs485` | timeouts racing completions, a hanging UART | 156 thousand |
| `ble_link` | links lost and replaced during the relay | 32 thousand |
| `gatt_client` | two callers and lost links | 445 thousand |
| `led_ctrl` | button against central, notifications that fail | 260 thousand |
| `lcd_display` | flush, completion, monitor | 1 thousand |
| `gatt_subs` | slots freed and taken while the stack still has them | 224 thousand |
| `programs` | seventeen small programs, one at a time | 119 thousand |
| `ble_handle`, `gatt_params`, `gatt_subs_params`, `event_posts` | each refutes a sentence of a header or comment, see Findings | |

Bounds, and why they are enough:

* `mcu_transport`: a ring of 3 bytes, reads of 2, pulls of 2: bursts overflow
  the ring entirely or in part, and draining takes more than one pull, so an
  interrupt falls between two. The semaphore limit is 2, so that it saturates.
  `MaxTraffic` = 5 bytes received and sent together: a full ring, a pull and
  an overflow after it, or two frames. One registrar with one callback
  replaces NULL by it and back; the proofs cover any number.
* `rs485`: frames of 1 and 3 bytes in a UART of 2, so that a frame may fit or
  not; lengths 0 and 4 for the early returns; `MaxFrames` = 3: one to time out,
  one to meet what it left, one to follow.
* `ble_link`: `MaxLinks` = 3: one to lose during a relay, one to take its
  place, one more to meet what either left. Two chunks.
* `gatt_client`: two callers, a discovery that ends with its first find, one
  that does not, and a read: two kinds under one flag, and a second flag.
  `MaxCalls` = 4, `MaxLosses` = 2: a call cut by a loss, another in its place,
  and calls after that. Service discovery behaves like characteristic
  discovery, and write like read.
* `led_ctrl` has no bounds.
* `lcd_display`: two areas in a frame, three counted frames: before, between
  and after the read and the reset of the monitor.

* `gatt_subs`: two threads, two slots, two characteristics, so that the pool
  is full and one handle can have two slots; `MaxCalls` = 4, `MaxLinks` = 2: a
  slot used, freed and used again, on either side of a lost link.
* `programs`: sequence numbers and counters modulo `Wrap` = 8, more than twice
  any queue, so that a repeated or missing number shows; queue and pool have
  the size of the source (4). The FIFO's periods of 2 s and 300 ms are 4 ticks
  and 1. Two bytes of ring and pulls of one for `Rs485Rx`, with `MaxBytes` = 4:
  a burst that fills the ring, and one that finds it full. `HighWater` = 5 and
  `MaxDrift` = 2: the counter reaches the mark and goes below zero. Angles up
  to 8 in steps of 1 and 2, so that a button can leave the sweep off its grid.
  A second of 8 ticks against sleeps of at most 3, so that sleeps do not fit
  evenly, for `MaxElapsed` = 30; kernel totals modulo `CycleWrap` = 4.
  `MaxCount` = 3 notifications spread over any number of links.

Runs over bounded counters switch deadlock checking off, for the bound stops
them; `ble_link` and `led_ctrl` keep it on.

### What the properties say

* mcu_transport: `NoLostWakeup`, `NoTornCallback`, `BytesAccounted`,
  `OneStaleCall` (after a registration has returned the old callback runs at
  most once more), `FramesContiguous`, `DropsGetReported` (liveness),
  `ChannelSpec` (refinement: the ring followed by the thread's chunk is a FIFO
  queue which loses only the end of a burst, only when it is full, and is
  eventually served).
* rs485: `BusReleased`, `SuccessMeansSent`, `BusInOrder`, `SendReturns`
  (liveness, without fairness of the UART). When the UART stops with bytes left
  and room for more, `rs485_handle_tx` returns with the interrupt on (line 95)
  and the loop of line 105 goes round for ever: `Spinning`. `SendReturns` holds
  unless that is so from some time on.
* BleLink: `ActiveConnIsTheLink` (with one reference, and none to an earlier
  link), `FlagsFollowCentral`, `RelayedWhileSubscribed`, `AdvertisesAgain`
  (liveness).
* GattClient: `BusyIsALock`, `AnswersGoToTheirCall`: both unless a
  disconnection was reported during a call, which is exactly the case in which
  the code gives neither; `FlagIsCleared` (liveness).
* LedCtrl: `MirrorUnlessExcused` (the mirror is the LED but for three named
  kinds of change), `SubscriberInSync` (but for a LED whose last notification
  failed), `ReportReachesSubscriber` (liveness; unless a notification of this
  report failed).
* LcdDisplay: `BusExclusive`, `FlushBookkeeping`, `NeverOverReported`,
  `UiGoesOn` (liveness: the calls that switch the screen on are made, and the
  UI thread keeps getting back to LVGL; whether panel and backlight obey, the
  code does not look, lcd_ui.c:93-94).
* GattSubs: `ListedSlotsKept` (unless `raced`), `NoSlotLeaked` (always).
* Programs: each property says for every program it concerns what it means
  there, and names a part defined in that program's module.
  `DeliveredInOrder`: the message queue, the FIFO, the RS485 receiver, the
  counter a GATT client sees. `NoUpdateLost`: mutex, spinlock, atomics, labels,
  seconds, windows of CPU time.
  `NothingMissed`: signals (but for one raised between check and reset), event
  bits waited for, work items, bytes. `LinkBookkeeping`: handle,
  reference and subscriptions are those of the link, also when services
  register late or not at all. `Served` (liveness): nothing that is due stays
  so for ever: permits, signals, work items, mutexes, bytes, the boot, and a
  device without a link advertises or scans, unless a call to the stack was
  refused (the code only logs that) or a connection failed to come up.

### Fairness

* mcu_transport: weak fairness of the RX thread, and of a registrar inside
  the mutex, which is lent the priority of the RX thread waiting for it
  (`k_mutex`). Strong fairness of `RxLock`: `k_mutex_unlock` hands the mutex to
  the waiter. None for arrivals, registrations or sends.
* rs485: weak fairness of a thread inside `rs485_send`, whose only wait has a
  timeout; it can run only when the handler does not. Weak fairness of the
  handler while it runs. None for the UART or the arrival of its interrupt.
* BleLink: weak fairness of the Bluetooth RX thread, which has a priority above
  the application's and waits for nothing of it.
* GattClient: a call has no wait in it; the stack answers or times out every
  request (ATT timeout) and reports every disconnection.
* LedCtrl: the report has no wait in it.
* LcdDisplay: the UI thread, and the completion of a transfer that started.
* GattSubs: none; only safety is stated.
* Programs: weak fairness of the threads and timers in `Scheduled`. A thread
  that can run does run in the end (the threads of a demo sleep, so a higher
  priority starves nobody); the timeout of a sleep or a delayed item comes;
  the controller ends every attempt to connect. None for `Free`: interrupts, other
  devices, users, and the threads and clock whose progress nobody waits for.

## 4. Findings

| Run | What the code does | What is said |
|---|---|---|
| `ble_handle` | `on_mcu_rx` uses the connection after `disconnected()` gave it up (ble_gatt_ota_service.c:222, 234) | ble_conn.h:51 |
| `gatt_params` | a disconnection clears a busy flag under a caller; the next call overwrites its params (ble_gatt_client.c:588) | comment at ble_gatt_client.c:43 |
| `gatt_subs_params` | a subscription whose slot is freed between the mutex and `bt_gatt_subscribe` is registered all the same, and the next one overwrites its params (ble_gatt_client.c:515) | comment at ble_gatt_client.c:43 |
| `event_posts` | the next wait clears a reading posted while the waiter works (event_demo.c:63) | comment at event_demo.c:58-60 |

Smaller disagreements met on the way, without a run of their own:

* the uptime of lvgl_demo is not refreshed once a second (lvgl_demo.c:13): what
  a sleep exceeds the second by is thrown away (line 71), and a sleep of 0
  counts nothing;
* a timeout of `rs485_send` returns `-EAGAIN` (rs485.c:205, 216), where
  rs485.h:42 says `-ETIMEDOUT`;
* the LED mirror keeps a value the GPIO refused (ble_led_ctrl_service.c:228)
  and misses a change reported without a connection (305), where the comment at
  ble_led_ctrl_service.c:76 speaks of the "last-applied LED state"; `MirrorUnlessExcused`
  names both;
* an item submitted while its handler runs is queued again, where the comment
  at work_queue_demo.c:93-95 says that the call is ignored (see `Programs`
  above);
* `ble_adv_is_active` stays true when a central connects (ble_adv.c:78, 94),
  where ble_adv.h:29 says "true if advertising, false otherwise"; `BleLink` has
  the states, and nothing calls the function;
* rs485.h:34-35 says that `rs485_send` "Blocks the calling thread until the
  frame has been sent (or the send times out)"; with a UART stuck with
  room in its FIFO neither comes (rs485.c:95, 105), see `SendReturns`;
* the results of `bt_gatt_notify` are ignored (ble_led_ctrl_service.c:244, 312,
  321), where the comment before the function says that it is called "so
  subscribed Centrals stay in sync"; `SubscriberInSync` names the exception;
* a write whose `mcu_transport_send` fails is answered with success, and the
  comment at ble_gatt_ota_service.c:127-130 says that the MCU side will signal
  it with a NAK: the send fails only if the transport did not come up, and then
  `on_mcu_rx`, which would relay the NAK, is not registered either;
* a Bluetooth demo whose restart of advertising or scanning is refused only
  logs it (ble_adv_conn_demo.c:168, ble_scan_conn_demo.c:290), and the two
  peripherals do not advertise again after a connection that failed to come up.

## 5. Proofs

`McuTransport_proofs` proves for `Spec` of `McuTransport`, with all constants
arbitrary but for `SizeAssumption` (sizes and limit are positive, lengths are
naturals) and `NameAssumption` (the names of lock owners are distinct):

* `TypeCorrect`: `[]TypeOK`, in particular the ring never overflows. It is
  inductive as it stands.
* `NoLostWakeupHolds`. The property alone is not inductive: between taking the
  semaphore and sleeping again the thread owes a look at the ring, and after
  it found the ring empty it still owes a look at the drop counter. `WakeupInv`
  says that bytes in the ring mean a count of the semaphore or a thread on its
  way to the ring, and drops the same or a thread about to report.
* `NoTornCallbackHolds`. `CallbackInv` ties the owner of `cb_lock` to the
  locations inside the critical sections of the RX thread and the registrars,
  says that the two shared variables match except between a registrar's two
  assignments, and that the thread's first copy is still the shared one when
  it takes the second.
* `OneStaleCallHolds`. `StaleInv` says that a thread about to call with an
  outdated copy took it before the last registration ended, so that no such
  call has been counted since.
* `BytesAccountedHolds`. `AccountInv` adds that the chunk is empty outside the
  hand-over, since the next pull overwrites it.
* `FramesContiguousHolds`. `FrameInv` says that only the owner of `tx_lock` is
  inside a frame, that the last byte on the line tells how far it got, and that
  with nobody inside a frame the line ends with a whole one.
* `ImplementsChannel`: initial states and steps of the transport map to those
  of `ByteChannel`. `ChunkInv` says at which locations the thread's chunk is
  empty, so that pulling a chunk is a stutter of the channel.

The lemmas `GiveProperties`, `SplitProperties`, `SplitConcat`, `AppendBurst`
and `BurstProperties` state what the operators on the ring do.

`GattClient_proofs` proves for `Spec` of `GattClient`, for any callers and
operations, from `BoundAssumption` (the bounds are naturals):

* `TypeCorrect`. `TypeInv` adds that a call in progress has a number that was
  given out and an operation, so that its flag is one of `Flags`.
* `BusyIsALockHolds`. `LockInv` says, until a disconnection is reported during
  a call, who holds a flag: at most one thread that is making a call
  (`OneCaller`), while no request is out (`CallerHolds`), or else one request
  (`RequestHolds`), and that a set flag has such a holder (`Justified`).
* `AnswersGoToTheirCallHolds`, from the same invariant: the request that is out
  is the one the params hold, because the thread filled them before it asked
  (`Filled`) and nobody fills them while a request is out.

`GattSubs_proofs` proves for `Spec` of `GattSubs`, for any callers, handles and
number of slots, from `PoolAssumption` (there is at least one slot and one
handle; the bounds are naturals):

* `TypeCorrect`: `[]TypeOK`, inductive as it stands.
* `NoSlotLeakedHolds`. The property speaks of quiet states only and says nothing
  of the way there; `SomebodyFrees` says that a slot in use always has somebody
  who will free it: the link, the event of its loss, or a call in progress.
* `ListedSlotsKeptHolds`. `Bookkeeping` adds to the property what its steps
  rely on: until the stack has it, a call's slot is taken, is no other call's
  (`Separate`) and is awaited by no write in flight (`Taken`); a slot whose
  unsubscription is in flight is not in the list (`Dropped`); and without a link
  the stack holds nothing (`LinkBookkeeping`).

`FirstOfProperties`, `FreeSlotProperties` and `FreeProperties` state what the
search and the freeing of slots return.

`Rs485_proofs` proves for `Spec` of `Rs485`, for any senders, frame lengths,
staging buffer and UART, from `SizeAssumption` and `NameAssumption` (no sender
is called "free"):

* `TypeCorrect`, with `LockInv` (who is inside `rs485_send` owns `tx_lock`) and
  `StagedInv` (the staging buffer holds the owner's frame).
* `BusReleasedHolds`. `DriverInv` says at which locations of the owner the
  transceiver drives and the TX interrupt may be on, so that nobody inside
  means neither; and that a completion never waits while the interrupt is
  still on.
* `BusInOrderHolds`. `LineInv`: the bytes on the bus, then those in the UART,
  are in order, and all were taken from a frame before the present position.
  The UART keeps its bytes when a call times out, so the order has to be
  carried across calls.
* `SuccessMeansSentHolds`. `Transit` says that no byte the UART took of the
  present frame is lost while the transceiver drives; `DoneInv` that a
  completion found while waiting is of this frame, for the semaphore is reset
  before the interrupt is switched on; `SentInv` that a call about to return 0
  has emptied the UART onto the bus.

None of them depends on threads standing still while the handler runs:
`NextSteps` takes the steps of threads and handler apart from `isr`.

`BleLink_proofs` proves for `Spec` of `BleLink`, from `BoundAssumption`:
`TypeCorrect`, `ActiveConnIsTheLinkHolds`, `FlagsFollowCentralHolds`. The
properties speak of the moments between connection events; `LinkInv` follows
handle (`HandleAt`) and flags (`FlagsAt`) through each stretch of `connected()`
and `disconnected()`. `RelayedWhileSubscribedHolds` uses `SteadyInv`: while
nothing happened to the subscriber since the chunk arrived, link and
subscription are still there.

`LedCtrl_proofs` proves `TypeCorrect`, `MirrorUnlessExcusedHolds` and
`SubscriberInSyncHolds` from no assumption; notifications may fail, and
`unheard` follows the LEDs for which the last one did. The second needs `MirrorInv`: the
arguments of a report in progress are the levels of the LEDs not changed since,
and after the mirror is written it holds the level. The third is inductive as
it stands.

`LcdDisplay_proofs` proves, for any number of areas and counted frames,
`TypeCorrect`; `BusExclusiveHolds` and `FlushBookkeepingHolds` from `FlushInv`
(inside the flush callback and before the unblanking no transfer is in flight,
and each location has its state of the pending flush and the idle semaphore);
`NeverOverReportedHolds` from `CountInv` (what was reported, and what the
counter still holds, was refreshed).

`Programs_proofs` proves all five invariants of `Programs`, from
`ProgramAssumptions`. Each program has its inductive invariant (`KmsqInv`,
`FifoInv`, ...) with a lemma for `Init` and one for `Step`; `ProgramsInv` says
of the program the image was built with that its invariant holds. Those that
took more than reading off the locations:

* `KmsqInv`: the queue holds the messages from the one expected on, so that the
  number the producer uses next is what was received plus what is queued,
  modulo `Wrap`. No relation of `Wrap` to the size of the queue
  is needed.
* `FifoInv`. That no slot is refilled too early is a matter of time.
  `FifoCredit` is the argument: unread items times the period, plus what is
  left of the consumer's sleep, is at most the time the consumer was held up
  plus what is left of the producer's sleep. With `SlotsSuffice` fewer than
  `PoolSize` items are unread (`FifoFewItems`), and the next slot is not one of
  theirs (`UnreadDiffer`).
* `ReceiverInv`: delivered bytes, the chunk and the ring together rise
  strictly, and with the lost ones are all that arrived. Each byte is thus
  delivered once and in order, or counted as lost: to a full ring, or for want
  of a callback.
* `SpinInv`: what was recorded equals, modulo `Wrap` and for each counter, what
  waits in the counters plus what the reader took and has not yet reported,
  but for the event the writer has counted and not yet added up.
* `MonitorInv`: the kernel's totals wrap, so windows are compared by what
  passed since (`Since`); two adjoining windows add up to one, and the
  non-idle cycles of a window never exceed all its cycles, which keeps the
  load at 100 per cent or less.
* `WorkQueueInv`: an item is in the queue at most once, and the periodic item
  in exactly one of three places.
* `BootInv` says what each stage of the boot has set up, and that the OTA
  service hears the MCU only when it is in the table of callbacks.
* `AdvConnInv`, `ScanConnInv`, `GattServerInv`: where handle and radio stand in
  each stretch of each callback.

`ReceiverImplementsChannel` is the refinement of `ByteChannel` by the receiver
of rs485, under the same mapping as for mcu_transport: ring and chunk are the
queue, `seen.cut` and `seen.ignored` count what a full ring and a missing
callback cost. `ReceiverBurst` and `ReceiverServes` are the two steps that map
to steps of the channel; pulling a chunk and all others stutter.

The lemmas at its head are about counters taken modulo a bound (`ModOfMod`: a
pool whose size divides the bound is indexed alike before and after the wrap;
`ModDiffers`: numbers less than the bound apart do not collide).
`BytesOfConcat` and `RisingConcat` are about concatenated sequences,
`FewItems` bounds a number by its multiple.

Two things proving showed of the models. The bound of `uptime_s` in
`LvglDemo.TypeOK` was wrong for the smallest `MaxElapsed`: the counter is one
ahead of the clock, for the first refresh counts at once. And `SlotsSuffice` of
`FifoDemo` did not say that its times are naturals, without which it says
nothing of them.

Model-checked only: the liveness properties (`DropsGetReported`, `SendReturns`,
`AdvertisesAgain`, `FlagIsCleared`, `ReportReachesSubscriber`, `UiGoesOn`,
`Served`) and the fairness part of `ChannelSpec`: liveness under fairness and
`ENABLED` are beyond the prover. So are the four runs that refute a sentence of
the documentation, where a counterexample is all there is to show.

## 6. Not modelled

* The Bluetooth stack, LVGL, drivers and hardware appear as external actions,
  by what this code sees of them.
* Widgets, layout, fonts and animations of pipe_bender_ui, the figures
  sys_monitor logs of the heap, read-only services, ble_adv_demo, the GPIO wrappers and
  the blinkers: they keep no state that anything depends on. See `components`
  in `PROJECT.json`. The frame protocol of `DK/readme.md` between a phone and the
  MCU is code of neither end here.

## 7. Plan

Done, in this order: `McuTransport` with proofs, `Rs485`, `BleLink`,
`GattClient` and `GattSubs` with proofs, `LedCtrl`, `LcdDisplay`, the small programs with
the receiver of rs485, the boot and the angles; then the proofs of `LcdDisplay`,
`LedCtrl`, `BleLink`, `Rs485` and of all the small programs. Every invariant a
run checks has a theorem.

What is left:

1. `KmsqDemo` as an implementation of a bounded channel, for which its model
   needs the sequence received and not only its length.
2. Action properties that follow from the invariants proved: no byte of
   `rs485_send` reaches the bus after its call has returned; a slot of
   `GattSubs` changes owner only when nobody owns it.

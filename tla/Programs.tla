------------------------------ MODULE Programs ------------------------------
(***************************************************************************)
(* An image is built with one of the small programs of this repository,    *)
(* chosen in prj.conf.  This module composes them as alternatives: the     *)
(* choice is made in Init and never changes, and each property says of     *)
(* every program what correct means for it.                                *)
(***************************************************************************)
EXTENDS Naturals

CONSTANTS
  Chosen,   (* the programs an image is built with, one at a time            *)
  Wrap      (* bound: sequence numbers and counters are taken modulo Wrap    *)

CONSTANTS QueueSize, PoolSize, Period, WorkTime, MaxHeld, HighWater, MaxDrift, RingSize,
          FifoChunk, PullChunk, MaxBytes, MaxCount, TableSizes, MaxAngle, ClickStep, SweepStep,
          Second, Refresh, MaxElapsed, CycleWrap

VARIABLES program, mem, pc, seen

state == <<mem, pc, seen>>
vars  == <<program, mem, pc, seen>>

Kmsq       == INSTANCE KmsqDemo
Fifo       == INSTANCE FifoDemo
Poll       == INSTANCE PollDemo
Sem        == INSTANCE SemDemo
Event      == INSTANCE EventDemo
WorkQueue  == INSTANCE WorkQueueDemo
Kmutex     == INSTANCE KmutexDemo
Spinlock   == INSTANCE SpinlockDemo
Atomic     == INSTANCE AtomicDemo
Rs485      == INSTANCE Rs485Rx
AdvConn    == INSTANCE AdvConnDemo
ScanConn   == INSTANCE ScanConnDemo
GattServer == INSTANCE GattServerDemo
Boot       == INSTANCE BleBoot
PipeBender == INSTANCE PipeBender
Lvgl       == INSTANCE LvglDemo
Monitor    == INSTANCE SysMonitor

\* What the programs assume of their sizes and bounds.
ASSUME ProgramAssumptions ==
  /\ Kmsq!WrapAssumption /\ Poll!WrapAssumption /\ Kmutex!WrapAssumption /\ Spinlock!WrapAssumption
  /\ Monitor!WrapAssumption /\ Lvgl!TimeAssumption
  /\ Fifo!SlotsSuffice
  /\ Atomic!MarkAssumption
  /\ Rs485!SizeAssumption
  /\ GattServer!CountAssumption
  /\ Boot!TableAssumption
  /\ PipeBender!AngleAssumption

Init ==
  /\ program \in Chosen
  /\ \/ program = "kmsq" /\ Kmsq!Init
     \/ program = "fifo" /\ Fifo!Init
     \/ program = "poll" /\ Poll!Init
     \/ program = "sem" /\ Sem!Init
     \/ program = "event" /\ Event!Init
     \/ program = "work_queue" /\ WorkQueue!Init
     \/ program = "kmutex" /\ Kmutex!Init
     \/ program = "spinlock" /\ Spinlock!Init
     \/ program = "atomic" /\ Atomic!Init
     \/ program = "rs485" /\ Rs485!Init
     \/ program = "adv_conn" /\ AdvConn!Init
     \/ program = "scan_conn" /\ ScanConn!Init
     \/ program = "gatt_server" /\ GattServer!Init
     \/ program = "ble" /\ Boot!Init
     \/ program = "lcd_ui" /\ PipeBender!Init
     \/ program = "lvgl" /\ Lvgl!Init
     \/ program = "sys_monitor" /\ Monitor!Init

\* A step of context t.
Step(t) ==
  \/ program = "kmsq" /\ Kmsq!Step(t)
  \/ program = "fifo" /\ Fifo!Step(t)
  \/ program = "poll" /\ Poll!Step(t)
  \/ program = "sem" /\ Sem!Step(t)
  \/ program = "event" /\ Event!Step(t)
  \/ program = "work_queue" /\ WorkQueue!Step(t)
  \/ program = "kmutex" /\ Kmutex!Step(t)
  \/ program = "spinlock" /\ Spinlock!Step(t)
  \/ program = "atomic" /\ Atomic!Step(t)
  \/ program = "rs485" /\ Rs485!Step(t)
  \/ program = "adv_conn" /\ AdvConn!Step(t)
  \/ program = "scan_conn" /\ ScanConn!Step(t)
  \/ program = "gatt_server" /\ GattServer!Step(t)
  \/ program = "ble" /\ Boot!Step(t)
  \/ program = "lcd_ui" /\ PipeBender!Step(t)
  \/ program = "lvgl" /\ Lvgl!Step(t)
  \/ program = "sys_monitor" /\ Monitor!Step(t)

\* Threads that sleep for a time and wait for kernel objects, and timers.
Scheduled == {"consumer", "producer", "poller", "waiter", "temperature", "humidity",
              "demo_work_q", "timer", "A", "B", "rx", "demo", "init", "bt", "controller",
              "monitor"}
\* Interrupts, other devices and threads nobody waits for.
Free == {"clock", "sem_source", "signal_source", "trigger", "writer", "reader", "incrementer",
         "decrementer", "isr", "central", "peripheral", "notify", "user", "kernel"}

Next == (\E t \in Scheduled \union Free : Step(t)) /\ UNCHANGED program

\* The scheduler runs every thread that stays ready, and the controller ends
\* every attempt to connect.
Fairness == \A t \in Scheduled : WF_state(Step(t))

Spec == Init /\ [][Next]_vars /\ Fairness

-----------------------------------------------------------------------------
\* Every variable of the program keeps its range: queues their capacity,
\* reference counts at most one, angles their scale, LED registers 0 or 1.
TypeOK ==
  /\ program = "kmsq" => Kmsq!TypeOK
  /\ program = "fifo" => Fifo!TypeOK
  /\ program = "poll" => Poll!TypeOK
  /\ program = "sem" => Sem!TypeOK
  /\ program = "event" => Event!TypeOK
  /\ program = "work_queue" => WorkQueue!TypeOK
  /\ program = "kmutex" => Kmutex!TypeOK
  /\ program = "spinlock" => Spinlock!TypeOK
  /\ program = "atomic" => Atomic!TypeOK
  /\ program = "rs485" => Rs485!TypeOK
  /\ program = "adv_conn" => AdvConn!TypeOK
  /\ program = "scan_conn" => ScanConn!TypeOK
  /\ program = "gatt_server" => GattServer!TypeOK
  /\ program = "ble" => Boot!TypeOK
  /\ program = "lcd_ui" => PipeBender!TypeOK
  /\ program = "lvgl" => Lvgl!TypeOK
  /\ program = "sys_monitor" => Monitor!TypeOK

\* Whoever receives data from another context gets it in order, each piece once
\* and undamaged: the message queue, the FIFO with its reused slots, the RS485
\* receiver, the counter a GATT client sees.
DeliveredInOrder ==
  /\ program = "kmsq" => Kmsq!InOrder
  /\ program = "fifo" => Fifo!InOrder
  /\ program = "rs485" => Rs485!InOrder
  /\ program = "gatt_server" => GattServer!InOrder

\* No update of a value shared by several contexts is lost or counted twice:
\* under the mutex, under the spinlock, with atomic operations, between the
\* callbacks of one thread, or by adding up intervals of time.
NoUpdateLost ==
  /\ program = "kmutex" => Kmutex!NoUpdateLost
  /\ program = "spinlock" => Spinlock!NoUpdateLost
  /\ program = "atomic" => Atomic!NoUpdateLost
  /\ program = "lcd_ui" => PipeBender!NoUpdateLost
  /\ program = "lvgl" => Lvgl!NoUpdateLost
  /\ program = "sys_monitor" => Monitor!NoUpdateLost

\* No signal, work item or byte and no bit waited for is passed over without
\* being reported, but for the windows the modules name.
NothingMissed ==
  /\ program = "poll" => Poll!NothingMissed
  /\ program = "event" => Event!BothFresh
  /\ program = "work_queue" => WorkQueue!NothingMissed
  /\ program = "rs485" => Rs485!NothingMissed

\* What event_demo.c says of its wait (lines 58-60): no reading posted while the
\* waiter works on the last ones is thrown away.
EventPostsCount == program = "event" => Event!PostsCount

\* The handle, its reference and the subscriptions a program keeps are those of
\* the link it has, through failed connections, lost links and events that come
\* while it is still starting.
LinkBookkeeping ==
  /\ program = "adv_conn" => AdvConn!LinkBookkeeping
  /\ program = "scan_conn" => ScanConn!LinkBookkeeping
  /\ program = "gatt_server" => GattServer!LinkBookkeeping
  /\ program = "ble" => Boot!LinkBookkeeping

Due(k) ==
  \/ program = "poll" /\ Poll!Due(k)
  \/ program = "sem" /\ Sem!Due(k)
  \/ program = "event" /\ Event!Due(k)
  \/ program = "work_queue" /\ WorkQueue!Due(k)
  \/ program = "kmutex" /\ Kmutex!Due(k)
  \/ program = "rs485" /\ Rs485!Due(k)
  \/ program = "adv_conn" /\ AdvConn!Due(k)
  \/ program = "scan_conn" /\ ScanConn!Due(k)
  \/ program = "gatt_server" /\ GattServer!Due(k)
  \/ program = "ble" /\ Boot!Due(k)
  \/ program = "lvgl" /\ Lvgl!Due(k)

\* What somebody waits for comes: permits and signals are taken, waits end, work
\* items run, mutexes are handed over, bytes are drained, a device that lost its
\* link advertises or scans again unless that was refused, and the boot ends.
Served == \A k \in 1 .. 2 : []<>~Due(k)
=============================================================================

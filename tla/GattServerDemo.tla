--------------------------- MODULE GattServerDemo ---------------------------
(***************************************************************************)
(* package_gatt_server_demo: a peripheral with a writable LED register and *)
(* a counter that a thread increments and notifies.  The Bluetooth RX      *)
(* thread runs the attribute callbacks and the connection callbacks.  The  *)
(* stack keeps its own CCC of the central and notifies nobody without it.  *)
(***************************************************************************)
EXTENDS Program

CONSTANT MaxCount   (* bound: increments of counter_val, which is 16 bits wide  *)

CountAssumption == MaxCount \in 0 .. 2^16 - 1

Init ==
  /\ mem = [adv |-> FALSE, link |-> FALSE, ccc |-> FALSE, current_conn |-> FALSE,
            notify_enabled |-> FALSE, led_ctrl_val |-> 0, counter_val |-> 0]
  /\ pc = [init |-> "enable", bt |-> "idle", notify |-> "count"]
  /\ seen = [told |-> 0, back |-> FALSE, silent |-> FALSE]

StartAdvertising(m) ==
  \E ok \in BOOLEAN :
    /\ mem' = [m EXCEPT !.adv = (m.adv \/ ok)]
    /\ seen' = [seen EXCEPT !.silent = ~ok]

\* gatt_server_demo_init
Enable ==
  \/ Go("init", "enable", "start") /\ UNCHANGED <<mem, seen>>
  \/ /\ Go("init", "enable", "done")
     /\ seen' = [seen EXCEPT !.silent = TRUE]
     /\ UNCHANGED mem
Start == Go("init", "start", "done") /\ StartAdvertising(mem)

\* The central is told a value of the counter, by an answer or a notification.
Tell(n) == [seen EXCEPT !.told = n, !.back = (@ \/ n < seen.told)]

ReadCounter ==
  /\ Go("bt", "idle", "idle")
  /\ mem.link
  /\ seen' = Tell(mem.counter_val)
  /\ UNCHANGED mem

\* write_led_ctrl refuses long writes, other lengths and other values.
Valid(offset, len, value) == offset = 0 /\ len = 1 /\ value \in 0 .. 1
WriteLed ==
  \E offset \in 0 .. 1, len \in 1 .. 2, value \in 0 .. 2 :
    /\ Go("bt", "idle", "idle")
    /\ mem.link
    /\ Valid(offset, len, value)
    /\ mem' = [mem EXCEPT !.led_ctrl_val = value]
    /\ UNCHANGED seen

CounterCccChanged ==
  \E on \in BOOLEAN :
    /\ Go("bt", "idle", "idle")
    /\ mem.link
    /\ mem' = [mem EXCEPT !.ccc = on, !.notify_enabled = on]
    /\ UNCHANGED seen

\* What the service table lets a central ask for; reads of the version and of
\* the LED register change nothing.
CentralRequests == ReadCounter \/ WriteLed \/ CounterCccChanged

Connected ==
  /\ Go("bt", "connected", "idle")
  /\ mem' = [mem EXCEPT !.current_conn = TRUE]
  /\ UNCHANGED seen

ConnectFailed ==
  /\ Go("bt", "failed", "idle")
  /\ seen' = [seen EXCEPT !.silent = TRUE]
  /\ UNCHANGED mem

Disconnected ==
  /\ Go("bt", "disconnected", "idle")
  /\ StartAdvertising([mem EXCEPT !.notify_enabled = FALSE, !.current_conn = FALSE])

\* gatt_demo_notify_thread
Count ==
  /\ mem.counter_val < MaxCount
  /\ Go("notify", "count", "check")
  /\ mem' = [mem EXCEPT !.counter_val = @ + 1]
  /\ UNCHANGED seen
CheckEnabled ==
  /\ Go("notify", "check", IF mem.notify_enabled THEN "notify" ELSE "count")
  /\ UNCHANGED <<mem, seen>>
Notify ==
  /\ Go("notify", "notify", "count")
  /\ seen' = IF mem.link /\ mem.ccc THEN Tell(mem.counter_val) ELSE seen
  /\ UNCHANGED mem

\* The central and the controller.
CentralConnects ==
  /\ mem.adv /\ ~mem.link
  /\ \/ /\ Go("bt", "idle", "connected")
        /\ mem' = [mem EXCEPT !.adv = FALSE, !.link = TRUE]
     \/ /\ Go("bt", "idle", "failed")
        /\ mem' = [mem EXCEPT !.adv = FALSE]
  /\ UNCHANGED seen
CentralLeaves ==
  /\ mem.link
  /\ Go("bt", "idle", "disconnected")
  /\ mem' = [mem EXCEPT !.link = FALSE, !.ccc = FALSE]
  /\ UNCHANGED seen

Step(t) ==
  \/ t = "init" /\ (Enable \/ Start)
  \/ t = "bt" /\ (Connected \/ ConnectFailed \/ Disconnected)
  \/ t = "notify" /\ (Count \/ CheckEnabled \/ Notify)
  \/ t = "central" /\ (CentralRequests \/ CentralConnects \/ CentralLeaves)

TypeOK ==
  /\ {mem.adv, mem.link, mem.ccc, mem.current_conn, mem.notify_enabled} \subseteq BOOLEAN
  /\ mem.led_ctrl_val \in 0 .. 1
  /\ mem.counter_val \in 0 .. MaxCount
  /\ pc.bt \in {"idle", "connected", "failed", "disconnected"}
  /\ pc.notify \in {"count", "check", "notify"}

\* Reads and notifications together never show the central an older value
\* after a newer one, through any number of links.
InOrder == ~seen.back /\ seen.told <= mem.counter_val

\* Between callbacks the flag is the subscription of the present central, so no
\* subscription passes from one central to the next.
LinkBookkeeping ==
  /\ pc.bt = "idle" => mem.notify_enabled = mem.ccc /\ mem.current_conn = mem.link
  /\ ~(mem.adv /\ mem.link)

Due(k) == k = 1 /\ ~seen.silent /\ ~mem.adv /\ ~mem.link
=============================================================================

------------------------------ MODULE BleBoot ------------------------------
(***************************************************************************)
(* The start of the Bluetooth side: the SYS_INIT functions run in the      *)
(* order of their priorities (90 to 97) in the main thread, each whether   *)
(* or not an earlier one failed.  Advertising starts second, so from then  *)
(* on a central may connect, subscribe and leave between any two, and the  *)
(* Bluetooth RX thread runs ble_conn's callbacks.                          *)
(***************************************************************************)
EXTENDS Program, SequencesExt

CONSTANT TableSizes   (* values of CONFIG_PACKAGE_BLE_CONN_MAX_EVENT_CBS     *)

TableAssumption == TableSizes \subseteq Nat \ {0}

Services   == {"ota", "client", "led"}   \* register at 95, 96, 97
Subscribed == {"ota", "led"}             \* have flags set by a CCC write

Init ==
  /\ \E max \in TableSizes :
       mem = [bt_ready |-> FALSE, adv |-> FALSE, link |-> FALSE, active_conn |-> FALSE,
              transport_ready |-> FALSE, cb_mutex |-> "free", max |-> max, event_cbs |-> <<>>,
              rx_callback |-> FALSE, flags |-> {}, service |-> "ota"]
  /\ pc = [init |-> "core", bt |-> "idle"]
  /\ seen = {}   \* services not registered when the last link was lost

-----------------------------------------------------------------------------
(* The main thread                                                           *)

CoreInit ==
  /\ Go("init", "core", "adv")
  /\ \E ok \in BOOLEAN : mem' = [mem EXCEPT !.bt_ready = ok]
  /\ UNCHANGED seen

\* bt_le_adv_start fails without the stack.
AdvInit ==
  /\ Go("init", "adv", "transport")
  /\ \E ok \in BOOLEAN : mem' = [mem EXCEPT !.adv = (mem.bt_ready /\ ok)]
  /\ UNCHANGED seen

TransportInit ==
  /\ Go("init", "transport", "conn")
  /\ \E ok \in BOOLEAN : mem' = [mem EXCEPT !.transport_ready = ok]
  /\ UNCHANGED seen

\* k_mutex_init of a mutex that dispatch_event may have used already.
ConnInit ==
  /\ Go("init", "conn", "register")
  /\ mem' = [mem EXCEPT !.cb_mutex = "free"]
  /\ UNCHANGED seen

AfterService(s) == CASE s = "ota" -> "client" [] s = "client" -> "led" [] s = "led" -> "none"
Continue(from, m) ==
  LET next == AfterService(m.service) IN
  /\ Go("init", from, IF next = "none" THEN "done" ELSE "register")
  /\ mem' = [m EXCEPT !.service = next]

\* ble_conn_register_event_cb, up to the test for a full table; a service that
\* finds it full gives up.
RegisterLock ==
  /\ mem.cb_mutex = "free"
  /\ IF Len(mem.event_cbs) >= mem.max
     THEN Continue("register", mem)
     ELSE Go("init", "register", "fill") /\ mem' = [mem EXCEPT !.cb_mutex = "init"]
  /\ UNCHANGED seen

RegisterFill ==
  LET m == [mem EXCEPT !.event_cbs = Append(@, mem.service), !.cb_mutex = "free"] IN
  /\ IF mem.service = "ota"
     THEN Go("init", "fill", "rx") /\ mem' = m
     ELSE Continue("fill", m)
  /\ UNCHANGED seen

\* ... and then the OTA service registers with the transport.
RegisterRx ==
  /\ Continue("rx", [mem EXCEPT !.rx_callback = mem.transport_ready])
  /\ UNCHANGED seen

-----------------------------------------------------------------------------
(* The central and the Bluetooth RX thread                                   *)

CentralConnects ==
  /\ mem.adv
  /\ Go("bt", "idle", "connected")
  /\ mem' = [mem EXCEPT !.adv = FALSE, !.link = TRUE]
  /\ UNCHANGED seen

\* It subscribes or unsubscribes.
CentralSubscribes ==
  /\ mem.link
  /\ Go("bt", "idle", "idle")
  /\ \E s \in Subscribed, on \in BOOLEAN :
       mem' = [mem EXCEPT !.flags = IF on THEN @ \union {s} ELSE @ \ {s}]
  /\ UNCHANGED seen

CentralLeaves ==
  /\ mem.link
  /\ Go("bt", "idle", "disconnected")
  /\ mem' = [mem EXCEPT !.link = FALSE]
  /\ UNCHANGED seen

Connected ==
  /\ Go("bt", "connected", "announce")
  /\ mem' = [mem EXCEPT !.active_conn = TRUE]
  /\ UNCHANGED seen

\* dispatch_event of the connection: no service acts on it.
Announce ==
  /\ Go("bt", "announce", "idle")
  /\ mem.cb_mutex = "free"
  /\ UNCHANGED <<mem, seen>>

\* dispatch_event tells the services registered so far; they clear their flags.
Dispatch ==
  /\ Go("bt", "disconnected", "drop")
  /\ mem.cb_mutex = "free"
  /\ mem' = [mem EXCEPT !.flags = @ \ ToSet(mem.event_cbs)]
  /\ seen' = Services \ ToSet(mem.event_cbs)

Drop ==
  /\ Go("bt", "drop", "idle")
  /\ \E ok \in BOOLEAN : mem' = [mem EXCEPT !.active_conn = FALSE, !.adv = ok]
  /\ UNCHANGED seen

Step(t) ==
  \/ t = "init" /\ (CoreInit \/ AdvInit \/ TransportInit \/ ConnInit \/ RegisterLock \/ RegisterFill \/ RegisterRx)
  \/ t = "bt" /\ (Connected \/ Announce \/ Dispatch \/ Drop)
  \/ t = "central" /\ (CentralConnects \/ CentralSubscribes \/ CentralLeaves)

TypeOK ==
  /\ {mem.bt_ready, mem.adv, mem.link, mem.active_conn, mem.transport_ready, mem.rx_callback} \subseteq BOOLEAN
  /\ mem.cb_mutex \in {"free", "init"}
  /\ Len(mem.event_cbs) <= mem.max /\ ToSet(mem.event_cbs) \subseteq Services
  /\ mem.flags \subseteq Subscribed
  /\ seen \subseteq Services
  /\ pc.init \in {"core", "adv", "transport", "conn", "register", "fill", "rx", "done"}
  /\ pc.bt \in {"idle", "connected", "announce", "disconnected", "drop"}

\* Between callbacks active_conn is the link; a flag outlives its central only
\* if its service was not registered when that central left; and the OTA
\* service hears the MCU only if it also hears of lost links.
LinkBookkeeping ==
  /\ pc.bt = "idle" => mem.active_conn = mem.link
  /\ pc.bt = "idle" /\ ~mem.link => mem.flags \subseteq seen
  /\ mem.rx_callback => "ota" \in ToSet(mem.event_cbs)

\* The boot ends, whatever the central does.
Due(k) == k = 1 /\ pc.init # "done"
=============================================================================

------------------------------ MODULE BleLink ------------------------------
(***************************************************************************)
(* The peripheral's link: advertising (package_ble_adv), the connection    *)
(* manager (package_ble_conn) and the OTA service that relays what the     *)
(* host MCU sends to the connected central (package_ble_gatt_ota_service). *)
(*                                                                         *)
(* Three threads meet here: the Bluetooth RX thread, which runs the        *)
(* connection and attribute callbacks one after the other; the RX thread   *)
(* of mcu_transport, which calls on_mcu_rx; an application thread that     *)
(* uses the API of ble_adv and ble_conn.                                   *)
(*                                                                         *)
(* The Bluetooth stack is external.  It allows one link at a time          *)
(* (CONFIG_BT_MAX_CONN is left at 1), so a struct bt_conn pointer names    *)
(* whatever link there is; the links of a behaviour are numbered to tell   *)
(* them apart.  A start of advertising may fail for reasons of its own.    *)
(***************************************************************************)
EXTENDS Naturals

CONSTANTS
  MaxLinks,   (* bound: links in a behaviour                                *)
  MaxChunks   (* bound: chunks mcu_transport delivers in a behaviour        *)

ASSUME BoundAssumption == MaxLinks \in Nat /\ MaxChunks \in Nat

Characteristics == {"ctrl_pt", "status"}   \* those with a CCC
Lengths         == {"short", "long"}       \* up to / over the default ATT MTU - 3

VARIABLES
  \* the stack
  advertising,     \* BOOLEAN
  link,            \* the current link, 0 if none
  links,           \* number of the last link
  subscribed,      \* characteristics the current central subscribed to
  mtu_raised,      \* the current central negotiated a larger MTU
  \* ble_adv, ble_conn and the OTA service
  adv_active,
  active_conn,     \* the link it was referenced for, 0 for NULL
  refs,            \* per link: references ble_conn holds
  notify_enabled,  \* ctrl_pt_notify_enabled and status_notify_enabled
  \* threads
  bt,              \* the Bluetooth RX thread
  restarted,       \* what ble_adv_start returned to disconnected()
  app,             \* the application thread
  rx,              \* mcu_transport's RX thread in on_mcu_rx
  rx_len,          \* length of the chunk it relays
  rx_conn,         \* its local conn
  chunks,          \* number of the last chunk
  outcome,         \* what became of it
  steady           \* history: its subscriber stayed since on_mcu_rx was called

stackVars == <<advertising, link, links, subscribed, mtu_raised>>
codeVars  == <<adv_active, active_conn, refs, notify_enabled>>
btVars    == <<bt, restarted>>
rxVars    == <<rx, rx_len, rx_conn, chunks, outcome, steady>>
vars      == <<stackVars, codeVars, btVars, app, rxVars>>

\* All SYS_INIT functions have run; ble_adv_init's start may have failed.
Init ==
  /\ advertising \in BOOLEAN
  /\ adv_active = (IF advertising THEN 1 ELSE 0)
  /\ link = 0
  /\ links = 0
  /\ subscribed = {}
  /\ mtu_raised = FALSE
  /\ active_conn = 0
  /\ refs = [l \in 1 .. MaxLinks |-> 0]
  /\ notify_enabled = {}
  /\ bt = "idle"
  /\ restarted = "none"
  /\ app = "idle"
  /\ rx = "idle"
  /\ rx_len = "short"
  /\ rx_conn = 0
  /\ chunks = 0
  /\ outcome = "none"
  /\ steady = FALSE

-----------------------------------------------------------------------------
(* The stack                                                                 *)

\* A central connects; the stack stops advertising.  (An attempt that fails
\* also reaches connected(), which returns at once: no state changes.)
Connect ==
  /\ advertising
  /\ link = 0
  /\ bt = "idle"
  /\ links < MaxLinks
  /\ link' = links + 1
  /\ links' = links + 1
  /\ advertising' = FALSE
  /\ bt' = "connected"
  /\ UNCHANGED <<subscribed, mtu_raised, codeVars, restarted, app, rxVars>>

\* The link goes down and with it what the central had configured.
LoseLink ==
  /\ link # 0
  /\ bt = "idle"
  /\ link' = 0
  /\ subscribed' = {}
  /\ mtu_raised' = FALSE
  /\ bt' = "disconnected"
  /\ restarted' = "none"
  /\ steady' = FALSE
  /\ UNCHANGED <<advertising, links, codeVars, app, rx, rx_len, rx_conn, chunks, outcome>>

RaiseMtu ==
  /\ link # 0
  /\ bt = "idle"
  /\ ~mtu_raised
  /\ mtu_raised' = TRUE
  /\ UNCHANGED <<advertising, link, links, subscribed, codeVars, btVars, app, rxVars>>

\* bt_le_adv_start: what it may return, and its effect.
StackStart(result) ==
  \/ result = "ok" /\ ~advertising /\ link = 0 /\ advertising' = TRUE
  \/ result = "EALREADY" /\ advertising /\ UNCHANGED advertising
  \/ result = "failed" /\ UNCHANGED advertising

\* bt_gatt_notify for the (one) connection object: what it makes of a chunk.
NotifyResult(n) ==
  CASE link = 0                      -> "refused"
    [] "status" \notin subscribed    -> "refused"
    [] n = "long" /\ ~mtu_raised     -> "too_long"
    [] OTHER                         -> "sent"

-----------------------------------------------------------------------------
(* The Bluetooth RX thread                                                   *)

\* Seeded mistakes: an event callback takes a reference of its own; the
\* handle is not kept.
ConnectedRefTwice ==
  /\ bt = "connected"
  /\ active_conn' = link
  /\ refs' = [refs EXCEPT ![link] = @ + 2]
  /\ bt' = "idle"
  /\ UNCHANGED <<stackVars, adv_active, notify_enabled, restarted, app, rxVars>>

\* connected(): keep the handle, dispatch CONNECTED (which the services ignore).
Connected ==
  /\ bt = "connected"
  /\ active_conn' = link
  /\ refs' = [refs EXCEPT ![link] = @ + 1]
  /\ bt' = "idle"
  /\ UNCHANGED <<stackVars, adv_active, notify_enabled, restarted, app, rxVars>>

\* Seeded mistake: the subscriptions of the lost central are kept.
DispatchLostKeepsFlags ==
  /\ bt = "disconnected"
  /\ bt' = "drop"
  /\ UNCHANGED <<stackVars, codeVars, restarted, app, rxVars>>

\* disconnected(): dispatch DISCONNECTED; the OTA service forgets the
\* subscriptions.
DispatchLost ==
  /\ bt = "disconnected"
  /\ notify_enabled' = {}
  /\ bt' = "drop"
  /\ UNCHANGED <<stackVars, adv_active, active_conn, refs, restarted, app, rxVars>>

\* Seeded mistake: the reference is given up, the pointer is not.
DropConnKeepsHandle ==
  /\ bt = "drop"
  /\ active_conn # 0
  /\ refs' = [refs EXCEPT ![active_conn] = @ - 1]
  /\ bt' = "restart"
  /\ UNCHANGED <<stackVars, adv_active, active_conn, notify_enabled, restarted, app, rxVars>>

\* disconnected(): give the handle up ...
DropConn ==
  /\ bt = "drop"
  /\ IF active_conn # 0
     THEN /\ refs' = [refs EXCEPT ![active_conn] = @ - 1]
          /\ active_conn' = 0
     ELSE UNCHANGED <<refs, active_conn>>
  /\ bt' = "restart"
  /\ UNCHANGED <<stackVars, adv_active, notify_enabled, restarted, app, rxVars>>

\* Seeded mistake: no advertising after a lost link.
RestartForgotten ==
  /\ bt = "restart"
  /\ bt' = "idle"
  /\ restarted' = "ok"
  /\ UNCHANGED <<stackVars, codeVars, app, rxVars>>

\* ... and advertise again: ble_adv_start's stack call, its result ignored ...
Restart ==
  /\ bt = "restart"
  /\ \E result \in {"ok", "EALREADY", "failed"} :
       /\ StackStart(result)
       /\ restarted' = result
       /\ bt' = IF result = "ok" THEN "mark" ELSE "idle"
  /\ UNCHANGED <<link, links, subscribed, mtu_raised, codeVars, app, rxVars>>

\* ... and its atomic_set.
MarkRestarted ==
  /\ bt = "mark"
  /\ adv_active' = 1
  /\ bt' = "idle"
  /\ UNCHANGED <<stackVars, active_conn, refs, notify_enabled, restarted, app, rxVars>>

\* Seeded mistake: one CCC callback for both flags forgets the other one.
CccChangedOverwrites(c, enabled) ==
  /\ link # 0
  /\ bt = "idle"
  /\ subscribed' = IF enabled THEN subscribed \union {c} ELSE subscribed \ {c}
  /\ notify_enabled' = IF enabled THEN {c} ELSE {}
  /\ steady' = (steady /\ (c = "status" => enabled))
  /\ UNCHANGED <<advertising, link, links, mtu_raised, adv_active, active_conn, refs, btVars, app,
                 rx, rx_len, rx_conn, chunks, outcome>>

\* The central writes a CCC: ctrl_pt_ccc_changed, status_ccc_changed.
CccChanged(c, enabled) ==
  /\ link # 0
  /\ bt = "idle"
  /\ subscribed' = IF enabled THEN subscribed \union {c} ELSE subscribed \ {c}
  /\ notify_enabled' = IF enabled THEN notify_enabled \union {c} ELSE notify_enabled \ {c}
  /\ steady' = (steady /\ (c = "status" => enabled))
  /\ UNCHANGED <<advertising, link, links, mtu_raised, adv_active, active_conn, refs, btVars, app,
                 rx, rx_len, rx_conn, chunks, outcome>>

-----------------------------------------------------------------------------
(* mcu_transport's RX thread: on_mcu_rx                                      *)

RxCalled(n) ==
  /\ rx = "idle"
  /\ chunks < MaxChunks
  /\ chunks' = chunks + 1
  /\ rx_len' = n
  /\ outcome' = "none"
  /\ steady' = (bt = "idle" /\ link # 0 /\ "status" \in subscribed)
  /\ rx' = "check"
  /\ UNCHANGED <<stackVars, codeVars, btVars, app, rx_conn>>

RxCheckSubscriber ==
  /\ rx = "check"
  /\ \/ /\ "status" \in notify_enabled
        /\ rx' = "get"
        /\ UNCHANGED outcome
     \/ /\ "status" \notin notify_enabled
        /\ rx' = "idle"
        /\ outcome' = "no_subscriber"
  /\ UNCHANGED <<stackVars, codeVars, btVars, app, rx_len, rx_conn, chunks, steady>>

RxGetActive ==
  /\ rx = "get"
  /\ rx_conn' = active_conn
  /\ \/ active_conn # 0 /\ rx' = "notify" /\ UNCHANGED outcome
     \/ active_conn = 0 /\ rx' = "idle" /\ outcome' = "no_connection"
  /\ UNCHANGED <<stackVars, codeVars, btVars, app, rx_len, chunks, steady>>

RxNotify ==
  /\ rx = "notify"
  /\ outcome' = NotifyResult(rx_len)
  /\ rx_conn' = 0
  /\ rx' = "idle"
  /\ UNCHANGED <<stackVars, codeVars, btVars, app, rx_len, chunks, steady>>

-----------------------------------------------------------------------------
(* The application thread                                                    *)

\* ble_adv_start and ble_adv_stop: the stack call, then the atomic_set.
AppStart ==
  /\ app = "idle"
  /\ StackStart("ok")
  /\ app' = "mark_on"
  /\ UNCHANGED <<link, links, subscribed, mtu_raised, codeVars, btVars, rxVars>>

AppStop ==
  /\ app = "idle"
  /\ advertising' = FALSE
  /\ app' = "mark_off"
  /\ UNCHANGED <<link, links, subscribed, mtu_raised, codeVars, btVars, rxVars>>

AppMark ==
  /\ app \in {"mark_on", "mark_off"}
  /\ adv_active' = IF app = "mark_on" THEN 1 ELSE 0
  /\ app' = "idle"
  /\ UNCHANGED <<stackVars, active_conn, refs, notify_enabled, btVars, rxVars>>

\* ble_conn_disconnect: it finds a connection ...
AppDisconnect ==
  /\ app = "idle"
  /\ active_conn # 0
  /\ app' = "disconnect"
  /\ UNCHANGED <<stackVars, codeVars, btVars, rxVars>>

\* ... and asks the stack to end it: without effect if it is gone, and on the
\* next link if another central took its place.  (If connected() is still to
\* run for that link, it goes down later: LoseLink.)
AppDisconnectCall ==
  /\ app = "disconnect"
  /\ app' = "idle"
  /\ IF link # 0 /\ bt = "idle"
     THEN /\ link' = 0
          /\ subscribed' = {}
          /\ mtu_raised' = FALSE
          /\ bt' = "disconnected"
          /\ restarted' = "none"
          /\ steady' = FALSE
     ELSE UNCHANGED <<link, subscribed, mtu_raised, btVars, steady>>
  /\ UNCHANGED <<advertising, links, codeVars, rx, rx_len, rx_conn, chunks, outcome>>

-----------------------------------------------------------------------------
Stack     == Connect \/ LoseLink \/ RaiseMtu
BtThread  == Connected \/ DispatchLost \/ DropConn \/ Restart \/ MarkRestarted
Attribute == \E c \in Characteristics, enabled \in BOOLEAN : CccChanged(c, enabled)
RxThread  == RxCheckSubscriber \/ RxGetActive \/ RxNotify
AppThread == AppStart \/ AppStop \/ AppMark \/ AppDisconnect \/ AppDisconnectCall

Next ==
  \/ Stack
  \/ BtThread
  \/ Attribute
  \/ \E n \in Lengths : RxCalled(n)
  \/ RxThread
  \/ AppThread

(***************************************************************************)
(* The Bluetooth RX thread is never kept from running: its priority is     *)
(* above the application's, and nothing in its handlers waits for a        *)
(* thread of the application.                                              *)
(***************************************************************************)
Spec     == Init /\ [][Next]_vars
FairSpec == Spec /\ WF_vars(BtThread)

-----------------------------------------------------------------------------
\* Every variable keeps its range; a link is never referenced twice.
TypeOK ==
  /\ advertising \in BOOLEAN
  /\ link \in 0 .. MaxLinks
  /\ links \in 0 .. MaxLinks
  /\ subscribed \subseteq Characteristics
  /\ mtu_raised \in BOOLEAN
  /\ adv_active \in {0, 1}
  /\ active_conn \in 0 .. MaxLinks
  /\ refs \in [1 .. MaxLinks -> {0, 1}]
  /\ notify_enabled \subseteq Characteristics
  /\ bt \in {"idle", "connected", "disconnected", "drop", "restart", "mark"}
  /\ restarted \in {"none", "ok", "EALREADY", "failed"}
  /\ app \in {"idle", "mark_on", "mark_off", "disconnect"}
  /\ rx \in {"idle", "check", "get", "notify"}
  /\ rx_len \in Lengths
  /\ rx_conn \in 0 .. MaxLinks
  /\ chunks \in 0 .. MaxChunks
  /\ outcome \in {"none", "sent", "no_subscriber", "no_connection", "refused", "too_long"}
  /\ steady \in BOOLEAN

\* Between connection events active_conn is the link the stack has, and
\* ble_conn holds one reference, to that link, and none to an earlier one: no
\* connection object is leaked or given up twice.
ActiveConnIsTheLink ==
  bt = "idle" =>
    /\ active_conn = link
    /\ \A l \in 1 .. MaxLinks : refs[l] = IF l = link THEN 1 ELSE 0

\* Between connection events the OTA service's flags are what the central of
\* the current link subscribed to; a new central starts with none.
FlagsFollowCentral == bt = "idle" => notify_enabled = subscribed

\* While the link and the subscription last, a chunk from the MCU is not lost
\* to a stale flag or handle; the one reason left is its length.
RelayedWhileSubscribed ==
  steady => outcome \notin {"no_subscriber", "no_connection", "refused"}

\* After a lost link the device advertises again, unless the stack refuses.
AdvertisesAgain == bt = "disconnected" ~> (advertising \/ restarted = "failed")

\* The header of ble_conn_get_active: the pointer is valid only until a
\* disconnection event.  on_mcu_rx hands the stack no handle whose
\* disconnection ble_conn has already handled.
HandleIsValid == rx = "notify" => refs[rx_conn] = 1
=============================================================================

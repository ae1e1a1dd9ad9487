---------------------------- MODULE AdvConnDemo ----------------------------
(***************************************************************************)
(* package_adv_conn_demo: a peripheral that advertises, accepts one        *)
(* central, and advertises again after it has gone.  The controller stops  *)
(* advertising by itself when a link comes up.  Links are numbered 1 and 2 *)
(* in turn, so that a handle left over from the last one shows.            *)
(***************************************************************************)
EXTENDS Program

NextLink(l) == IF l = 1 THEN 2 ELSE 1

Init ==
  /\ mem = [adv |-> FALSE, link |-> 0, last |-> 2, current_conn |-> 0, refs |-> [c \in 1 .. 2 |-> 0]]
  /\ pc = [init |-> "enable", bt |-> "idle"]
  /\ seen = FALSE   \* a refused or failed call left the device silent

\* start_advertising: bt_le_adv_start may refuse, which is only logged.
StartAdvertising(m) ==
  \E ok \in BOOLEAN :
    /\ mem' = [m EXCEPT !.adv = (m.adv \/ ok)]
    /\ seen' = ~ok

\* ble_adv_conn_demo_init
Enable ==
  \/ Go("init", "enable", "start") /\ UNCHANGED <<mem, seen>>
  \/ Go("init", "enable", "done") /\ seen' = TRUE /\ UNCHANGED mem
Start == Go("init", "start", "done") /\ StartAdvertising(mem)

\* Seeded mistake: the reference is taken twice.
ConnectedRefTwice ==
  /\ Go("bt", "connected", "idle")
  /\ mem' = [mem EXCEPT !.current_conn = mem.link, !.refs[mem.link] = @ + 2]
  /\ UNCHANGED seen

Connected ==
  /\ Go("bt", "connected", "idle")
  /\ mem' = [mem EXCEPT !.current_conn = mem.link, !.refs[mem.link] = @ + 1]
  /\ UNCHANGED seen

\* connected with conn_err # 0: nothing starts advertising again.
ConnectFailed == Go("bt", "failed", "idle") /\ seen' = TRUE /\ UNCHANGED mem

\* Seeded mistake: the device does not advertise again.
DisconnectedForgets ==
  /\ Go("bt", "disconnected", "idle")
  /\ LET c == mem.current_conn
     IN mem' = IF c = 0 THEN mem ELSE [mem EXCEPT !.current_conn = 0, !.refs[c] = @ - 1]
  /\ UNCHANGED seen

Disconnected ==
  /\ Go("bt", "disconnected", "idle")
  /\ LET c == mem.current_conn
     IN StartAdvertising(IF c = 0 THEN mem
                         ELSE [mem EXCEPT !.current_conn = 0, !.refs[c] = @ - 1])

\* The central and the controller.
CentralConnects ==
  /\ mem.adv /\ mem.link = 0
  /\ \/ /\ Go("bt", "idle", "connected")
        /\ mem' = [mem EXCEPT !.adv = FALSE, !.link = NextLink(mem.last), !.last = NextLink(@)]
     \/ /\ Go("bt", "idle", "failed")
        /\ mem' = [mem EXCEPT !.adv = FALSE]
  /\ UNCHANGED seen
CentralLeaves ==
  /\ mem.link # 0
  /\ Go("bt", "idle", "disconnected")
  /\ mem' = [mem EXCEPT !.link = 0]
  /\ UNCHANGED seen

Step(t) ==
  \/ t = "init" /\ (Enable \/ Start)
  \/ t = "bt" /\ (Connected \/ ConnectFailed \/ Disconnected)
  \/ t = "central" /\ (CentralConnects \/ CentralLeaves)

TypeOK ==
  /\ mem.adv \in BOOLEAN
  /\ {mem.link, mem.current_conn} \subseteq 0 .. 2
  /\ mem.refs \in [1 .. 2 -> 0 .. 1]
  /\ pc.init \in {"enable", "start", "done"}
  /\ pc.bt \in {"idle", "connected", "failed", "disconnected"}

\* Between callbacks current_conn is the link; the program holds one reference
\* to it and none to an earlier one.
LinkBookkeeping ==
  /\ pc.bt = "idle" => mem.current_conn = mem.link
  /\ \A c \in 1 .. 2 : mem.refs[c] = (IF mem.current_conn = c THEN 1 ELSE 0)
  /\ ~(mem.adv /\ mem.link # 0)

\* The device is reachable again, unless a call was refused.
Due(k) == k = 1 /\ ~seen /\ ~mem.adv /\ mem.link = 0
=============================================================================

---------------------------- MODULE ScanConnDemo ----------------------------
(***************************************************************************)
(* package_ble_scan_conn_demo: a central that scans for one name, stops    *)
(* scanning, asks for a connection, and scans again when that failed or    *)
(* the link is lost.  active_conn holds the reference of bt_conn_le_create *)
(* from the request on.                                                    *)
(***************************************************************************)
EXTENDS Program

NextLink(l) == IF l = 1 THEN 2 ELSE 1

Init ==
  /\ mem = [scanning |-> FALSE, radio |-> "off", conn |-> 2, active_conn |-> 0,
            refs |-> [c \in 1 .. 2 |-> 0]]
  /\ pc = [init |-> "enable", bt |-> "idle"]
  /\ seen = FALSE   \* bt_enable or the last bt_le_scan_start failed

StartScan ==
  \E ok \in BOOLEAN :
    /\ mem' = [mem EXCEPT !.scanning = ok]
    /\ seen' = ~ok

\* ble_scan_conn_demo_init
Enable ==
  \/ Go("init", "enable", "start") /\ UNCHANGED <<mem, seen>>
  \/ Go("init", "enable", "done") /\ seen' = TRUE /\ UNCHANGED mem
Start == Go("init", "start", "done") /\ StartScan

\* ad_name_match_cb on the name field of a report; scan_cb goes on with a
\* connectable advertiser of the target name only.
NameMatches(report) == report.name = "target"
Report ==
  \E report \in [connectable : BOOLEAN, name : {"target", "other", "none"}] :
    /\ mem.scanning
    /\ report.connectable /\ NameMatches(report)
    /\ Go("bt", "idle", "stop")
    /\ UNCHANGED <<mem, seen>>

StopScan ==
  \/ /\ Go("bt", "stop", "create")
     /\ mem' = [mem EXCEPT !.scanning = FALSE]
     /\ UNCHANGED seen
  \/ Go("bt", "stop", "idle") /\ UNCHANGED <<mem, seen>>

\* bt_conn_le_create is queued, or fails and the scan starts again.
Create ==
  \/ LET c == NextLink(mem.conn) IN
     /\ Go("bt", "create", "idle")
     /\ mem' = [mem EXCEPT !.radio = "connecting", !.conn = c, !.active_conn = c, !.refs[c] = @ + 1]
     /\ UNCHANGED seen
  \/ Go("bt", "create", "rescan") /\ UNCHANGED <<mem, seen>>

Release == [mem EXCEPT !.active_conn = 0, !.refs[mem.active_conn] = @ - 1]

\* connected with conn_err # 0.
ConnectFailed ==
  /\ Go("bt", "failed", "rescan")
  /\ mem' = Release
  /\ UNCHANGED seen

\* Seeded mistake: the handle of a lost link is kept.
DisconnectedKeepsConn == Go("bt", "disconnected", "rescan") /\ UNCHANGED <<mem, seen>>

Disconnected ==
  /\ Go("bt", "disconnected", "rescan")
  /\ mem' = IF mem.active_conn # 0 THEN Release ELSE mem
  /\ UNCHANGED seen

Rescan == Go("bt", "rescan", "idle") /\ StartScan

\* The controller: a request succeeds or times out; a link may be lost.
Connects ==
  /\ mem.radio = "connecting"
  /\ \/ Go("bt", "idle", "idle") /\ mem' = [mem EXCEPT !.radio = "up"]
     \/ Go("bt", "idle", "failed") /\ mem' = [mem EXCEPT !.radio = "off"]
  /\ UNCHANGED seen
LinkLost ==
  /\ mem.radio = "up"
  /\ Go("bt", "idle", "disconnected")
  /\ mem' = [mem EXCEPT !.radio = "off"]
  /\ UNCHANGED seen

Step(t) ==
  \/ t = "init" /\ (Enable \/ Start)
  \/ t = "bt" /\ (StopScan \/ Create \/ ConnectFailed \/ Disconnected \/ Rescan)
  \/ t = "controller" /\ Connects
  \/ t = "peripheral" /\ (Report \/ LinkLost)

TypeOK ==
  /\ mem.scanning \in BOOLEAN
  /\ mem.radio \in {"off", "connecting", "up"}
  /\ mem.active_conn \in 0 .. 2
  /\ mem.refs \in [1 .. 2 -> 0 .. 1]
  /\ pc.bt \in {"idle", "stop", "create", "failed", "disconnected", "rescan"}

\* Between callbacks active_conn is the connection asked for or up, if any; the
\* program holds the one reference to it; it never scans beside it.
LinkBookkeeping ==
  /\ pc.bt = "idle" => mem.active_conn = (IF mem.radio = "off" THEN 0 ELSE mem.conn)
  /\ \A c \in 1 .. 2 : mem.refs[c] = (IF mem.active_conn = c THEN 1 ELSE 0)
  /\ mem.scanning => mem.radio = "off"

\* It scans again or gets a link, unless the scan was refused.
Due(k) == k = 1 /\ ~seen /\ ~mem.scanning /\ mem.radio # "up"
=============================================================================

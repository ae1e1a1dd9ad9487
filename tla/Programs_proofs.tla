-------------------------- MODULE Programs_proofs --------------------------
(***************************************************************************)
(* Proofs about the small programs, for every bound and every size.  An    *)
(* image runs one of them, so the invariant is a conjunction of            *)
(* implications, one per program, and each program is taken on its own.    *)
(***************************************************************************)
EXTENDS Programs, Integers, SequenceTheorems, FiniteSetTheorems, TLAPS

-----------------------------------------------------------------------------
(* Counters that wrap: every sum taken modulo a bound here is below twice    *)
(* the bound.                                                                *)

\* Nothing wraps below the bound.
LEMMA ModSmall == ASSUME NEW w \in Nat \ {0}, NEW a \in Nat, a < w PROVE a % w = a
OBVIOUS

\* From the bound to twice the bound, one wrap takes off the bound.
LEMMA ModWraps == ASSUME NEW w \in Nat \ {0}, NEW a \in Nat, w <= a, a < w + w PROVE a % w = a - w
OBVIOUS

\* A counter stays below its bound.
LEMMA ModRange == ASSUME NEW w \in Nat \ {0}, NEW a \in Nat PROVE a % w \in 0 .. w - 1
OBVIOUS

\* The next number after the n-th from a is the one after it, wrapped or not.
LEMMA ModNext ==
  ASSUME NEW w \in Nat \ {0}, NEW a \in 0 .. w - 1, NEW n \in 0 .. w - 1
  PROVE  /\ (((a + n) % w) + 1) % w = (a + n + 1) % w
         /\ ((a + n) % w) % w = (a + n) % w
<1>1. CASE a + n < w
  BY <1>1
<1>2. CASE a + n >= w
  BY <1>2
<1>. QED  BY <1>1, <1>2

\* Wrapping the successor twice is wrapping it once.
LEMMA ModTwice ==
  ASSUME NEW w \in Nat \ {0}, NEW a \in 0 .. w - 1
  PROVE  ((a + 1) % w) % w = (a + 1) % w
<1>1. CASE a + 1 < w
  BY <1>1
<1>2. CASE a + 1 = w
  BY <1>2
<1>. QED  BY <1>1, <1>2

\* The n-th number after the successor of a is the one after the n-th after a.
LEMMA ModAfter ==
  ASSUME NEW w \in Nat \ {0, 1}, NEW a \in 0 .. w - 1, NEW n \in 0 .. w - 1
  PROVE  (((a + 1) % w) + n) % w = (a + 1 + n) % w
<1>1. CASE a + 1 < w
  BY <1>1
<1>2. CASE a + 1 = w
  BY <1>2
<1>. QED  BY <1>1, <1>2

\* There is only one remainder.
LEMMA ModUnique ==
  ASSUME NEW w \in Nat \ {0}, NEW a \in Nat, NEW k \in Int, NEW r \in 0 .. w - 1, a = w * k + r
  PROVE  a % w = r
OBVIOUS

\* Two numbers less than w apart differ modulo w.
LEMMA ModDiffers ==
  ASSUME NEW w \in Nat \ {0}, NEW a \in Nat, NEW b \in Nat, a < b, b < a + w
  PROVE  a % w # b % w
<1>. DEFINE i == a \div w
            j == b \div w
<1>1. a = w * i + (a % w) /\ b = w * j + (b % w) /\ i \in Int /\ j \in Int
  OBVIOUS
<1>. SUFFICES ASSUME a % w = b % w PROVE FALSE
  OBVIOUS
<1>. DEFINE d == j - i
<1>2. d \in Int /\ w * d = w * j - w * i
  BY <1>1
<1>3. w * d = b - a
  <2>. DEFINE r == a % w
              x == w * i
              y == w * j
  <2>1. a = x + r /\ b = y + r /\ x \in Int /\ y \in Int /\ r \in Int /\ w * d = y - x
    BY <1>1, <1>2, ModRange
  <2>. HIDE DEF r, x, y, d
  <2>. QED  BY <2>1
<1>. HIDE DEF d
<1>4. CASE d <= 0
  <2>1. w * d <= 0
    BY <1>2, <1>4
  <2>. QED  BY <1>3, <2>1
<1>5. CASE d >= 1
  <2>1. w * d >= w
    BY <1>2, <1>5
  <2>. QED  BY <1>3, <2>1
<1>. QED  BY <1>2, <1>4, <1>5

\* If n divides w, taking a number modulo w first changes nothing modulo n.
LEMMA ModOfMod ==
  ASSUME NEW w \in Nat \ {0}, NEW n \in Nat \ {0}, w % n = 0, NEW a \in 0 .. w + w - 1
  PROVE  (a % w) % n = a % n
<1>1. CASE a < w
  BY <1>1, ModSmall
<1>2. CASE a >= w
  <2>. DEFINE c == w \div n
              k == a \div n
              r == a % n
  <2>1. w = n * c /\ c \in Int
    BY <1>2
  <2>2. a = n * k + r /\ k \in Int /\ r \in 0 .. n - 1
    <3>1. a = n * k + r /\ k \in Int
      OBVIOUS
    <3>2. r \in 0 .. n - 1
      BY ModRange
    <3>. QED  BY <3>1, <3>2
  <2>3. a % w = a - w /\ a - w \in Nat
    <3>1. a \in Nat /\ w <= a /\ a < w + w /\ a - w \in Nat
      BY <1>2
    <3>. QED  BY <3>1, ModWraps
  <2>. HIDE DEF c, k, r
  <2>4. n * (k - c) = n * k - n * c /\ k - c \in Int
    BY <2>1, <2>2
  <2>5. a - w = n * (k - c) + r
    <3>. DEFINE x == n * k
                y == n * c
                z == n * (k - c)
    <3>1. x \in Int /\ y \in Int /\ z = x - y /\ w = y /\ a = x + r
      BY <2>1, <2>2, <2>4
    <3>. HIDE DEF x, y, z
    <3>2. a - w = z + r
      BY <2>2, <3>1
    <3>. QED  BY <3>2 DEF z
  <2>6. (a - w) % n = r
    BY <2>2, <2>3, <2>4, <2>5, ModUnique
  <2>. QED  BY <2>3, <2>6 DEF r
<1>. QED  BY <1>1, <1>2

-----------------------------------------------------------------------------
(* package_adv_conn_demo                                                     *)

AdvConnMem ==
  [adv : BOOLEAN, link : 0 .. 2, last : 1 .. 2, current_conn : 0 .. 2, refs : [1 .. 2 -> 0 .. 1]]

\* A callback that is under way knows the link that came or went.
AdvConnInv ==
  /\ mem \in AdvConnMem
  /\ pc \in [init : {"enable", "start", "done"}, bt : {"idle", "connected", "failed", "disconnected"}]
  /\ AdvConn!LinkBookkeeping
  /\ mem.link \in {0, mem.last}
  /\ pc.init # "done" => ~mem.adv /\ mem.link = 0 /\ pc.bt = "idle"
  /\ pc.bt = "connected" => mem.current_conn = 0 /\ mem.link # 0
  /\ pc.bt = "failed" => mem.current_conn = 0 /\ mem.link = 0
  /\ pc.bt = "disconnected" => mem.current_conn # 0 /\ mem.link = 0

LEMMA AdvConnInit == AdvConn!Init => AdvConnInv
BY DEF AdvConn!Init, AdvConnInv, AdvConnMem, AdvConn!LinkBookkeeping

LEMMA AdvConnStartAdvertising ==
  ASSUME NEW m \in AdvConnMem, AdvConn!StartAdvertising(m)
  PROVE  /\ mem' \in AdvConnMem
         /\ mem'.link = m.link /\ mem'.last = m.last
         /\ mem'.current_conn = m.current_conn /\ mem'.refs = m.refs
<1>1. PICK ok \in BOOLEAN : mem' = [m EXCEPT !.adv = (m.adv \/ ok)]
  BY DEF AdvConn!StartAdvertising
<1>. DEFINE on == m.adv \/ ok
<1>2. on \in BOOLEAN
  BY DEF AdvConnMem
<1>3. mem' = [m EXCEPT !.adv = on]
  BY <1>1
<1>. HIDE DEF on
<1>. QED  BY <1>2, <1>3 DEF AdvConnMem

LEMMA AdvConnStep ==
  ASSUME AdvConnInv, NEW t, AdvConn!Step(t)
  PROVE  AdvConnInv'
<1>. USE DEF AdvConnInv, AdvConn!LinkBookkeeping, AdvConn!Go
<1>1. CASE AdvConn!Enable
  BY <1>1 DEF AdvConn!Enable
<1>2. CASE AdvConn!Start
  <2>1. AdvConn!StartAdvertising(mem) /\ pc.init = "start" /\ pc' = [pc EXCEPT !.init = "done"]
    BY <1>2 DEF AdvConn!Start
  <2>. QED  BY <2>1, AdvConnStartAdvertising
<1>3. CASE AdvConn!Connected
  <2>1. /\ mem' = [mem EXCEPT !.current_conn = mem.link, !.refs[mem.link] = @ + 1]
        /\ pc.bt = "connected" /\ pc' = [pc EXCEPT !.bt = "idle"]
    BY <1>3 DEF AdvConn!Connected
  <2>2. mem.link \in 1 .. 2 /\ ~mem.adv /\ \A c \in 1 .. 2 : mem.refs[c] = 0
    BY <2>1 DEF AdvConnMem
  <2>. DEFINE r == [mem.refs EXCEPT ![mem.link] = @ + 1]
  <2>3. /\ r \in [1 .. 2 -> 0 .. 1]
        /\ \A c \in 1 .. 2 : r[c] = IF mem.link = c THEN 1 ELSE 0
    <3>1. mem.refs \in [1 .. 2 -> 0 .. 1]
      BY DEF AdvConnMem
    <3>. QED  BY <2>2, <3>1
  <2>. HIDE DEF r
  <2>4. /\ mem' \in AdvConnMem /\ ~mem'.adv /\ mem'.link = mem.link /\ mem'.last = mem.last
        /\ mem'.current_conn = mem.link /\ mem'.refs = r
    <3>1. mem' = [mem EXCEPT !.current_conn = mem.link, !.refs = r]
      BY <2>1 DEF r
    <3>. QED  BY <2>2, <2>3, <3>1 DEF AdvConnMem
  <2>5. pc'.bt = "idle" /\ pc' \in [init : {"enable", "start", "done"}, bt : {"idle", "connected", "failed", "disconnected"}]
    BY <2>1
  <2>6. \A c \in 1 .. 2 : mem'.refs[c] = (IF mem'.current_conn = c THEN 1 ELSE 0)
    BY <2>3, <2>4
  <2>7. mem'.link \in {0, mem'.last}
    BY <2>4
  <2>. QED  BY <2>1, <2>2, <2>4, <2>5, <2>6, <2>7
<1>4. CASE AdvConn!ConnectFailed
  BY <1>4 DEF AdvConn!ConnectFailed
<1>5. CASE AdvConn!Disconnected
  <2>0. mem.current_conn \in 1 .. 2 /\ mem.refs[mem.current_conn] = 1
    BY <1>5 DEF AdvConn!Disconnected, AdvConnMem
  <2>. DEFINE r == [mem.refs EXCEPT ![mem.current_conn] = @ - 1]
              m == [mem EXCEPT !.current_conn = 0, !.refs = r]
  <2>1. /\ pc.bt = "disconnected" /\ pc' = [pc EXCEPT !.bt = "idle"]
        /\ AdvConn!StartAdvertising(m)
    BY <1>5, <2>0 DEF AdvConn!Disconnected
  <2>2. r \in [1 .. 2 -> 0 .. 1] /\ \A c \in 1 .. 2 : r[c] = 0
    <3>1. mem.refs \in [1 .. 2 -> 0 .. 1]
      BY DEF AdvConnMem
    <3>. QED  BY <2>0, <3>1
  <2>. HIDE DEF r
  <2>3. m \in AdvConnMem
    <3>1. 0 \in 0 .. 2
      OBVIOUS
    <3>. QED  BY <2>2, <3>1, Zenon DEF AdvConnMem
  <2>4. m.link = mem.link /\ m.last = mem.last /\ m.current_conn = 0 /\ m.refs = r
    BY DEF AdvConnMem
  <2>. HIDE DEF m
  <2>5. mem' \in AdvConnMem /\ mem'.link = 0 /\ mem'.current_conn = 0 /\ mem'.refs = r
    BY <2>1, <2>3, <2>4, AdvConnStartAdvertising
  <2>. QED  BY <2>1, <2>2, <2>5
<1>6. CASE AdvConn!CentralConnects
  <2>1. mem.adv /\ mem.link = 0 /\ pc.bt = "idle" /\ pc.init = "done"
    BY <1>6 DEF AdvConn!CentralConnects
  <2>2. \/ /\ pc' = [pc EXCEPT !.bt = "connected"]
           /\ mem' = [mem EXCEPT !.adv = FALSE, !.link = AdvConn!NextLink(mem.last),
                                 !.last = AdvConn!NextLink(@)]
        \/ /\ pc' = [pc EXCEPT !.bt = "failed"]
           /\ mem' = [mem EXCEPT !.adv = FALSE]
    BY <1>6 DEF AdvConn!CentralConnects
  <2>3. AdvConn!NextLink(mem.last) \in 1 .. 2
    BY DEF AdvConn!NextLink
  <2>4. mem' \in AdvConnMem
    <3>. DEFINE l == AdvConn!NextLink(mem.last)
    <3>1. l \in 1 .. 2 /\ l \in 0 .. 2
      BY <2>3
    <3>2. \/ mem' = [mem EXCEPT !.adv = FALSE, !.link = l, !.last = l]
          \/ mem' = [mem EXCEPT !.adv = FALSE]
      BY <2>2
    <3>. HIDE DEF l
    <3>3. CASE mem' = [mem EXCEPT !.adv = FALSE, !.link = l, !.last = l]
      BY <3>1, <3>3, Zenon DEF AdvConnMem
    <3>4. CASE mem' = [mem EXCEPT !.adv = FALSE]
      BY <3>4 DEF AdvConnMem
    <3>. QED  BY <3>2, <3>3, <3>4
  <2>5. /\ ~mem'.adv /\ mem'.current_conn = 0 /\ mem'.refs = mem.refs
        /\ (pc'.bt = "connected" => mem'.link = mem'.last)
        /\ (pc'.bt = "failed" => mem'.link = 0)
    <3>. DEFINE l == AdvConn!NextLink(mem.last)
    <3>1. CASE pc' = [pc EXCEPT !.bt = "connected"] /\ mem' = [mem EXCEPT !.adv = FALSE, !.link = l, !.last = l]
      <4>. HIDE DEF l
      <4>. QED  BY <2>1, <3>1 DEF AdvConnMem
    <3>2. CASE pc' = [pc EXCEPT !.bt = "failed"] /\ mem' = [mem EXCEPT !.adv = FALSE]
      BY <2>1, <3>2 DEF AdvConnMem
    <3>. QED  BY <2>2, <3>1, <3>2
  <2>6. mem'.last \in 1 .. 2
    BY <2>4 DEF AdvConnMem
  <2>. QED  BY <2>1, <2>2, <2>4, <2>5, <2>6
<1>7. CASE AdvConn!CentralLeaves
  <2>1. /\ mem.link # 0 /\ pc.bt = "idle" /\ pc' = [pc EXCEPT !.bt = "disconnected"]
        /\ mem' = [mem EXCEPT !.link = 0]
    BY <1>7 DEF AdvConn!CentralLeaves
  <2>2. mem' \in AdvConnMem /\ mem'.link = 0 /\ mem'.current_conn = mem.current_conn /\ mem'.refs = mem.refs
    BY <2>1 DEF AdvConnMem
  <2>. QED  BY <2>1, <2>2
<1>. QED  BY <1>1, <1>2, <1>3, <1>4, <1>5, <1>6, <1>7 DEF AdvConn!Step

-----------------------------------------------------------------------------
(* package_ble_scan_conn_demo                                                *)

ScanConnMem ==
  [scanning : BOOLEAN, radio : {"off", "connecting", "up"}, conn : 1 .. 2, active_conn : 0 .. 2,
   refs : [1 .. 2 -> 0 .. 1]]
ScanConnPc ==
  [init : {"enable", "start", "done"},
   bt : {"idle", "stop", "create", "failed", "disconnected", "rescan"}]

\* A callback that releases the handle has one, one that asks for a connection
\* has none; the scan is off from its stop to the request.
ScanConnInv ==
  /\ mem \in ScanConnMem
  /\ pc \in ScanConnPc
  /\ ScanConn!LinkBookkeeping
  /\ pc.bt \in {"stop", "create", "rescan"} => mem.radio = "off" /\ mem.active_conn = 0
  /\ pc.bt \in {"failed", "disconnected"} => mem.radio = "off" /\ mem.active_conn # 0
  /\ pc.bt \in {"create", "failed", "disconnected"} => ~mem.scanning
  /\ pc.init # "done" => pc.bt = "idle" /\ ~mem.scanning /\ mem.radio = "off"

LEMMA ScanConnInit == ScanConn!Init => ScanConnInv
BY DEF ScanConn!Init, ScanConnInv, ScanConnMem, ScanConnPc, ScanConn!LinkBookkeeping

LEMMA ScanConnStartScan ==
  ASSUME mem \in ScanConnMem, ScanConn!StartScan
  PROVE  /\ mem' \in ScanConnMem
         /\ mem'.radio = mem.radio /\ mem'.conn = mem.conn
         /\ mem'.active_conn = mem.active_conn /\ mem'.refs = mem.refs
<1>1. PICK ok \in BOOLEAN : mem' = [mem EXCEPT !.scanning = ok]
  BY DEF ScanConn!StartScan
<1>2. mem' \in ScanConnMem
  BY <1>1, Zenon DEF ScanConnMem
<1>. QED  BY <1>1, <1>2 DEF ScanConnMem

LEMMA ScanConnRelease ==
  ASSUME mem \in ScanConnMem, ScanConn!LinkBookkeeping, mem.active_conn # 0, mem' = ScanConn!Release
  PROVE  /\ mem' \in ScanConnMem
         /\ mem'.scanning = mem.scanning /\ mem'.radio = mem.radio
         /\ mem'.active_conn = 0 /\ \A c \in 1 .. 2 : mem'.refs[c] = 0
<1>. DEFINE r == [mem.refs EXCEPT ![mem.active_conn] = @ - 1]
<1>1. /\ mem.active_conn \in 1 .. 2 /\ mem.refs \in [1 .. 2 -> 0 .. 1]
      /\ \A c \in 1 .. 2 : mem.refs[c] = (IF mem.active_conn = c THEN 1 ELSE 0)
  BY DEF ScanConnMem, ScanConn!LinkBookkeeping
<1>2. r \in [1 .. 2 -> 0 .. 1] /\ \A c \in 1 .. 2 : r[c] = 0
  BY <1>1
<1>3. mem' = [mem EXCEPT !.active_conn = 0, !.refs = r]
  BY DEF ScanConn!Release
<1>. HIDE DEF r
<1>4. 0 \in 0 .. 2
  OBVIOUS
<1>5. mem' \in ScanConnMem
  BY <1>2, <1>3, <1>4, Zenon DEF ScanConnMem
<1>. QED  BY <1>2, <1>3, <1>5 DEF ScanConnMem

LEMMA ScanConnStep ==
  ASSUME ScanConnInv, NEW t, ScanConn!Step(t)
  PROVE  ScanConnInv'
<1>. USE DEF ScanConnInv, ScanConn!LinkBookkeeping, ScanConn!Go, ScanConnPc
<1>1. CASE ScanConn!Enable
  BY <1>1 DEF ScanConn!Enable
<1>2. CASE ScanConn!Start
  <2>1. ScanConn!StartScan /\ pc.init = "start" /\ pc' = [pc EXCEPT !.init = "done"]
    BY <1>2 DEF ScanConn!Start
  <2>. QED  BY <2>1, ScanConnStartScan
<1>3. CASE ScanConn!Report
  BY <1>3 DEF ScanConn!Report
<1>4. CASE ScanConn!StopScan
  <2>1. CASE UNCHANGED mem /\ pc.bt = "stop" /\ pc' = [pc EXCEPT !.bt = "idle"]
    BY <2>1
  <2>2. CASE mem' = [mem EXCEPT !.scanning = FALSE] /\ pc.bt = "stop" /\ pc' = [pc EXCEPT !.bt = "create"]
    <3>1. mem' \in ScanConnMem
      BY <2>2, Zenon DEF ScanConnMem
    <3>2. /\ ~mem'.scanning /\ mem'.radio = "off" /\ mem'.active_conn = 0 /\ mem'.refs = mem.refs
      BY <2>2 DEF ScanConnMem
    <3>. QED  BY <2>2, <3>1, <3>2
  <2>. QED  BY <1>4, <2>1, <2>2 DEF ScanConn!StopScan
<1>5. CASE ScanConn!Create
  <2>1. CASE UNCHANGED mem
    BY <1>5, <2>1 DEF ScanConn!Create
  <2>. DEFINE c == ScanConn!NextLink(mem.conn)
              r == [mem.refs EXCEPT ![c] = @ + 1]
  <2>2. CASE /\ mem' = [mem EXCEPT !.radio = "connecting", !.conn = c, !.active_conn = c, !.refs[c] = @ + 1]
             /\ pc.bt = "create" /\ pc' = [pc EXCEPT !.bt = "idle"]
    <3>1. c \in 1 .. 2 /\ c \in 0 .. 2 /\ mem.refs \in [1 .. 2 -> 0 .. 1]
      BY DEF ScanConn!NextLink, ScanConnMem
    <3>2. mem' = [mem EXCEPT !.radio = "connecting", !.conn = c, !.active_conn = c, !.refs = r]
      BY <2>2
    <3>. HIDE DEF c
    <3>3. /\ r \in [1 .. 2 -> 0 .. 1]
          /\ \A d \in 1 .. 2 : r[d] = (IF c = d THEN 1 ELSE 0)
      BY <2>2, <3>1
    <3>. HIDE DEF r
    <3>4. mem' \in ScanConnMem
      BY <3>1, <3>2, <3>3, Zenon DEF ScanConnMem
    <3>5. /\ mem'.radio = "connecting" /\ mem'.conn = c /\ mem'.active_conn = c /\ mem'.refs = r
          /\ mem'.scanning = mem.scanning
      BY <3>2 DEF ScanConnMem
    <3>6. ~mem.scanning /\ pc.init = "done"
      BY <2>2
    <3>. QED  BY <2>2, <3>1, <3>3, <3>4, <3>5, <3>6
  <2>. QED  BY <1>5, <2>1, <2>2 DEF ScanConn!Create
<1>6. CASE ScanConn!ConnectFailed
  <2>1. pc.bt = "failed" /\ pc' = [pc EXCEPT !.bt = "rescan"] /\ mem' = ScanConn!Release
    BY <1>6 DEF ScanConn!ConnectFailed
  <2>. QED  BY <2>1, ScanConnRelease
<1>7. CASE ScanConn!Disconnected
  <2>1. pc.bt = "disconnected" /\ pc' = [pc EXCEPT !.bt = "rescan"] /\ mem' = ScanConn!Release
    BY <1>7 DEF ScanConn!Disconnected
  <2>. QED  BY <2>1, ScanConnRelease
<1>8. CASE ScanConn!Rescan
  <2>1. ScanConn!StartScan /\ pc.bt = "rescan" /\ pc' = [pc EXCEPT !.bt = "idle"]
    BY <1>8 DEF ScanConn!Rescan
  <2>. QED  BY <2>1, ScanConnStartScan
<1>9. CASE ScanConn!Connects \/ ScanConn!LinkLost
  <2>1. PICK radio \in {"off", "up"} : mem' = [mem EXCEPT !.radio = radio]
    BY <1>9 DEF ScanConn!Connects, ScanConn!LinkLost
  <2>2. /\ mem.radio \in {"connecting", "up"} /\ pc.bt = "idle"
        /\ \/ radio = "up" /\ UNCHANGED pc
           \/ radio = "off" /\ \E label \in {"failed", "disconnected"} : pc' = [pc EXCEPT !.bt = label]
    BY <1>9, <2>1 DEF ScanConn!Connects, ScanConn!LinkLost, ScanConnMem
  <2>3. mem' \in ScanConnMem
    BY <2>1, Zenon DEF ScanConnMem
  <2>4. /\ mem'.radio = radio /\ mem'.conn = mem.conn /\ mem'.active_conn = mem.active_conn
        /\ mem'.refs = mem.refs /\ mem'.scanning = mem.scanning
    BY <2>1 DEF ScanConnMem
  <2>5. mem.active_conn = mem.conn /\ mem.conn # 0 /\ ~mem.scanning /\ pc.init = "done"
    BY <2>2 DEF ScanConnMem
  <2>. QED  BY <2>2, <2>3, <2>4, <2>5
<1>. QED  BY <1>1, <1>2, <1>3, <1>4, <1>5, <1>6, <1>7, <1>8, <1>9 DEF ScanConn!Step

-----------------------------------------------------------------------------
(* package_gatt_server_demo                                                  *)

GattServerMem ==
  [adv : BOOLEAN, link : BOOLEAN, ccc : BOOLEAN, current_conn : BOOLEAN, notify_enabled : BOOLEAN,
   led_ctrl_val : 0 .. 1, counter_val : 0 .. MaxCount]
GattServerPc ==
  [init : {"enable", "start", "done"}, bt : {"idle", "connected", "failed", "disconnected"},
   notify : {"count", "check", "notify"}]
GattServerSeen == [told : 0 .. MaxCount, back : BOOLEAN, silent : BOOLEAN]

\* A central that is not there is not subscribed.
GattServerInv ==
  /\ mem \in GattServerMem
  /\ pc \in GattServerPc
  /\ seen \in GattServerSeen
  /\ GattServer!LinkBookkeeping
  /\ GattServer!InOrder
  /\ ~mem.link => ~mem.ccc
  /\ pc.bt = "connected" => mem.link /\ ~mem.ccc /\ ~mem.notify_enabled
  /\ pc.bt = "failed" => ~mem.link /\ ~mem.notify_enabled /\ ~mem.current_conn
  /\ pc.bt = "disconnected" => ~mem.link
  /\ pc.init # "done" => pc.bt = "idle" /\ ~mem.adv /\ ~mem.link

LEMMA GattServerInit == GattServer!Init => GattServerInv
BY ProgramAssumptions
   DEF GattServer!Init, GattServerInv, GattServerMem, GattServerPc, GattServerSeen,
       GattServer!LinkBookkeeping, GattServer!InOrder, GattServer!CountAssumption

LEMMA GattServerStartAdvertising ==
  ASSUME NEW m \in GattServerMem, seen \in GattServerSeen, GattServer!StartAdvertising(m)
  PROVE  /\ mem' \in GattServerMem
         /\ mem'.link = m.link /\ mem'.ccc = m.ccc /\ mem'.current_conn = m.current_conn
         /\ mem'.notify_enabled = m.notify_enabled /\ mem'.counter_val = m.counter_val
         /\ seen' \in GattServerSeen /\ seen'.told = seen.told /\ seen'.back = seen.back
<1>1. PICK ok \in BOOLEAN :
         /\ mem' = [m EXCEPT !.adv = (m.adv \/ ok)]
         /\ seen' = [seen EXCEPT !.silent = ~ok]
  BY DEF GattServer!StartAdvertising
<1>. DEFINE on == m.adv \/ ok
            silent == ~ok
<1>2. on \in BOOLEAN /\ silent \in BOOLEAN
  BY DEF GattServerMem
<1>3. mem' = [m EXCEPT !.adv = on] /\ seen' = [seen EXCEPT !.silent = silent]
  BY <1>1
<1>. HIDE DEF on, silent
<1>4. mem' \in GattServerMem
  BY <1>2, <1>3, Zenon DEF GattServerMem
<1>5. seen' \in GattServerSeen
  BY <1>2, <1>3, Zenon DEF GattServerSeen
<1>. QED  BY <1>3, <1>4, <1>5 DEF GattServerMem, GattServerSeen

\* What the central is told is the present value, and no value is ahead of it.
LEMMA GattServerTell ==
  ASSUME GattServerInv, seen' = GattServer!Tell(mem.counter_val)
  PROVE  seen' \in GattServerSeen /\ seen'.told = mem.counter_val /\ ~seen'.back
<1>1. mem.counter_val \in 0 .. MaxCount /\ ~seen.back /\ ~(mem.counter_val < seen.told)
  BY DEF GattServerInv, GattServerMem, GattServerSeen, GattServer!InOrder
<1>2. seen' = [seen EXCEPT !.told = mem.counter_val, !.back = FALSE]
  BY <1>1 DEF GattServer!Tell, GattServerInv, GattServerSeen
<1>3. seen' \in GattServerSeen
  BY <1>1, <1>2, Zenon DEF GattServerInv, GattServerSeen
<1>. QED  BY <1>2, <1>3 DEF GattServerInv, GattServerSeen

LEMMA GattServerStep ==
  ASSUME GattServerInv, NEW t, GattServer!Step(t)
  PROVE  GattServerInv'
<1>. USE DEF GattServerInv, GattServer!LinkBookkeeping, GattServer!InOrder, GattServer!Go, GattServerPc
<1>1. CASE GattServer!Enable
  BY <1>1 DEF GattServer!Enable, GattServerSeen
<1>2. CASE GattServer!Start
  <2>1. GattServer!StartAdvertising(mem) /\ pc.init = "start" /\ pc' = [pc EXCEPT !.init = "done"]
    BY <1>2 DEF GattServer!Start
  <2>. QED  BY <2>1, GattServerStartAdvertising
<1>3. CASE GattServer!ReadCounter
  <2>1. seen' = GattServer!Tell(mem.counter_val) /\ UNCHANGED mem /\ pc' = [pc EXCEPT !.bt = "idle"]
        /\ pc.bt = "idle"
    BY <1>3 DEF GattServer!ReadCounter
  <2>. QED  BY <2>1, GattServerTell DEF GattServerMem
<1>4. CASE GattServer!WriteLed
  <2>1. PICK value \in 0 .. 1 : mem' = [mem EXCEPT !.led_ctrl_val = value]
    BY <1>4 DEF GattServer!WriteLed, GattServer!Valid
  <2>2. UNCHANGED seen /\ pc' = [pc EXCEPT !.bt = "idle"] /\ pc.bt = "idle"
    BY <1>4 DEF GattServer!WriteLed
  <2>3. mem' \in GattServerMem
    BY <2>1, Zenon DEF GattServerMem
  <2>4. /\ mem'.adv = mem.adv /\ mem'.link = mem.link /\ mem'.ccc = mem.ccc
        /\ mem'.current_conn = mem.current_conn /\ mem'.notify_enabled = mem.notify_enabled
        /\ mem'.counter_val = mem.counter_val
    BY <2>1 DEF GattServerMem
  <2>. QED  BY <2>2, <2>3, <2>4
<1>5. CASE GattServer!CounterCccChanged
  <2>1. PICK on \in BOOLEAN : mem' = [mem EXCEPT !.ccc = on, !.notify_enabled = on]
    BY <1>5 DEF GattServer!CounterCccChanged
  <2>2. UNCHANGED seen /\ pc' = [pc EXCEPT !.bt = "idle"] /\ pc.bt = "idle" /\ mem.link
    BY <1>5 DEF GattServer!CounterCccChanged
  <2>3. mem' \in GattServerMem
    BY <2>1, Zenon DEF GattServerMem
  <2>4. /\ mem'.adv = mem.adv /\ mem'.link = mem.link /\ mem'.ccc = mem'.notify_enabled
        /\ mem'.current_conn = mem.current_conn /\ mem'.counter_val = mem.counter_val
    BY <2>1 DEF GattServerMem
  <2>. QED  BY <2>2, <2>3, <2>4
<1>6. CASE GattServer!Connected
  <2>1. /\ mem' = [mem EXCEPT !.current_conn = TRUE] /\ UNCHANGED seen
        /\ pc.bt = "connected" /\ pc' = [pc EXCEPT !.bt = "idle"]
    BY <1>6 DEF GattServer!Connected
  <2>2. mem' \in GattServerMem
    BY <2>1, Zenon DEF GattServerMem
  <2>3. /\ mem'.adv = mem.adv /\ mem'.link = mem.link /\ mem'.ccc = mem.ccc /\ mem'.current_conn
        /\ mem'.notify_enabled = mem.notify_enabled /\ mem'.counter_val = mem.counter_val
    BY <2>1 DEF GattServerMem
  <2>. QED  BY <2>1, <2>2, <2>3 DEF GattServerMem
<1>7. CASE GattServer!ConnectFailed
  BY <1>7 DEF GattServer!ConnectFailed, GattServerSeen, GattServerMem
<1>8. CASE GattServer!Disconnected
  <2>. DEFINE m == [mem EXCEPT !.notify_enabled = FALSE, !.current_conn = FALSE]
  <2>1. /\ GattServer!StartAdvertising(m)
        /\ pc.bt = "disconnected" /\ pc' = [pc EXCEPT !.bt = "idle"]
    BY <1>8 DEF GattServer!Disconnected
  <2>2. m \in GattServerMem
    BY Zenon DEF GattServerMem
  <2>3. /\ ~m.link /\ ~m.ccc /\ ~m.current_conn /\ ~m.notify_enabled /\ m.counter_val = mem.counter_val
    BY <2>1 DEF GattServerMem
  <2>. HIDE DEF m
  <2>4. /\ mem' \in GattServerMem
        /\ ~mem'.link /\ ~mem'.ccc /\ ~mem'.current_conn /\ ~mem'.notify_enabled
        /\ mem'.counter_val = mem.counter_val
        /\ seen' \in GattServerSeen /\ seen'.told = seen.told /\ seen'.back = seen.back
    BY <2>1, <2>2, <2>3, GattServerStartAdvertising
  <2>. QED  BY <2>1, <2>4 DEF GattServerMem
<1>9. CASE GattServer!Count
  <2>1. /\ mem' = [mem EXCEPT !.counter_val = mem.counter_val + 1] /\ UNCHANGED seen
        /\ mem.counter_val < MaxCount /\ pc' = [pc EXCEPT !.notify = "check"]
    BY <1>9 DEF GattServer!Count
  <2>2. mem.counter_val + 1 \in 0 .. MaxCount
    <3>1. MaxCount \in Nat
      BY ProgramAssumptions DEF GattServer!CountAssumption
    <3>2. mem.counter_val \in 0 .. MaxCount
      BY DEF GattServerMem
    <3>. QED  BY <2>1, <3>1, <3>2
  <2>3. mem' \in GattServerMem
    BY <2>1, <2>2, Zenon DEF GattServerMem
  <2>4. /\ mem'.adv = mem.adv /\ mem'.link = mem.link /\ mem'.ccc = mem.ccc
        /\ mem'.current_conn = mem.current_conn /\ mem'.notify_enabled = mem.notify_enabled
        /\ mem'.counter_val = mem.counter_val + 1
    BY <2>1 DEF GattServerMem
  <2>5. ~seen'.back /\ seen'.told <= mem'.counter_val
    BY <2>1, <2>4 DEF GattServerSeen, GattServerMem
  <2>. QED  BY <2>1, <2>3, <2>4, <2>5
<1>10. CASE GattServer!CheckEnabled
  BY <1>10 DEF GattServer!CheckEnabled
<1>11. CASE GattServer!Notify
  <2>1. UNCHANGED mem /\ pc' = [pc EXCEPT !.notify = "count"]
        /\ (UNCHANGED seen \/ seen' = GattServer!Tell(mem.counter_val))
    BY <1>11 DEF GattServer!Notify
  <2>. QED  BY <2>1, GattServerTell DEF GattServerMem
<1>12. CASE GattServer!CentralConnects
  <2>1. /\ mem.adv /\ ~mem.link /\ pc.bt = "idle" /\ UNCHANGED seen
        /\ \/ /\ pc' = [pc EXCEPT !.bt = "connected"]
              /\ mem' = [mem EXCEPT !.adv = FALSE, !.link = TRUE]
           \/ /\ pc' = [pc EXCEPT !.bt = "failed"]
              /\ mem' = [mem EXCEPT !.adv = FALSE]
    BY <1>12 DEF GattServer!CentralConnects
  <2>2. mem' \in GattServerMem
    BY <2>1, Zenon DEF GattServerMem
  <2>3. /\ ~mem'.adv /\ ~mem'.ccc /\ ~mem'.current_conn /\ ~mem'.notify_enabled
        /\ mem'.counter_val = mem.counter_val
        /\ (pc'.bt = "connected" => mem'.link) /\ (pc'.bt = "failed" => ~mem'.link)
    BY <2>1 DEF GattServerMem
  <2>. QED  BY <2>1, <2>2, <2>3 DEF GattServerMem
<1>13. CASE GattServer!CentralLeaves
  <2>1. /\ mem.link /\ pc.bt = "idle" /\ UNCHANGED seen
        /\ pc' = [pc EXCEPT !.bt = "disconnected"]
        /\ mem' = [mem EXCEPT !.link = FALSE, !.ccc = FALSE]
    BY <1>13 DEF GattServer!CentralLeaves
  <2>2. mem' \in GattServerMem
    BY <2>1, Zenon DEF GattServerMem
  <2>3. ~mem'.link /\ ~mem'.ccc /\ mem'.counter_val = mem.counter_val
    BY <2>1 DEF GattServerMem
  <2>. QED  BY <2>1, <2>2, <2>3 DEF GattServerMem
<1>. QED  BY <1>1, <1>2, <1>3, <1>4, <1>5, <1>6, <1>7, <1>8, <1>9, <1>10, <1>11, <1>12, <1>13
         DEF GattServer!Step, GattServer!CentralRequests

-----------------------------------------------------------------------------
(* The start of the Bluetooth side                                           *)

BootMem ==
  [bt_ready : BOOLEAN, adv : BOOLEAN, link : BOOLEAN, active_conn : BOOLEAN,
   transport_ready : BOOLEAN, cb_mutex : {"free", "init"}, max : Nat,
   event_cbs : Seq(Boot!Services), rx_callback : BOOLEAN, flags : SUBSET Boot!Subscribed,
   service : Boot!Services \union {"none"}]
BootPc ==
  [init : {"core", "adv", "transport", "conn", "register", "fill", "rx", "done"},
   bt : {"idle", "connected", "announce", "disconnected", "drop"}]
BootSeen == SUBSET Boot!Services

Registered == {mem.event_cbs[i] : i \in 1 .. Len(mem.event_cbs)}

\* The flags a lost link leaves are those of services that missed it.
BootInv ==
  /\ mem \in BootMem
  /\ pc \in BootPc
  /\ seen \in BootSeen
  /\ Len(mem.event_cbs) <= mem.max
  /\ pc.bt = "idle" => mem.active_conn = mem.link
  /\ pc.bt = "idle" /\ ~mem.link => mem.flags \subseteq seen
  /\ mem.rx_callback => "ota" \in Registered
  /\ pc.bt = "connected" => mem.link
  /\ pc.bt = "announce" => mem.link /\ mem.active_conn
  /\ pc.bt = "disconnected" => ~mem.link
  /\ pc.bt = "drop" => ~mem.link /\ mem.flags \subseteq seen
  /\ pc.init \in {"core", "adv"} => pc.bt = "idle" /\ ~mem.adv /\ ~mem.link
  /\ pc.init = "fill" => Len(mem.event_cbs) < mem.max
  /\ pc.init = "rx" => "ota" \in Registered
  /\ pc.init # "done" => mem.service # "none"

LEMMA BootInit == Boot!Init => BootInv
<1>. SUFFICES ASSUME Boot!Init PROVE BootInv
  OBVIOUS
<1>1. PICK max \in TableSizes :
        mem = [bt_ready |-> FALSE, adv |-> FALSE, link |-> FALSE, active_conn |-> FALSE,
               transport_ready |-> FALSE, cb_mutex |-> "free", max |-> max, event_cbs |-> <<>>,
               rx_callback |-> FALSE, flags |-> {}, service |-> "ota"]
  BY DEF Boot!Init
<1>2. max \in Nat
  BY ProgramAssumptions DEF Boot!TableAssumption
<1>3. <<>> \in Seq(Boot!Services) /\ Len(mem.event_cbs) = 0
  BY <1>1, EmptySeq
<1>4. mem \in BootMem
  BY <1>1, <1>2, <1>3, Zenon DEF BootMem, Boot!Services
<1>5. pc \in BootPc /\ seen \in BootSeen
  BY DEF Boot!Init, BootPc, BootSeen
<1>6. /\ pc.bt = "idle" /\ pc.init = "core"
      /\ ~mem.adv /\ ~mem.link /\ mem.active_conn = mem.link /\ ~mem.rx_callback /\ mem.flags = {}
      /\ mem.service # "none" /\ mem.max \in Nat
  BY <1>1, <1>2 DEF Boot!Init
<1>. QED  BY <1>3, <1>4, <1>5, <1>6 DEF BootInv

\* What the other thread sees of a step of the main thread.
BootKept(m) ==
  /\ mem'.link = m.link /\ mem'.active_conn = m.active_conn /\ mem'.flags = m.flags
  /\ mem'.max = m.max

LEMMA BootContinue ==
  ASSUME NEW m \in BootMem, m.service # "none", pc \in BootPc, NEW from, Boot!Continue(from, m)
  PROVE  /\ mem' \in BootMem /\ BootKept(m) /\ mem'.adv = m.adv
         /\ mem'.transport_ready = m.transport_ready
         /\ mem'.event_cbs = m.event_cbs /\ mem'.rx_callback = m.rx_callback
         /\ pc.init = from /\ pc' \in BootPc /\ pc'.bt = pc.bt
         /\ pc'.init \in {"register", "done"} /\ (pc'.init # "done" => mem'.service # "none")
<1>. DEFINE next == Boot!AfterService(m.service)
<1>1. next \in Boot!Services \union {"none"}
  BY DEF Boot!AfterService, Boot!Services, BootMem
<1>2. /\ mem' = [m EXCEPT !.service = next]
      /\ pc.init = from /\ pc' = [pc EXCEPT !.init = IF next = "none" THEN "done" ELSE "register"]
  BY DEF Boot!Continue, Boot!Go
<1>. HIDE DEF next
<1>3. mem' \in BootMem
  BY <1>1, <1>2, Zenon DEF BootMem
<1>4. /\ BootKept(m) /\ mem'.adv = m.adv /\ mem'.transport_ready = m.transport_ready
      /\ mem'.event_cbs = m.event_cbs /\ mem'.rx_callback = m.rx_callback /\ mem'.service = next
  BY <1>2 DEF BootMem, BootKept
<1>5. pc' \in BootPc /\ pc'.bt = pc.bt /\ pc'.init = IF next = "none" THEN "done" ELSE "register"
  BY <1>2 DEF BootPc
<1>. QED  BY <1>2, <1>3, <1>4, <1>5

\* A step of the main thread: the link and the flags stay, the table grows.
LEMMA BootMainStep ==
  ASSUME BootInv, Boot!Step("init")
  PROVE  BootInv'
<1>0. /\ mem \in BootMem /\ pc \in BootPc /\ seen \in BootSeen
      /\ mem.event_cbs \in Seq(Boot!Services) /\ Len(mem.event_cbs) \in Nat /\ mem.max \in Nat
  BY LenProperties DEF BootInv, BootMem
<1>. DEFINE main == \/ Boot!CoreInit \/ Boot!AdvInit \/ Boot!TransportInit \/ Boot!ConnInit
                    \/ Boot!RegisterLock \/ Boot!RegisterFill \/ Boot!RegisterRx
<1>1. main
  BY DEF Boot!Step
<1>. USE DEF Boot!Go
<1>2. CASE Boot!CoreInit
  <2>1. PICK ok \in BOOLEAN : mem' = [mem EXCEPT !.bt_ready = ok]
    BY <1>2 DEF Boot!CoreInit
  <2>2. pc.init = "core" /\ pc' = [pc EXCEPT !.init = "adv"] /\ UNCHANGED seen
    BY <1>2 DEF Boot!CoreInit
  <2>3. mem' \in BootMem
    BY <1>0, <2>1, Zenon DEF BootMem
  <2>4. /\ BootKept(mem) /\ mem'.adv = mem.adv /\ mem'.transport_ready = mem.transport_ready
        /\ mem'.event_cbs = mem.event_cbs /\ mem'.rx_callback = mem.rx_callback /\ mem'.service = mem.service
    BY <1>0, <2>1 DEF BootMem, BootKept
  <2>. QED  BY <1>0, <2>2, <2>3, <2>4 DEF BootInv, BootPc, BootKept, Registered
<1>3. CASE Boot!AdvInit
  <2>1. PICK ok \in BOOLEAN : mem' = [mem EXCEPT !.adv = (mem.bt_ready /\ ok)]
    BY <1>3 DEF Boot!AdvInit
  <2>. DEFINE on == mem.bt_ready /\ ok
  <2>2. pc.init = "adv" /\ pc' = [pc EXCEPT !.init = "transport"] /\ UNCHANGED seen
    BY <1>3 DEF Boot!AdvInit
  <2>3. on \in BOOLEAN /\ mem' = [mem EXCEPT !.adv = on]
    BY <1>0, <2>1 DEF BootMem
  <2>. HIDE DEF on
  <2>4. mem' \in BootMem
    BY <1>0, <2>3, Zenon DEF BootMem
  <2>5. /\ BootKept(mem) /\ mem'.transport_ready = mem.transport_ready
        /\ mem'.event_cbs = mem.event_cbs /\ mem'.rx_callback = mem.rx_callback /\ mem'.service = mem.service
    BY <1>0, <2>3 DEF BootMem, BootKept
  <2>. QED  BY <1>0, <2>2, <2>4, <2>5 DEF BootInv, BootPc, BootKept, Registered
<1>4. CASE Boot!TransportInit
  <2>1. PICK ok \in BOOLEAN : mem' = [mem EXCEPT !.transport_ready = ok]
    BY <1>4 DEF Boot!TransportInit
  <2>2. pc.init = "transport" /\ pc' = [pc EXCEPT !.init = "conn"] /\ UNCHANGED seen
    BY <1>4 DEF Boot!TransportInit
  <2>3. mem' \in BootMem
    BY <1>0, <2>1, Zenon DEF BootMem
  <2>4. /\ BootKept(mem) /\ mem'.adv = mem.adv
        /\ mem'.event_cbs = mem.event_cbs /\ mem'.rx_callback = mem.rx_callback /\ mem'.service = mem.service
    BY <1>0, <2>1 DEF BootMem, BootKept
  <2>. QED  BY <1>0, <2>2, <2>3, <2>4 DEF BootInv, BootPc, BootKept, Registered
<1>5. CASE Boot!ConnInit
  <2>1. mem' = [mem EXCEPT !.cb_mutex = "free"]
    BY <1>5 DEF Boot!ConnInit
  <2>2. pc.init = "conn" /\ pc' = [pc EXCEPT !.init = "register"] /\ UNCHANGED seen
    BY <1>5 DEF Boot!ConnInit
  <2>3. mem' \in BootMem
    BY <1>0, <2>1, Zenon DEF BootMem
  <2>4. /\ BootKept(mem) /\ mem'.adv = mem.adv /\ mem'.transport_ready = mem.transport_ready
        /\ mem'.event_cbs = mem.event_cbs /\ mem'.rx_callback = mem.rx_callback /\ mem'.service = mem.service
    BY <1>0, <2>1 DEF BootMem, BootKept
  <2>. QED  BY <1>0, <2>2, <2>3, <2>4 DEF BootInv, BootPc, BootKept, Registered
<1>6. CASE Boot!RegisterLock
  <2>0. UNCHANGED seen
    BY <1>6 DEF Boot!RegisterLock
  <2>1. CASE Boot!Continue("register", mem)
    <3>1. mem.service # "none"
      BY <2>1 DEF Boot!Continue, BootInv
    <3>2. /\ mem' \in BootMem /\ BootKept(mem) /\ mem'.adv = mem.adv
          /\ mem'.transport_ready = mem.transport_ready
          /\ mem'.event_cbs = mem.event_cbs /\ mem'.rx_callback = mem.rx_callback
          /\ pc.init = "register" /\ pc' \in BootPc /\ pc'.bt = pc.bt
          /\ pc'.init \in {"register", "done"} /\ (pc'.init # "done" => mem'.service # "none")
      BY <1>0, <2>1, <3>1, BootContinue
    <3>. QED  BY <1>0, <2>0, <3>2 DEF BootInv, BootKept, Registered
  <2>2. CASE /\ Len(mem.event_cbs) < mem.max /\ mem' = [mem EXCEPT !.cb_mutex = "init"]
             /\ pc.init = "register" /\ pc' = [pc EXCEPT !.init = "fill"]
    <3>1. mem' \in BootMem
      BY <1>0, <2>2, Zenon DEF BootMem
    <3>2. /\ BootKept(mem) /\ mem'.adv = mem.adv /\ mem'.transport_ready = mem.transport_ready
          /\ mem'.event_cbs = mem.event_cbs /\ mem'.rx_callback = mem.rx_callback /\ mem'.service = mem.service
      BY <1>0, <2>2 DEF BootMem, BootKept
    <3>. QED  BY <1>0, <2>0, <2>2, <3>1, <3>2 DEF BootInv, BootPc, BootKept, Registered
  <2>. QED  BY <1>0, <1>6, <2>1, <2>2 DEF Boot!RegisterLock
<1>7. CASE Boot!RegisterFill
  <2>. DEFINE cbs == Append(mem.event_cbs, mem.service)
              m == [mem EXCEPT !.event_cbs = cbs, !.cb_mutex = "free"]
  <2>1. /\ UNCHANGED seen /\ pc.init = "fill"
        /\ \/ Boot!Continue("fill", m)
           \/ mem.service = "ota" /\ mem' = m /\ pc' = [pc EXCEPT !.init = "rx"]
    BY <1>7 DEF Boot!RegisterFill, Boot!Continue
  <2>2. mem.service \in Boot!Services /\ Len(mem.event_cbs) < mem.max
    BY <1>0, <2>1 DEF BootInv, BootMem
  <2>3. /\ cbs \in Seq(Boot!Services) /\ Len(cbs) = Len(mem.event_cbs) + 1
        /\ \A i \in 1 .. Len(mem.event_cbs) : cbs[i] = mem.event_cbs[i]
        /\ cbs[Len(mem.event_cbs) + 1] = mem.service
    BY <1>0, <2>2, AppendProperties
  <2>. HIDE DEF cbs
  <2>4. m \in BootMem
    BY <1>0, <2>3, Zenon DEF BootMem
  <2>5. /\ m.link = mem.link /\ m.active_conn = mem.active_conn /\ m.flags = mem.flags /\ m.adv = mem.adv
        /\ m.max = mem.max /\ m.transport_ready = mem.transport_ready /\ m.event_cbs = cbs
        /\ m.rx_callback = mem.rx_callback /\ m.service = mem.service
    BY <1>0 DEF BootMem
  <2>. HIDE DEF m
  <2>6. /\ mem' \in BootMem /\ BootKept(m) /\ mem'.adv = m.adv
        /\ mem'.transport_ready = m.transport_ready
        /\ mem'.event_cbs = m.event_cbs /\ mem'.rx_callback = m.rx_callback
        /\ pc' \in BootPc /\ pc'.bt = pc.bt
        /\ pc'.init \in {"register", "done", "rx"} /\ (pc'.init # "done" => mem'.service # "none")
        /\ (pc'.init = "rx" => mem.service = "ota")
    <3>1. CASE Boot!Continue("fill", m)
      BY <1>0, <2>2, <2>4, <2>5, <3>1, BootContinue DEF Boot!Services
    <3>2. CASE mem.service = "ota" /\ mem' = m /\ pc' = [pc EXCEPT !.init = "rx"]
      BY <1>0, <2>4, <2>5, <3>2 DEF BootKept, BootPc
    <3>. QED  BY <2>1, <3>1, <3>2
  <2>7. /\ Len(mem'.event_cbs) <= mem'.max
        /\ \A x \in Registered : x \in Registered'
        /\ mem.service \in Registered'
    <3>1. mem'.event_cbs = cbs /\ mem'.max = mem.max
      BY <2>5, <2>6 DEF BootKept
    <3>2. /\ \A i \in 1 .. Len(mem.event_cbs) : i \in 1 .. Len(cbs)
          /\ Len(mem.event_cbs) + 1 \in 1 .. Len(cbs)
      BY <1>0, <2>3
    <3>. QED  BY <1>0, <2>2, <2>3, <3>1, <3>2 DEF Registered
  <2>. QED  BY <1>0, <2>1, <2>5, <2>6, <2>7 DEF BootInv, BootKept
<1>8. CASE Boot!RegisterRx
  <2>. DEFINE m == [mem EXCEPT !.rx_callback = mem.transport_ready]
  <2>1. UNCHANGED seen /\ Boot!Continue("rx", m)
    BY <1>8 DEF Boot!RegisterRx
  <2>2. m \in BootMem
    BY <1>0, Zenon DEF BootMem
  <2>3. /\ m.link = mem.link /\ m.active_conn = mem.active_conn /\ m.flags = mem.flags /\ m.adv = mem.adv
        /\ m.max = mem.max /\ m.transport_ready = mem.transport_ready /\ m.event_cbs = mem.event_cbs
        /\ m.service = mem.service
    BY <1>0 DEF BootMem
  <2>. HIDE DEF m
  <2>4. pc.init = "rx" /\ mem.service # "none" /\ "ota" \in Registered
    BY <2>1 DEF Boot!Continue, BootInv
  <2>5. /\ mem' \in BootMem /\ BootKept(m) /\ mem'.adv = m.adv
        /\ mem'.transport_ready = m.transport_ready
        /\ mem'.event_cbs = m.event_cbs
        /\ pc' \in BootPc /\ pc'.bt = pc.bt
        /\ pc'.init \in {"register", "done"} /\ (pc'.init # "done" => mem'.service # "none")
    BY <1>0, <2>1, <2>2, <2>3, <2>4, BootContinue
  <2>. QED  BY <1>0, <2>1, <2>3, <2>4, <2>5 DEF BootInv, BootKept, Registered
<1>. QED  BY <1>1, <1>2, <1>3, <1>4, <1>5, <1>6, <1>7, <1>8

\* A step of the central or of the Bluetooth RX thread.
LEMMA BootLinkStep ==
  ASSUME BootInv, Boot!Step("bt") \/ Boot!Step("central")
  PROVE  BootInv'
<1>0. /\ mem \in BootMem /\ pc \in BootPc /\ seen \in BootSeen
      /\ mem.event_cbs \in Seq(Boot!Services) /\ mem.flags \subseteq Boot!Subscribed
  BY DEF BootInv, BootMem
<1>1. \/ Boot!Connected \/ Boot!Announce \/ Boot!Dispatch \/ Boot!Drop
      \/ Boot!CentralConnects \/ Boot!CentralSubscribes \/ Boot!CentralLeaves
  BY DEF Boot!Step
<1>. USE DEF Boot!Go
<1>2. CASE Boot!Connected
  <2>1. /\ mem' = [mem EXCEPT !.active_conn = TRUE] /\ UNCHANGED seen
        /\ pc.bt = "connected" /\ pc' = [pc EXCEPT !.bt = "announce"]
    BY <1>2 DEF Boot!Connected
  <2>2. mem' \in BootMem
    BY <1>0, <2>1, Zenon DEF BootMem
  <2>3. mem'.active_conn = TRUE /\ mem'.link = mem.link /\ mem.link = TRUE
    BY <1>0, <2>1 DEF BootMem, BootInv
  <2>5. /\ mem'.max = mem.max /\ mem'.adv = mem.adv /\ mem'.transport_ready = mem.transport_ready
        /\ mem'.event_cbs = mem.event_cbs /\ mem'.rx_callback = mem.rx_callback /\ mem'.service = mem.service
    BY <1>0, <2>1 DEF BootMem, BootInv
  <2>4. mem'.active_conn /\ mem'.link
    BY <2>3
  <2>6. pc' \in BootPc /\ pc'.bt = "announce" /\ pc'.init = pc.init /\ pc.init \notin {"core", "adv"}
    BY <1>0, <2>1 DEF BootInv, BootPc
  <2>7. seen' = seen
    BY <2>1
  <2>. QED  BY <1>0, <2>2, <2>4, <2>5, <2>6, <2>7 DEF BootInv, Registered
<1>3. CASE Boot!Dispatch
  <2>. DEFINE flags == mem.flags \ Boot!ToSet(mem.event_cbs)
              missed == Boot!Services \ Boot!ToSet(mem.event_cbs)
  <2>1. /\ mem' = [mem EXCEPT !.flags = flags] /\ seen' = missed
        /\ pc.bt = "disconnected" /\ pc' = [pc EXCEPT !.bt = "drop"]
    BY <1>3 DEF Boot!Dispatch
  <2>2. flags \in SUBSET Boot!Subscribed /\ missed \in SUBSET Boot!Services /\ flags \subseteq missed
    BY <1>0 DEF Boot!Subscribed, Boot!Services
  <2>. HIDE DEF flags, missed
  <2>3. mem' \in BootMem
    BY <1>0, <2>1, <2>2, Zenon DEF BootMem
  <2>4. seen' \in BootSeen
    BY <1>0, <2>1, <2>2, Zenon DEF BootSeen
  <2>5. /\ mem'.link = mem.link /\ mem'.active_conn = mem.active_conn /\ mem'.flags = flags
        /\ mem'.max = mem.max /\ mem'.adv = mem.adv /\ mem'.transport_ready = mem.transport_ready
        /\ mem'.event_cbs = mem.event_cbs /\ mem'.rx_callback = mem.rx_callback /\ mem'.service = mem.service
    BY <1>0, <2>1 DEF BootMem
  <2>6. pc' \in BootPc /\ pc'.bt = "drop" /\ pc'.init = pc.init /\ pc.init \notin {"core", "adv"} /\ ~mem.link
    BY <1>0, <2>1 DEF BootInv, BootPc
  <2>7. seen' = missed /\ mem'.flags \subseteq seen'
    BY <2>1, <2>2, <2>5
  <2>. QED  BY <1>0, <2>3, <2>4, <2>5, <2>6, <2>7 DEF BootInv, Registered
<1>4. CASE Boot!Drop
  <2>1. PICK ok \in BOOLEAN : mem' = [mem EXCEPT !.active_conn = FALSE, !.adv = ok]
    BY <1>4 DEF Boot!Drop
  <2>2. UNCHANGED seen /\ pc.bt = "drop" /\ pc' = [pc EXCEPT !.bt = "idle"]
    BY <1>4 DEF Boot!Drop
  <2>3. mem' \in BootMem
    BY <1>0, <2>1, Zenon DEF BootMem
  <2>4. /\ mem'.link = FALSE /\ mem'.active_conn = FALSE /\ mem'.flags = mem.flags
        /\ mem'.max = mem.max /\ mem'.transport_ready = mem.transport_ready
        /\ mem'.event_cbs = mem.event_cbs /\ mem'.rx_callback = mem.rx_callback /\ mem'.service = mem.service
    BY <1>0, <2>1, <2>2 DEF BootMem, BootInv
  <2>5. mem'.active_conn = mem'.link /\ ~mem'.link
    BY <2>4
  <2>6. pc' \in BootPc /\ pc'.bt = "idle" /\ pc'.init = pc.init /\ pc.init \notin {"core", "adv"}
    BY <1>0, <2>2 DEF BootInv, BootPc
  <2>7. mem.flags \subseteq seen /\ seen' = seen
    BY <2>2 DEF BootInv
  <2>. QED  BY <1>0, <2>3, <2>4, <2>5, <2>6, <2>7 DEF BootInv, Registered
<1>5. CASE Boot!CentralConnects
  <2>1. /\ mem' = [mem EXCEPT !.adv = FALSE, !.link = TRUE] /\ UNCHANGED seen /\ mem.adv
        /\ pc.bt = "idle" /\ pc' = [pc EXCEPT !.bt = "connected"]
    BY <1>5 DEF Boot!CentralConnects
  <2>2. mem' \in BootMem
    BY <1>0, <2>1, Zenon DEF BootMem
  <2>3. /\ mem'.link
        /\ mem'.max = mem.max /\ mem'.transport_ready = mem.transport_ready
        /\ mem'.event_cbs = mem.event_cbs /\ mem'.rx_callback = mem.rx_callback /\ mem'.service = mem.service
    BY <1>0, <2>1 DEF BootMem
  <2>4. pc' \in BootPc /\ pc'.bt = "connected" /\ pc'.init = pc.init /\ pc.init \notin {"core", "adv"}
    BY <1>0, <2>1 DEF BootInv, BootPc
  <2>5. seen' = seen
    BY <2>1
  <2>. QED  BY <1>0, <2>2, <2>3, <2>4, <2>5 DEF BootInv, Registered
<1>6. CASE Boot!CentralSubscribes
  <2>0. PICK s \in Boot!Subscribed, on \in BOOLEAN :
          mem' = [mem EXCEPT !.flags = IF on THEN mem.flags \union {s} ELSE mem.flags \ {s}]
    BY <1>6 DEF Boot!CentralSubscribes
  <2>. DEFINE flags == IF on THEN mem.flags \union {s} ELSE mem.flags \ {s}
  <2>1. mem' = [mem EXCEPT !.flags = flags]
    BY <2>0
  <2>2. UNCHANGED seen /\ mem.link /\ pc.bt = "idle" /\ pc' = [pc EXCEPT !.bt = "idle"]
    BY <1>6 DEF Boot!CentralSubscribes
  <2>3. flags \in SUBSET Boot!Subscribed
    BY <1>0
  <2>. HIDE DEF flags
  <2>4. mem' \in BootMem
    BY <1>0, <2>1, <2>3, Zenon DEF BootMem
  <2>5. /\ mem'.link = mem.link /\ mem'.active_conn = mem.active_conn
        /\ mem'.max = mem.max /\ mem'.adv = mem.adv /\ mem'.transport_ready = mem.transport_ready
        /\ mem'.event_cbs = mem.event_cbs /\ mem'.rx_callback = mem.rx_callback /\ mem'.service = mem.service
    BY <1>0, <2>1 DEF BootMem
  <2>6. pc' \in BootPc /\ pc'.bt = "idle" /\ pc'.init = pc.init /\ pc.init \notin {"core", "adv"}
    BY <1>0, <2>2 DEF BootInv, BootPc
  <2>7. seen' = seen /\ mem'.active_conn = mem'.link /\ mem'.link
    BY <2>2, <2>5 DEF BootInv
  <2>. QED  BY <1>0, <2>4, <2>5, <2>6, <2>7 DEF BootInv, Registered
<1>7. CASE Boot!CentralLeaves
  <2>1. /\ mem' = [mem EXCEPT !.link = FALSE] /\ UNCHANGED seen /\ mem.link
        /\ pc.bt = "idle" /\ pc' = [pc EXCEPT !.bt = "disconnected"]
    BY <1>7 DEF Boot!CentralLeaves
  <2>2. mem' \in BootMem
    BY <1>0, <2>1, Zenon DEF BootMem
  <2>3. /\ ~mem'.link
        /\ mem'.max = mem.max /\ mem'.adv = mem.adv /\ mem'.transport_ready = mem.transport_ready
        /\ mem'.event_cbs = mem.event_cbs /\ mem'.rx_callback = mem.rx_callback /\ mem'.service = mem.service
    BY <1>0, <2>1 DEF BootMem
  <2>4. pc' \in BootPc /\ pc'.bt = "disconnected" /\ pc'.init = pc.init /\ pc.init \notin {"core", "adv"}
    BY <1>0, <2>1 DEF BootInv, BootPc
  <2>. QED  BY <1>0, <2>1, <2>2, <2>3, <2>4 DEF BootInv, Registered
<1>8. CASE Boot!Announce
  <2>1. UNCHANGED <<mem, seen>> /\ pc.bt = "announce" /\ pc' = [pc EXCEPT !.bt = "idle"]
    BY <1>8 DEF Boot!Announce
  <2>2. mem.active_conn = mem.link /\ mem.link
    BY <1>0, <2>1 DEF BootInv, BootMem
  <2>3. pc' \in BootPc /\ pc'.bt = "idle" /\ pc'.init = pc.init /\ pc.init \notin {"core", "adv"}
    BY <1>0, <2>1 DEF BootInv, BootPc
  <2>. QED  BY <1>0, <2>1, <2>2, <2>3 DEF BootInv, Registered
<1>. QED  BY <1>1, <1>2, <1>3, <1>4, <1>5, <1>6, <1>7, <1>8

LEMMA BootStep ==
  ASSUME BootInv, NEW t, Boot!Step(t)
  PROVE  BootInv'
BY BootMainStep, BootLinkStep DEF Boot!Step

-----------------------------------------------------------------------------
(* package_poll                                                              *)

PollMem ==
  [sem : 0 .. 1, signaled : BOOLEAN, result : 0 .. Wrap - 1, events : SUBSET {"sem", "signal"},
   shown : 0 .. Wrap - 1, counter : 0 .. Wrap - 1]

\* Between check and reset, what is shown is the last signal, or a later one
\* was raised in the window.
PollInv ==
  /\ mem \in PollMem
  /\ pc \in [poller : {"poll", "blocked", "woken", "sem", "check", "reset"}]
  /\ seen \in BOOLEAN
  /\ Poll!NothingMissed
  /\ mem.result = mem.counter
  /\ pc.poller = "reset" /\ ~seen => mem.shown = mem.counter

LEMMA PollInit == Poll!Init => PollInv
<1>. SUFFICES ASSUME Poll!Init PROVE PollInv
  OBVIOUS
<1>1. 0 \in 0 .. 1 /\ 0 \in 0 .. Wrap - 1
  BY ProgramAssumptions DEF Poll!WrapAssumption
<1>2. mem \in PollMem
  BY <1>1, Zenon DEF Poll!Init, PollMem
<1>. QED  BY <1>2 DEF Poll!Init, PollInv, Poll!NothingMissed

LEMMA PollStep ==
  ASSUME PollInv, NEW t, Poll!Step(t)
  PROVE  PollInv'
<1>. USE DEF Poll!Go
<1>0. mem \in PollMem /\ pc \in [poller : {"poll", "blocked", "woken", "sem", "check", "reset"}] /\ seen \in BOOLEAN
  BY DEF PollInv
<1>1. CASE Poll!PollReady
  <2>1. /\ mem' = [mem EXCEPT !.events = Poll!Ready] /\ UNCHANGED seen
        /\ pc.poller = "poll" /\ pc' = [pc EXCEPT !.poller = "sem"]
    BY <1>1 DEF Poll!PollReady
  <2>2. Poll!Ready \in SUBSET {"sem", "signal"}
    BY DEF Poll!Ready
  <2>3. mem' \in PollMem
    BY <1>0, <2>1, <2>2, Zenon DEF PollMem
  <2>4. /\ mem'.signaled = mem.signaled /\ mem'.shown = mem.shown /\ mem'.counter = mem.counter
        /\ mem'.result = mem.result
    BY <1>0, <2>1 DEF PollMem
  <2>. QED  BY <1>0, <2>1, <2>3, <2>4 DEF PollInv, Poll!NothingMissed
<1>2. CASE Poll!PollBlock
  BY <1>0, <1>2 DEF Poll!PollBlock, PollInv, Poll!NothingMissed, Poll!Ready
<1>9. CASE Poll!Wake
  BY <1>0, <1>9 DEF Poll!Wake, PollInv, Poll!NothingMissed
<1>3. CASE Poll!TakeSem
  <2>1. PICK n \in 0 .. 1 : mem' = [mem EXCEPT !.sem = n]
    BY <1>0, <1>3 DEF Poll!TakeSem, PollMem
  <2>2. UNCHANGED seen /\ pc.poller = "sem" /\ pc' = [pc EXCEPT !.poller = "check"]
    BY <1>3 DEF Poll!TakeSem
  <2>3. mem' \in PollMem
    BY <1>0, <2>1, Zenon DEF PollMem
  <2>4. /\ mem'.signaled = mem.signaled /\ mem'.shown = mem.shown /\ mem'.counter = mem.counter
        /\ mem'.result = mem.result
    BY <1>0, <2>1 DEF PollMem
  <2>. QED  BY <1>0, <2>2, <2>3, <2>4 DEF PollInv, Poll!NothingMissed
<1>4. CASE Poll!Check
  <2>1. CASE UNCHANGED <<mem, seen>> /\ pc.poller = "check" /\ pc' = [pc EXCEPT !.poller = "poll"]
    BY <1>0, <2>1 DEF PollInv, Poll!NothingMissed
  <2>2. CASE /\ mem' = [mem EXCEPT !.shown = mem.result] /\ UNCHANGED seen
             /\ pc.poller = "check" /\ pc' = [pc EXCEPT !.poller = "reset"]
    <3>1. mem' \in PollMem
      BY <1>0, <2>2, Zenon DEF PollMem
    <3>2. /\ mem'.shown = mem.result /\ mem'.counter = mem.counter /\ mem'.result = mem.result
      BY <1>0, <2>2 DEF PollMem
    <3>. QED  BY <1>0, <2>2, <3>1, <3>2 DEF PollInv, Poll!NothingMissed
  <2>. QED  BY <1>4, <2>1, <2>2 DEF Poll!Check
<1>5. CASE Poll!Reset
  <2>1. /\ mem' = [mem EXCEPT !.signaled = FALSE] /\ UNCHANGED seen
        /\ pc.poller = "reset" /\ pc' = [pc EXCEPT !.poller = "poll"]
    BY <1>5 DEF Poll!Reset
  <2>2. mem' \in PollMem
    BY <1>0, <2>1, Zenon DEF PollMem
  <2>3. mem'.shown = mem.shown /\ mem'.counter = mem.counter /\ mem'.result = mem.result
    BY <1>0, <2>1 DEF PollMem
  <2>. QED  BY <1>0, <2>1, <2>2, <2>3 DEF PollInv, Poll!NothingMissed
\* an event always finds the poller, or leaves it unblocked
<1>6. ASSUME NEW m, NEW e \in {"sem", "signal"}, m \in PollMem, Poll!Fire(m, e)
      PROVE  /\ mem' \in PollMem
             /\ mem'.signaled = m.signaled /\ mem'.shown = m.shown /\ mem'.counter = m.counter
             /\ mem'.result = m.result
             /\ pc' \in [poller : {"poll", "blocked", "woken", "sem", "check", "reset"}] /\ pc'.poller # "blocked"
             /\ (pc'.poller = "reset" => pc.poller = "reset")
  <2>1. CASE pc.poller \in {"blocked", "woken"}
    <3>. DEFINE fired == IF pc.poller = "blocked" THEN {e} ELSE m.events \union {e}
    <3>1. mem' = [m EXCEPT !.events = fired] /\ pc' = [pc EXCEPT !.poller = "woken"]
      BY <1>6, <2>1 DEF Poll!Fire
    <3>2. fired \in SUBSET {"sem", "signal"}
      BY <1>6 DEF PollMem
    <3>. HIDE DEF fired
    <3>3. mem' \in PollMem
      BY <1>6, <3>1, <3>2, Zenon DEF PollMem
    <3>4. /\ mem'.signaled = m.signaled /\ mem'.shown = m.shown /\ mem'.counter = m.counter
          /\ mem'.result = m.result
      BY <1>6, <3>1 DEF PollMem
    <3>. QED  BY <1>0, <3>1, <3>3, <3>4
  <2>2. CASE pc.poller \notin {"blocked", "woken"}
    BY <1>0, <1>6, <2>2 DEF Poll!Fire
  <2>. QED  BY <2>1, <2>2
<1>7. CASE Poll!GiveSem
  <2>. DEFINE m == [mem EXCEPT !.sem = 1]
  <2>1. Poll!Fire(m, "sem") /\ UNCHANGED seen
    BY <1>7 DEF Poll!GiveSem
  <2>2. 1 \in 0 .. 1
    OBVIOUS
  <2>3. m \in PollMem
    BY <1>0, <2>2, Zenon DEF PollMem
  <2>4. m.signaled = mem.signaled /\ m.shown = mem.shown /\ m.counter = mem.counter /\ m.result = mem.result
    BY <1>0 DEF PollMem
  <2>. HIDE DEF m
  <2>5. /\ mem' \in PollMem
        /\ mem'.signaled = m.signaled /\ mem'.shown = m.shown /\ mem'.counter = m.counter
        /\ mem'.result = m.result
        /\ pc' \in [poller : {"poll", "blocked", "woken", "sem", "check", "reset"}] /\ pc'.poller # "blocked"
        /\ (pc'.poller = "reset" => pc.poller = "reset")
    BY <1>6, <2>1, <2>3
  <2>. QED  BY <1>0, <2>1, <2>4, <2>5 DEF PollInv, Poll!NothingMissed
<1>8. CASE Poll!RaiseSignal
  <2>. DEFINE n == (mem.counter + 1) % Wrap
              m == [mem EXCEPT !.counter = n, !.result = n, !.signaled = TRUE]
  <2>1. Poll!Fire(m, "signal") /\ seen' = (pc.poller = "reset")
    BY <1>8 DEF Poll!RaiseSignal
  <2>2. n \in 0 .. Wrap - 1
    BY <1>0, ProgramAssumptions DEF PollMem, Poll!WrapAssumption
  <2>. HIDE DEF n
  <2>3. m \in PollMem
    BY <1>0, <2>2, Zenon DEF PollMem
  <2>4. m.signaled /\ m.counter = n /\ m.result = n
    BY <1>0 DEF PollMem
  <2>. HIDE DEF m
  <2>5. /\ mem' \in PollMem
        /\ mem'.signaled = m.signaled /\ mem'.counter = m.counter /\ mem'.result = m.result
        /\ pc' \in [poller : {"poll", "blocked", "woken", "sem", "check", "reset"}] /\ pc'.poller # "blocked"
        /\ (pc'.poller = "reset" => pc.poller = "reset")
    BY <1>6, <2>1, <2>3
  <2>. QED  BY <1>0, <2>1, <2>4, <2>5 DEF PollInv, Poll!NothingMissed
<1>. QED  BY <1>1, <1>2, <1>3, <1>4, <1>5, <1>7, <1>8, <1>9 DEF Poll!Step

-----------------------------------------------------------------------------
(* package_event                                                             *)

EventInv ==
  /\ mem \in [sensor_event : SUBSET Event!EVENT_ALL_SENSORS_READY]
  /\ pc \in [waiter : {"wait", "blocked", "work"}]
  /\ seen \in [round : SUBSET Event!EVENT_ALL_SENSORS_READY, meanwhile : SUBSET Event!EVENT_ALL_SENSORS_READY]
  /\ Event!BothFresh

LEMMA EventInit == Event!Init => EventInv
BY DEF Event!Init, EventInv, Event!BothFresh, Event!EVENT_ALL_SENSORS_READY

LEMMA EventStep ==
  ASSUME EventInv, NEW t, Event!Step(t)
  PROVE  EventInv'
<1>. USE DEF EventInv, Event!BothFresh, Event!EVENT_ALL_SENSORS_READY, Event!Go
<1>1. CASE Event!Wait
  BY <1>1 DEF Event!Wait, Event!WaitWith
<1>2. CASE Event!Work
  BY <1>2 DEF Event!Work
<1>3. ASSUME NEW bit \in Event!EVENT_ALL_SENSORS_READY, Event!Post(bit)
      PROVE  EventInv'
  BY <1>3 DEF Event!Post
<1>. QED  BY <1>1, <1>2, <1>3 DEF Event!Step

-----------------------------------------------------------------------------
(* package_sem                                                               *)

SemInv ==
  /\ mem \in [sem : 0 .. 1]
  /\ pc \in [consumer : {"take", "blocked", "work"}]

LEMMA SemInit == Sem!Init => SemInv
BY DEF Sem!Init, SemInv

LEMMA SemStep ==
  ASSUME SemInv, NEW t, Sem!Step(t)
  PROVE  SemInv'
BY DEF SemInv, Sem!Step, Sem!Take, Sem!Work, Sem!Give, Sem!Go

-----------------------------------------------------------------------------
(* package_work_queue                                                        *)

InQueue(w) == \E i \in 1 .. Len(mem.queue) : mem.queue[i] = w

WorkQueueMem ==
  [queue : Seq(WorkQueue!Items), running : WorkQueue!Items \union {"none"}, scheduled : BOOLEAN]

\* No item is queued twice; the periodic one is in exactly one place.
WorkQueueInv ==
  /\ mem \in WorkQueueMem
  /\ pc \in [demo_work_q : {"take", "schedule", "return"}]
  /\ seen \in BOOLEAN
  /\ \A i, j \in 1 .. Len(mem.queue) : mem.queue[i] = mem.queue[j] => i = j
  /\ seen <=> InQueue("one_shot")
  /\ mem.scheduled => ~InQueue("periodic") /\ pc.demo_work_q # "schedule"
  /\ InQueue("periodic") => pc.demo_work_q # "schedule"
  /\ mem.scheduled \/ InQueue("periodic") \/ pc.demo_work_q = "schedule"

LEMMA WorkQueueInit == WorkQueue!Init => WorkQueueInv
<1>. SUFFICES ASSUME WorkQueue!Init PROVE WorkQueueInv
  OBVIOUS
<1>1. <<>> \in Seq(WorkQueue!Items) /\ Len(<<>>) = 0
  BY EmptySeq
<1>2. mem \in WorkQueueMem
  BY <1>1, Zenon DEF WorkQueue!Init, WorkQueueMem
<1>3. mem.scheduled /\ Len(mem.queue) = 0 /\ pc = [demo_work_q |-> "take"]
  BY <1>1 DEF WorkQueue!Init
<1>4. seen \in BOOLEAN /\ ~seen
  BY DEF WorkQueue!Init
<1>5. \A w : ~InQueue(w)
  BY <1>3 DEF InQueue
<1>. QED  BY <1>2, <1>3, <1>4, <1>5 DEF WorkQueueInv

\* Submitting leaves the item in the queue once.
LEMMA WorkQueueSubmitted ==
  ASSUME WorkQueueInv, NEW w \in WorkQueue!Items, NEW q, q = WorkQueue!Submitted(w)
  PROVE  /\ q \in Seq(WorkQueue!Items)
         /\ \A i, j \in 1 .. Len(q) : q[i] = q[j] => i = j
         /\ \A x : (\E i \in 1 .. Len(q) : q[i] = x) <=> (InQueue(x) \/ x = w)
<1>1. mem.queue \in Seq(WorkQueue!Items) /\ Len(mem.queue) \in Nat /\ DOMAIN mem.queue = 1 .. Len(mem.queue)
  BY LenProperties DEF WorkQueueInv, WorkQueueMem
<1>2. CASE WorkQueue!Queued(w)
  BY <1>1, <1>2 DEF WorkQueueInv, WorkQueue!Submitted, WorkQueue!Queued, InQueue
<1>3. CASE ~WorkQueue!Queued(w)
  <2>1. q = Append(mem.queue, w) /\ ~InQueue(w)
    BY <1>1, <1>3 DEF WorkQueue!Submitted, WorkQueue!Queued, InQueue
  <2>2. /\ q \in Seq(WorkQueue!Items) /\ Len(q) = Len(mem.queue) + 1
        /\ \A i \in 1 .. Len(mem.queue) : q[i] = mem.queue[i]
        /\ q[Len(mem.queue) + 1] = w
    BY <1>1, <2>1, AppendProperties
  <2>3. \A i \in 1 .. Len(q) : i \in 1 .. Len(mem.queue) \/ i = Len(mem.queue) + 1
    BY <1>1, <2>2
  <2>4. ASSUME NEW i \in 1 .. Len(q), NEW j \in 1 .. Len(q), q[i] = q[j]
        PROVE  i = j
    BY <2>1, <2>2, <2>3, <2>4 DEF WorkQueueInv, InQueue
  <2>5. (\A i \in 1 .. Len(mem.queue) : i \in 1 .. Len(q)) /\ Len(mem.queue) + 1 \in 1 .. Len(q)
    BY <1>1, <2>2
  <2>6. ASSUME NEW x
        PROVE  (\E i \in 1 .. Len(q) : q[i] = x) <=> (InQueue(x) \/ x = w)
    BY <2>2, <2>3, <2>5 DEF InQueue
  <2>. QED  BY <2>2, <2>4, <2>6
<1>. QED  BY <1>2, <1>3

LEMMA WorkQueueStep ==
  ASSUME WorkQueueInv, NEW t, WorkQueue!Step(t)
  PROVE  WorkQueueInv'
<1>0. /\ mem \in WorkQueueMem /\ mem.queue \in Seq(WorkQueue!Items) /\ Len(mem.queue) \in Nat
      /\ pc \in [demo_work_q : {"take", "schedule", "return"}] /\ seen \in BOOLEAN
  BY LenProperties DEF WorkQueueInv, WorkQueueMem
<1>. USE DEF WorkQueue!Go
<1>1. CASE WorkQueue!Trigger
  <2>. DEFINE q == WorkQueue!Submitted("one_shot")
  <2>1. mem' = [mem EXCEPT !.queue = q] /\ seen' = TRUE /\ UNCHANGED pc
    BY <1>1 DEF WorkQueue!Trigger
  <2>2. /\ q \in Seq(WorkQueue!Items)
        /\ \A i, j \in 1 .. Len(q) : q[i] = q[j] => i = j
        /\ \A x : (\E i \in 1 .. Len(q) : q[i] = x) <=> (InQueue(x) \/ x = "one_shot")
    BY WorkQueueSubmitted DEF WorkQueue!Items
  <2>. HIDE DEF q
  <2>3. mem' \in WorkQueueMem
    BY <1>0, <2>1, <2>2, Zenon DEF WorkQueueMem
  <2>4. mem'.queue = q /\ mem'.scheduled = mem.scheduled
    BY <1>0, <2>1 DEF WorkQueueMem
  <2>5. ASSUME NEW x
        PROVE  InQueue(x)' <=> (InQueue(x) \/ x = "one_shot")
    BY <2>2, <2>4 DEF InQueue
  <2>6. seen' \in BOOLEAN /\ (seen' <=> InQueue("one_shot")')
    BY <2>1, <2>5
  <2>7. InQueue("periodic")' <=> InQueue("periodic")
    BY <2>5
  <2>. QED  BY <1>0, <2>1, <2>2, <2>3, <2>4, <2>6, <2>7 DEF WorkQueueInv
<1>2. CASE WorkQueue!TimerExpires
  <2>. DEFINE q == WorkQueue!Submitted("periodic")
  <2>1. mem' = [mem EXCEPT !.scheduled = FALSE, !.queue = q] /\ mem.scheduled /\ UNCHANGED <<pc, seen>>
    BY <1>2 DEF WorkQueue!TimerExpires
  <2>2. /\ q \in Seq(WorkQueue!Items)
        /\ \A i, j \in 1 .. Len(q) : q[i] = q[j] => i = j
        /\ \A x : (\E i \in 1 .. Len(q) : q[i] = x) <=> (InQueue(x) \/ x = "periodic")
    BY WorkQueueSubmitted DEF WorkQueue!Items
  <2>. HIDE DEF q
  <2>3. mem' \in WorkQueueMem
    BY <1>0, <2>1, <2>2, Zenon DEF WorkQueueMem
  <2>4. mem'.queue = q /\ ~mem'.scheduled
    BY <1>0, <2>1 DEF WorkQueueMem
  <2>5. ASSUME NEW x
        PROVE  InQueue(x)' <=> (InQueue(x) \/ x = "periodic")
    BY <2>2, <2>4 DEF InQueue
  <2>6. InQueue("periodic")' /\ (InQueue("one_shot")' <=> InQueue("one_shot"))
    BY <2>5
  <2>. QED  BY <1>0, <2>1, <2>2, <2>3, <2>4, <2>6 DEF WorkQueueInv
<1>3. CASE WorkQueue!Take
  <2>. DEFINE w == Head(mem.queue)
              q == Tail(mem.queue)
  <2>1. /\ mem' = [mem EXCEPT !.queue = q, !.running = w] /\ seen' = (seen /\ w # "one_shot")
        /\ mem.queue # <<>> /\ pc.demo_work_q = "take"
        /\ pc' = [pc EXCEPT !.demo_work_q = IF w = "periodic" THEN "schedule" ELSE "return"]
    BY <1>3 DEF WorkQueue!Take
  <2>2. /\ w \in WorkQueue!Items /\ w = mem.queue[1] /\ Len(mem.queue) \in Nat \ {0}
        /\ q \in Seq(WorkQueue!Items) /\ Len(q) = Len(mem.queue) - 1
        /\ \A i \in 1 .. Len(q) : q[i] = mem.queue[i + 1]
    BY <1>0, <2>1, HeadTailProperties, EmptySeq
  <2>. HIDE DEF w, q
  <2>3. mem' \in WorkQueueMem
    BY <1>0, <2>1, <2>2, Zenon DEF WorkQueueMem
  <2>4. mem'.queue = q /\ mem'.scheduled = mem.scheduled
    BY <1>0, <2>1 DEF WorkQueueMem
  <2>5. ASSUME NEW i \in 1 .. Len(q)
        PROVE  i + 1 \in 1 .. Len(mem.queue) /\ i + 1 # 1 /\ q[i] = mem.queue[i + 1] /\ 1 \in 1 .. Len(mem.queue)
    BY <1>0, <2>2
  <2>6. ASSUME NEW i \in 1 .. Len(q), NEW j \in 1 .. Len(q), q[i] = q[j]
        PROVE  i = j
    <3>1. i + 1 = j + 1
      BY <2>5, <2>6 DEF WorkQueueInv
    <3>. QED  BY <1>0, <2>2, <3>1
  <2>7. ASSUME NEW x
        PROVE  (\E i \in 1 .. Len(q) : q[i] = x) <=> (InQueue(x) /\ x # w)
    <3>1. ASSUME NEW i \in 1 .. Len(q), q[i] = x
          PROVE  InQueue(x) /\ x # w
      BY <2>2, <2>5, <3>1 DEF WorkQueueInv, InQueue
    <3>2. ASSUME NEW k \in 1 .. Len(mem.queue), mem.queue[k] = x, x # w
          PROVE  k - 1 \in 1 .. Len(q) /\ q[k - 1] = x
      <4>1. k # 1
        BY <2>2, <3>2
      <4>2. k - 1 \in 1 .. Len(q) /\ (k - 1) + 1 = k
        BY <1>0, <2>2, <4>1
      <4>. QED  BY <2>2, <3>2, <4>2
    <3>. QED  BY <3>1, <3>2 DEF InQueue
  <2>8. InQueue(w)
    BY <2>2 DEF InQueue
  <2>9. /\ pc' \in [demo_work_q : {"take", "schedule", "return"}]
        /\ pc'.demo_work_q = IF w = "periodic" THEN "schedule" ELSE "return"
    BY <1>0, <2>1
  <2>10. ASSUME NEW x
         PROVE  InQueue(x)' <=> (InQueue(x) /\ x # w)
    BY <2>4, <2>7 DEF InQueue
  <2>11. seen' \in BOOLEAN /\ (seen' <=> InQueue("one_shot")')
    BY <2>1, <2>10 DEF WorkQueueInv
  <2>12. InQueue("periodic")' <=> (InQueue("periodic") /\ w # "periodic")
    BY <2>10
  <2>13. mem'.scheduled => ~InQueue("periodic") /\ w # "periodic"
    BY <2>4, <2>8 DEF WorkQueueInv
  <2>14. mem'.scheduled \/ InQueue("periodic")' \/ pc'.demo_work_q = "schedule"
    BY <2>1, <2>4, <2>9, <2>12 DEF WorkQueueInv
  <2>. QED  BY <2>3, <2>4, <2>6, <2>9, <2>11, <2>12, <2>13, <2>14 DEF WorkQueueInv
<1>4. CASE WorkQueue!Reschedule
  <2>1. /\ mem' = [mem EXCEPT !.scheduled = TRUE] /\ UNCHANGED seen
        /\ pc.demo_work_q = "schedule" /\ pc' = [pc EXCEPT !.demo_work_q = "return"]
    BY <1>4 DEF WorkQueue!Reschedule
  <2>2. mem' \in WorkQueueMem
    BY <1>0, <2>1, Zenon DEF WorkQueueMem
  <2>3. mem'.queue = mem.queue /\ mem'.scheduled
    BY <1>0, <2>1 DEF WorkQueueMem
  <2>. QED  BY <1>0, <2>1, <2>2, <2>3 DEF WorkQueueInv, InQueue
<1>5. CASE WorkQueue!Return
  <2>1. /\ mem' = [mem EXCEPT !.running = "none"] /\ UNCHANGED seen
        /\ pc.demo_work_q = "return" /\ pc' = [pc EXCEPT !.demo_work_q = "take"]
    BY <1>5 DEF WorkQueue!Return
  <2>2. mem' \in WorkQueueMem
    BY <1>0, <2>1, Zenon DEF WorkQueueMem
  <2>3. mem'.queue = mem.queue /\ mem'.scheduled = mem.scheduled
    BY <1>0, <2>1 DEF WorkQueueMem
  <2>. QED  BY <1>0, <2>1, <2>2, <2>3 DEF WorkQueueInv, InQueue
<1>. QED  BY <1>1, <1>2, <1>3, <1>4, <1>5 DEF WorkQueue!Step

LEMMA WorkQueueNothingMissed == WorkQueueInv => WorkQueue!NothingMissed
<1>. SUFFICES ASSUME WorkQueueInv PROVE WorkQueue!NothingMissed
  OBVIOUS
<1>1. DOMAIN mem.queue = 1 .. Len(mem.queue)
  BY LenProperties DEF WorkQueueInv, WorkQueueMem
<1>2. \A w : WorkQueue!Queued(w) <=> InQueue(w)
  BY <1>1 DEF WorkQueue!Queued, InQueue
<1>. DEFINE places == {p \in {"timer", "queue", "handler"} :
                         \/ p = "timer" /\ mem.scheduled
                         \/ p = "queue" /\ WorkQueue!Queued("periodic")
                         \/ p = "handler" /\ pc.demo_work_q = "schedule"}
<1>3. PICK p : places = {p}
  <2>1. CASE mem.scheduled
    <3>1. places = {"timer"}
      BY <1>2, <2>1 DEF WorkQueueInv
    <3>. QED  BY <3>1
  <2>2. CASE InQueue("periodic")
    <3>1. places = {"queue"}
      BY <1>2, <2>2 DEF WorkQueueInv
    <3>. QED  BY <3>1
  <2>3. CASE pc.demo_work_q = "schedule"
    <3>1. places = {"handler"}
      BY <1>2, <2>3 DEF WorkQueueInv
    <3>. QED  BY <3>1
  <2>. QED  BY <2>1, <2>2, <2>3 DEF WorkQueueInv
<1>4. Cardinality(places) = 1
  BY <1>3, FS_Singleton
<1>5. WorkQueue!Cardinality(places) = 1
  BY <1>4 DEF Cardinality, WorkQueue!Cardinality
<1>6. seen <=> WorkQueue!Queued("one_shot")
  BY <1>2 DEF WorkQueueInv
<1>. QED  BY <1>5, <1>6 DEF WorkQueue!NothingMissed

-----------------------------------------------------------------------------
(* package_kmutex                                                            *)

KmutexMem ==
  [owner : Kmutex!Threads \union {"none"}, shared_counter : 0 .. Wrap - 1,
   read : [Kmutex!Threads -> 0 .. Wrap - 1]]
Critical == {"load", "store", "unlock"}

\* The owner is the thread in the critical section; what it has read is still
\* the value when it stores.
KmutexInv ==
  /\ mem \in KmutexMem
  /\ pc \in [Kmutex!Threads -> {"lock", "waiting"} \union Critical]
  /\ Kmutex!NoUpdateLost
  /\ \A t \in Kmutex!Threads : pc[t] \in Critical <=> mem.owner = t
  /\ \A t \in Kmutex!Threads : pc[t] = "store" => mem.read[t] = mem.shared_counter

LEMMA KmutexOther ==
  \A t \in Kmutex!Threads :
    /\ Kmutex!Other(t) \in Kmutex!Threads /\ Kmutex!Other(t) # t
    /\ \A u \in Kmutex!Threads : u = t \/ u = Kmutex!Other(t)
<1>1. \A t \in Kmutex!Threads : \E u \in Kmutex!Threads : u # t
  BY DEF Kmutex!Threads
<1>2. \A t \in Kmutex!Threads : Kmutex!Other(t) \in Kmutex!Threads /\ Kmutex!Other(t) # t
  BY <1>1 DEF Kmutex!Other
<1>. QED  BY <1>2 DEF Kmutex!Threads

LEMMA KmutexInit == Kmutex!Init => KmutexInv
<1>. SUFFICES ASSUME Kmutex!Init PROVE KmutexInv
  OBVIOUS
<1>1. 0 \in 0 .. Wrap - 1
  BY ProgramAssumptions DEF Kmutex!WrapAssumption
<1>2. [A |-> 0, B |-> 0] \in [Kmutex!Threads -> 0 .. Wrap - 1]
  BY <1>1 DEF Kmutex!Threads
<1>3. mem \in KmutexMem
  BY <1>1, <1>2, Zenon DEF Kmutex!Init, KmutexMem
<1>4. /\ pc \in [Kmutex!Threads -> {"lock", "waiting"} \union Critical]
      /\ \A t \in Kmutex!Threads : pc[t] = "lock"
  BY DEF Kmutex!Init, Kmutex!Threads
<1>5. mem.owner = "none" /\ mem.shared_counter = seen
  BY DEF Kmutex!Init
<1>. QED  BY <1>3, <1>4, <1>5 DEF KmutexInv, Kmutex!NoUpdateLost, Critical, Kmutex!Threads

LEMMA KmutexStep ==
  ASSUME KmutexInv, NEW t, Kmutex!Step(t)
  PROVE  KmutexInv'
<1>0. /\ mem \in KmutexMem /\ t \in Kmutex!Threads
      /\ pc \in [Kmutex!Threads -> {"lock", "waiting"} \union Critical]
      /\ mem.read \in [Kmutex!Threads -> 0 .. Wrap - 1] /\ mem.shared_counter \in 0 .. Wrap - 1
  BY DEF KmutexInv, KmutexMem, Kmutex!Step
<1>w. Wrap \in Nat \ {0, 1}
  BY ProgramAssumptions DEF Kmutex!WrapAssumption
<1>n. "none" \notin Kmutex!Threads
  BY DEF Kmutex!Threads
<1>. USE DEF Kmutex!Go
<1>1. CASE mem.owner = "none" /\ pc[t] = "lock" /\ pc' = [pc EXCEPT ![t] = "load"]
           /\ mem' = [mem EXCEPT !.owner = t] /\ UNCHANGED seen
  <2>1. t \in Kmutex!Threads \union {"none"}
    BY <1>0
  <2>2. mem' \in KmutexMem
    BY <1>0, <1>1, <2>1, Zenon DEF KmutexMem
  <2>3. mem'.owner = t /\ mem'.shared_counter = mem.shared_counter /\ mem'.read = mem.read
    BY <1>0, <1>1 DEF KmutexMem
  <2>4. \A u \in Kmutex!Threads : pc[u] = "lock"
    BY <1>0, <1>1, <1>n, KmutexOther DEF KmutexInv, Kmutex!NoUpdateLost, Critical
  <2>5. /\ pc' \in [Kmutex!Threads -> {"lock", "waiting"} \union Critical]
        /\ \A u \in Kmutex!Threads : pc'[u] = IF u = t THEN "load" ELSE "lock"
    BY <1>0, <1>1, <2>4 DEF Critical
  <2>. QED  BY <1>0, <1>1, <2>2, <2>3, <2>5 DEF KmutexInv, Kmutex!NoUpdateLost, Critical
<1>2. CASE mem.owner # "none" /\ pc[t] = "lock" /\ pc' = [pc EXCEPT ![t] = "waiting"]
           /\ UNCHANGED <<mem, seen>>
  <2>1. mem.owner = Kmutex!Other(t)
    BY <1>0, <1>2, KmutexOther DEF KmutexInv, KmutexMem, Critical
  <2>2. /\ pc' \in [Kmutex!Threads -> {"lock", "waiting"} \union Critical]
        /\ \A u \in Kmutex!Threads : pc'[u] = IF u = t THEN "waiting" ELSE pc[u]
    BY <1>0, <1>2
  <2>. QED  BY <1>0, <1>2, <2>1, <2>2 DEF KmutexInv, Kmutex!NoUpdateLost, Critical
<1>3. CASE Kmutex!Load(t)
  <2>. DEFINE r == [mem.read EXCEPT ![t] = mem.shared_counter]
  <2>1. /\ mem' = [mem EXCEPT !.read = r] /\ UNCHANGED seen
        /\ pc[t] = "load" /\ pc' = [pc EXCEPT ![t] = "store"]
    BY <1>3 DEF Kmutex!Load
  <2>2. r \in [Kmutex!Threads -> 0 .. Wrap - 1] /\ r[t] = mem.shared_counter
        /\ \A u \in Kmutex!Threads \ {t} : r[u] = mem.read[u]
    BY <1>0
  <2>. HIDE DEF r
  <2>3. mem' \in KmutexMem
    BY <1>0, <2>1, <2>2, Zenon DEF KmutexMem
  <2>4. mem'.owner = mem.owner /\ mem'.shared_counter = mem.shared_counter /\ mem'.read = r
    BY <1>0, <2>1 DEF KmutexMem
  <2>5. /\ pc' \in [Kmutex!Threads -> {"lock", "waiting"} \union Critical]
        /\ \A u \in Kmutex!Threads : pc'[u] = IF u = t THEN "store" ELSE pc[u]
    BY <1>0, <2>1 DEF Critical
  <2>. QED  BY <1>0, <2>1, <2>2, <2>3, <2>4, <2>5 DEF KmutexInv, Kmutex!NoUpdateLost, Critical
<1>4. CASE Kmutex!Store(t)
  <2>. DEFINE r == [mem.read EXCEPT ![t] = 0]
              n == (mem.read[t] + 1) % Wrap
  <2>1. /\ mem' = [mem EXCEPT !.shared_counter = n, !.read = r] /\ seen' = (seen + 1) % Wrap
        /\ pc[t] = "store" /\ pc' = [pc EXCEPT ![t] = "unlock"]
    BY <1>4 DEF Kmutex!Store
  <2>2. n = seen' /\ n \in 0 .. Wrap - 1
    BY <1>0, <1>w, <2>1, ModRange DEF KmutexInv, Kmutex!NoUpdateLost
  <2>3. r \in [Kmutex!Threads -> 0 .. Wrap - 1]
    BY <1>0, <1>w
  <2>. HIDE DEF r, n
  <2>4. mem' \in KmutexMem
    BY <1>0, <2>1, <2>2, <2>3, Zenon DEF KmutexMem
  <2>5. mem'.owner = mem.owner /\ mem'.shared_counter = n
    BY <1>0, <2>1 DEF KmutexMem
  <2>6. /\ pc' \in [Kmutex!Threads -> {"lock", "waiting"} \union Critical]
        /\ \A u \in Kmutex!Threads : pc'[u] = IF u = t THEN "unlock" ELSE pc[u]
    BY <1>0, <2>1 DEF Critical
  <2>7. \A u \in Kmutex!Threads : pc'[u] # "store"
    BY <1>0, <2>1, <2>6 DEF KmutexInv, Critical
  <2>. QED  BY <1>0, <2>1, <2>2, <2>4, <2>5, <2>6, <2>7 DEF KmutexInv, Kmutex!NoUpdateLost, Critical
<1>5. CASE Kmutex!Unlock(t)
  <2>0. pc[t] = "unlock" /\ UNCHANGED seen /\ mem.owner = t
    BY <1>0, <1>5 DEF Kmutex!Unlock, KmutexInv, Critical
  <2>. DEFINE o == Kmutex!Other(t)
  <2>1. o \in Kmutex!Threads /\ o # t /\ \A u \in Kmutex!Threads : u = t \/ u = o
    BY <1>0, KmutexOther
  <2>2. CASE pc[o] = "waiting"
    <3>1. pc' = [pc EXCEPT ![t] = "lock", ![o] = "load"] /\ mem' = [mem EXCEPT !.owner = o]
      BY <1>5, <2>2 DEF Kmutex!Unlock
    <3>. HIDE DEF o
    <3>2. o \in Kmutex!Threads \union {"none"}
      BY <2>1
    <3>3. mem' \in KmutexMem
      BY <1>0, <3>1, <3>2, Zenon DEF KmutexMem
    <3>4. mem'.owner = o /\ mem'.shared_counter = mem.shared_counter /\ mem'.read = mem.read
      BY <1>0, <3>1 DEF KmutexMem
    <3>5. /\ pc' \in [Kmutex!Threads -> {"lock", "waiting"} \union Critical]
          /\ pc'[t] = "lock" /\ pc'[o] = "load"
      BY <1>0, <2>1, <3>1 DEF Critical
    <3>. QED  BY <1>0, <2>0, <2>1, <3>3, <3>4, <3>5 DEF KmutexInv, Kmutex!NoUpdateLost, Critical
  <2>3. CASE pc[o] # "waiting"
    <3>1. pc' = [pc EXCEPT ![t] = "lock"] /\ mem' = [mem EXCEPT !.owner = "none"]
      BY <1>5, <2>3 DEF Kmutex!Unlock
    <3>. HIDE DEF o
    <3>2. mem' \in KmutexMem
      BY <1>0, <3>1, Zenon DEF KmutexMem
    <3>3. mem'.owner = "none" /\ mem'.shared_counter = mem.shared_counter /\ mem'.read = mem.read
      BY <1>0, <3>1 DEF KmutexMem
    <3>4. /\ pc' \in [Kmutex!Threads -> {"lock", "waiting"} \union Critical]
          /\ pc'[t] = "lock" /\ pc'[o] = pc[o] /\ pc[o] = "lock"
      BY <1>0, <2>0, <2>1, <2>3, <3>1 DEF KmutexInv, Critical
    <3>5. \A u \in Kmutex!Threads : pc'[u] = "lock"
      BY <2>1, <3>4
    <3>. QED  BY <1>0, <1>n, <2>0, <3>2, <3>3, <3>4, <3>5 DEF KmutexInv, Kmutex!NoUpdateLost, Critical
  <2>. QED  BY <2>2, <2>3
<1>. QED  BY <1>1, <1>2, <1>3, <1>4, <1>5 DEF Kmutex!Step, Kmutex!Lock

-----------------------------------------------------------------------------
(* package_atomic                                                            *)

AtomicMem == [counter : Int, flags : SUBSET {"incrementer", "decrementer"}, old_val : Int]

AtomicInv ==
  /\ mem \in AtomicMem
  /\ pc \in [incrementer : {"inc", "set", "cas"}, decrementer : {"dec", "set", "test", "clear"}]
  /\ Atomic!NoUpdateLost
  /\ mem.counter >= -MaxDrift

LEMMA AtomicInit == Atomic!Init => AtomicInv
BY ProgramAssumptions DEF Atomic!MarkAssumption, Atomic!Init, AtomicInv, AtomicMem, Atomic!NoUpdateLost

LEMMA AtomicStep ==
  ASSUME AtomicInv, NEW t, Atomic!Step(t)
  PROVE  AtomicInv'
<1>. USE DEF AtomicInv, AtomicMem, Atomic!NoUpdateLost, Atomic!Go
<1>0. HighWater \in Nat \ {0} /\ MaxDrift \in Nat
  BY ProgramAssumptions DEF Atomic!MarkAssumption
<1>1. CASE Atomic!Inc
  <2>. DEFINE n == mem.counter + 1
              o == mem.counter
  <2>1. /\ mem' = [mem EXCEPT !.counter = n, !.old_val = o] /\ seen' = seen + 1
        /\ pc.incrementer = "inc" /\ pc' = [pc EXCEPT !.incrementer = "set"]
    BY <1>1 DEF Atomic!Inc
  <2>2. n \in Int /\ o \in Int /\ n = seen' /\ n <= HighWater /\ n >= -MaxDrift
    BY <1>0, <2>1
  <2>. HIDE DEF n, o
  <2>3. mem' \in AtomicMem
    BY <2>1, <2>2, Zenon
  <2>4. mem'.counter = n
    BY <2>1
  <2>5. /\ pc' \in [incrementer : {"inc", "set", "cas"}, decrementer : {"dec", "set", "test", "clear"}]
        /\ pc'.incrementer = "set"
    BY <2>1
  <2>. QED  BY <2>2, <2>3, <2>4, <2>5
<1>2. CASE Atomic!SetInc
  BY <1>0, <1>2 DEF Atomic!SetInc
<1>3. CASE Atomic!Cas
  <2>1. /\ pc' \in [incrementer : {"inc", "set", "cas"}, decrementer : {"dec", "set", "test", "clear"}]
        /\ pc'.incrementer = "inc"
    BY <1>3 DEF Atomic!Cas
  <2>2. CASE mem.counter = HighWater
    <3>1. mem' = [mem EXCEPT !.counter = 0, !.old_val = 0] /\ seen' = seen - HighWater
      BY <1>3, <2>2 DEF Atomic!Cas
    <3>2. mem' \in AtomicMem
      <4>1. 0 \in Int
        OBVIOUS
      <4>. QED  BY <3>1, <4>1, Zenon
    <3>3. mem'.counter = 0
      BY <3>1
    <3>5. mem.counter = seen
      OBVIOUS
    <3>6. seen' = 0
      BY <1>0, <2>2, <3>1, <3>5
    <3>4. 0 \in Int /\ 0 <= HighWater /\ 0 < HighWater /\ 0 >= -MaxDrift
      BY <1>0
    <3>. QED  BY <2>1, <3>2, <3>3, <3>4, <3>6
  <2>3. CASE mem.counter # HighWater
    <3>1. mem' = [mem EXCEPT !.old_val = 0] /\ UNCHANGED seen
      BY <1>3, <2>3 DEF Atomic!Cas
    <3>2. mem' \in AtomicMem
      <4>1. 0 \in Int
        OBVIOUS
      <4>. QED  BY <3>1, <4>1, Zenon
    <3>3. mem'.counter = mem.counter
      BY <3>1
    <3>. QED  BY <1>0, <2>1, <2>3, <3>1, <3>2, <3>3
  <2>. QED  BY <2>2, <2>3
<1>4. CASE Atomic!Dec
  BY <1>0, <1>4 DEF Atomic!Dec
<1>5. CASE Atomic!SetDec
  BY <1>0, <1>5 DEF Atomic!SetDec
<1>6. CASE Atomic!TestBit
  BY <1>0, <1>6 DEF Atomic!TestBit
<1>7. CASE Atomic!ClearBit
  BY <1>0, <1>7 DEF Atomic!ClearBit
<1>. QED  BY <1>1, <1>2, <1>3, <1>4, <1>5, <1>6, <1>7 DEF Atomic!Step

-----------------------------------------------------------------------------
(* package_kmsq                                                              *)

KmsqMessage == [id : Nat, value : Nat]

KmsqMem == [queue : Seq(KmsqMessage), seq : 0 .. Wrap - 1, out : KmsqMessage, in : KmsqMessage]

\* The producer is as many messages ahead as the queue holds.
KmsqInv ==
  /\ mem \in KmsqMem
  /\ pc \in [producer : {"build", "put"}, consumer : {"get", "work"}]
  /\ seen \in 0 .. Wrap - 1
  /\ Len(mem.queue) <= QueueSize
  /\ mem.seq = (seen + Len(mem.queue)) % Wrap
  /\ pc.producer = "put" => mem.out = Kmsq!Message(mem.seq)
  /\ \A i \in 1 .. Len(mem.queue) : mem.queue[i] = Kmsq!Message(seen + i - 1)
  /\ pc.consumer = "work" => mem.in = Kmsq!Message(seen + Wrap - 1)

LEMMA KmsqMessageType == ASSUME NEW n \in Nat PROVE Kmsq!Message(n) \in KmsqMessage
<1>1. Wrap \in Nat \ {0}
  BY ProgramAssumptions DEF Kmutex!WrapAssumption
<1>2. n % Wrap \in Nat
  BY <1>1
<1>3. 1000 + ((n % Wrap) % 100) \in Nat
  BY <1>2
<1>. QED  BY <1>2, <1>3 DEF Kmsq!Message, KmsqMessage

\* The message after n rounds of the counter is the same.
LEMMA KmsqMessageMod ==
  ASSUME NEW n \in Nat, NEW k \in Nat, n % Wrap = k % Wrap
  PROVE  Kmsq!Message(n) = Kmsq!Message(k)
BY DEF Kmsq!Message

LEMMA KmsqInit == Kmsq!Init => KmsqInv
<1>1. Wrap \in Nat \ {0} /\ QueueSize \in Nat /\ 0 % Wrap = 0
  BY ProgramAssumptions, ModSmall DEF Kmutex!WrapAssumption, Kmsq!WrapAssumption
<1>2. Kmsq!Message(0) \in KmsqMessage
  BY KmsqMessageType
<1>. QED  BY <1>1, <1>2 DEF Kmsq!Init, KmsqInv, KmsqMem

LEMMA KmsqStep ==
  ASSUME KmsqInv, NEW t, Kmsq!Step(t)
  PROVE  KmsqInv'
<1>w. Wrap \in Nat \ {0} /\ QueueSize \in Nat /\ Wrap > QueueSize + 1
  BY ProgramAssumptions DEF Kmutex!WrapAssumption, Kmsq!WrapAssumption
<1>0. /\ mem.queue \in Seq(KmsqMessage) /\ Len(mem.queue) \in Nat /\ Len(mem.queue) <= QueueSize
      /\ mem.seq \in 0 .. Wrap - 1 /\ seen \in 0 .. Wrap - 1
  BY DEF KmsqInv, KmsqMem
<1>. DEFINE PcType == pc \in [producer : {"build", "put"}, consumer : {"get", "work"}]
<1>p. PcType
  BY DEF KmsqInv
<1>1. CASE Kmsq!Build
  <2>. DEFINE o == Kmsq!Message(mem.seq)
  <2>1. /\ mem' = [mem EXCEPT !.out = o] /\ UNCHANGED seen
        /\ pc' = [pc EXCEPT !.producer = "put"]
    BY <1>1 DEF Kmsq!Build, Kmsq!Go
  <2>2. o \in KmsqMessage
    BY <1>0, <1>w, KmsqMessageType
  <2>. HIDE DEF o
  <2>3. /\ mem' \in KmsqMem /\ mem'.queue = mem.queue /\ mem'.seq = mem.seq
        /\ mem'.in = mem.in /\ mem'.out = o
    BY <2>1, <2>2 DEF KmsqInv, KmsqMem
  <2>4. PcType' /\ pc'.consumer = pc.consumer
    BY <1>p, <2>1
  <2>. QED  BY <2>1, <2>3, <2>4 DEF KmsqInv, o
<1>2. CASE Kmsq!Put
  <2>. DEFINE q == Append(mem.queue, mem.out)
              n == (mem.seq + 1) % Wrap
  <2>1. /\ mem' = [mem EXCEPT !.queue = q, !.seq = n] /\ UNCHANGED seen
        /\ pc.producer = "put" /\ pc' = [pc EXCEPT !.producer = "build"]
        /\ Len(mem.queue) < QueueSize
    BY <1>2 DEF Kmsq!Put, Kmsq!Go
  <2>2. mem.out \in KmsqMessage /\ mem.out = Kmsq!Message(mem.seq)
    BY <2>1 DEF KmsqInv, KmsqMem
  <2>3. /\ q \in Seq(KmsqMessage) /\ Len(q) = Len(mem.queue) + 1
        /\ \A i \in 1 .. Len(mem.queue) : q[i] = mem.queue[i]
        /\ q[Len(mem.queue) + 1] = mem.out
    BY <1>0, <2>2
  <2>4. mem.seq = (seen + Len(mem.queue)) % Wrap
    BY DEF KmsqInv
  <2>5. n \in 0 .. Wrap - 1 /\ n = (seen + Len(mem.queue) + 1) % Wrap
        /\ mem.seq % Wrap = (seen + Len(mem.queue)) % Wrap
    <3>. DEFINE l == Len(mem.queue)
    <3>1. l \in 0 .. Wrap - 1
      BY <1>0, <1>w
    <3>2. n \in 0 .. Wrap - 1
      <4>1. mem.seq + 1 \in Nat
        BY <1>0
      <4>. QED  BY <1>w, <4>1, ModRange
    <3>. HIDE DEF l
    <3>3. (((seen + l) % Wrap) + 1) % Wrap = (seen + l + 1) % Wrap
          /\ ((seen + l) % Wrap) % Wrap = (seen + l) % Wrap
      BY <1>0, <1>w, <3>1, ModNext
    <3>. QED  BY <2>4, <3>2, <3>3 DEF l
  <2>6. mem.out = Kmsq!Message(seen + Len(mem.queue))
    <3>1. mem.seq \in Nat /\ seen + Len(mem.queue) \in Nat
      BY <1>0
    <3>. QED  BY <2>2, <2>5, <3>1, KmsqMessageMod
  <2>. HIDE DEF q, n
  <2>7. mem' \in KmsqMem /\ mem'.queue = q /\ mem'.seq = n /\ mem'.in = mem.in
    BY <2>1, <2>3, <2>5 DEF KmsqInv, KmsqMem
  <2>8. PcType' /\ pc'.consumer = pc.consumer /\ pc'.producer = "build"
    BY <1>p, <2>1
  <2>9. \A i \in 1 .. Len(q) : q[i] = Kmsq!Message(seen + i - 1)
    <3>1. \A i \in 1 .. Len(mem.queue) : mem.queue[i] = Kmsq!Message(seen + i - 1)
      BY DEF KmsqInv
    <3>2. Len(mem.queue) + 1 - 1 = Len(mem.queue) /\ seen + (Len(mem.queue) + 1) - 1 = seen + Len(mem.queue)
      BY <1>0
    <3>. SUFFICES ASSUME NEW i \in 1 .. Len(q) PROVE q[i] = Kmsq!Message(seen + i - 1)
      OBVIOUS
    <3>3. CASE i \in 1 .. Len(mem.queue)
      BY <2>3, <3>1, <3>3
    <3>4. CASE i = Len(mem.queue) + 1
      BY <2>3, <2>6, <3>2, <3>4
    <3>. QED  BY <1>0, <2>3, <3>3, <3>4
  <2>10. Len(q) <= QueueSize /\ n = (seen + Len(q)) % Wrap
    <3>1. seen + Len(q) = seen + Len(mem.queue) + 1
      BY <1>0, <2>3
    <3>2. Len(q) <= QueueSize
      BY <1>0, <1>w, <2>1, <2>3
    <3>. QED  BY <2>5, <3>1, <3>2
  <2>. QED  BY <1>0, <2>1, <2>7, <2>8, <2>9, <2>10 DEF KmsqInv
<1>3. CASE Kmsq!Get
  <2>. DEFINE q == Tail(mem.queue)
              h == Head(mem.queue)
  <2>1. /\ mem' = [mem EXCEPT !.in = h, !.queue = q] /\ seen' = (seen + 1) % Wrap
        /\ pc' = [pc EXCEPT !.consumer = "work"] /\ mem.queue # <<>>
    BY <1>3 DEF Kmsq!Get, Kmsq!Go
  <2>2. /\ q \in Seq(KmsqMessage) /\ h \in KmsqMessage /\ Len(mem.queue) > 0
        /\ Len(q) = Len(mem.queue) - 1 /\ h = mem.queue[1]
        /\ \A i \in 1 .. Len(q) : q[i] = mem.queue[i + 1]
    BY <1>0, <2>1
  <2>3. \A i \in 1 .. Len(mem.queue) : mem.queue[i] = Kmsq!Message(seen + i - 1)
    BY DEF KmsqInv
  <2>4. seen' \in 0 .. Wrap - 1 /\ seen' = IF seen + 1 = Wrap THEN 0 ELSE seen + 1
    <3>1. CASE seen + 1 = Wrap
      <4>1. Wrap % Wrap = 0
        BY <1>w
      <4>. QED  BY <1>w, <2>1, <3>1, <4>1
    <3>2. CASE seen + 1 # Wrap
      <4>1. seen + 1 \in Nat /\ seen + 1 < Wrap
        BY <1>0, <1>w, <3>2
      <4>2. (seen + 1) % Wrap = seen + 1
        BY <1>w, <4>1, ModSmall
      <4>. QED  BY <1>w, <2>1, <4>1, <4>2
    <3>. QED  BY <3>1, <3>2
  <2>5. h = Kmsq!Message(seen' + Wrap - 1)
    <3>0. 1 \in 1 .. Len(mem.queue) /\ seen + 1 - 1 = seen
      BY <1>0, <2>2
    <3>1. h = Kmsq!Message(seen)
      BY <2>2, <2>3, <3>0
    <3>2. seen % Wrap = (seen' + Wrap - 1) % Wrap
      BY <1>0, <1>w, <2>4
    <3>3. seen' + Wrap - 1 \in Nat
      BY <1>w, <2>4
    <3>. QED  BY <1>0, <3>1, <3>2, <3>3, KmsqMessageMod
  <2>6. \A i \in 1 .. Len(q) : q[i] = Kmsq!Message(seen' + i - 1)
    <3>. SUFFICES ASSUME NEW i \in 1 .. Len(q) PROVE q[i] = Kmsq!Message(seen' + i - 1)
      OBVIOUS
    <3>1. i \in Nat /\ i >= 1 /\ i < QueueSize /\ i + 1 \in 1 .. Len(mem.queue)
      BY <1>0, <1>w, <2>2
    <3>2. q[i] = Kmsq!Message(seen + (i + 1) - 1)
      BY <2>2, <2>3, <3>1
    <3>3. (seen + i) % Wrap = (seen' + i - 1) % Wrap /\ seen + (i + 1) - 1 = seen + i
      BY <1>0, <1>w, <2>4, <3>1
    <3>4. seen' + i - 1 \in Nat /\ seen + i \in Nat
      BY <1>0, <2>4, <3>1
    <3>. QED  BY <3>2, <3>3, <3>4, KmsqMessageMod
  <2>7. mem.seq = (seen' + Len(q)) % Wrap
    <3>. DEFINE n == Len(q)
    <3>1. mem.seq = (seen + Len(mem.queue)) % Wrap
      BY DEF KmsqInv
    <3>. HIDE DEF q
    <3>2. n \in Nat /\ n + 1 < Wrap /\ seen + Len(mem.queue) = seen + 1 + n
      <4>. DEFINE m == Len(mem.queue)
      <4>1. m \in Nat /\ m > 0 /\ m <= QueueSize /\ n = m - 1
        BY <1>0, <2>2
      <4>. HIDE DEF m, n
      <4>2. n \in Nat /\ n + 1 < Wrap /\ seen + m = seen + 1 + n
        BY <1>0, <1>w, <4>1
      <4>. QED  BY <4>2 DEF m
    <3>3. Wrap \in Nat \ {0, 1}
      BY <1>w
    <3>. HIDE DEF n
    <3>4. (((seen + 1) % Wrap) + n) % Wrap = (seen + 1 + n) % Wrap
      <4>1. n \in 0 .. Wrap - 1
        BY <3>2, <3>3
      <4>. QED  BY <1>0, <3>3, <4>1, ModAfter
    <3>. QED  BY <2>1, <3>1, <3>2, <3>4 DEF n
  <2>8. Len(q) <= QueueSize
    BY <1>0, <1>w, <2>2
  <2>. HIDE DEF q, h
  <2>9. mem' \in KmsqMem /\ mem'.queue = q /\ mem'.seq = mem.seq /\ mem'.in = h /\ mem'.out = mem.out
    BY <2>1, <2>2 DEF KmsqInv, KmsqMem
  <2>10. PcType' /\ pc'.producer = pc.producer
    BY <1>p, <2>1
  <2>. QED  BY <2>4, <2>5, <2>6, <2>7, <2>8, <2>9, <2>10 DEF KmsqInv
<1>4. CASE Kmsq!Work
  <2>1. UNCHANGED <<mem, seen>> /\ pc' = [pc EXCEPT !.consumer = "get"]
    BY <1>4 DEF Kmsq!Work, Kmsq!Go
  <2>2. PcType' /\ pc'.producer = pc.producer /\ pc'.consumer = "get"
    BY <1>p, <2>1
  <2>. QED  BY <2>1, <2>2 DEF KmsqInv
<1>. QED  BY <1>1, <1>2, <1>3, <1>4 DEF Kmsq!Step

-----------------------------------------------------------------------------
(* package_spinlock                                                          *)

SpinStats == [{"event_count", "sum"} -> 0 .. Wrap - 1]

SpinMem ==
  [lock : {"free", "writer", "reader"}, stats : SpinStats, payload : 0 .. Wrap - 1,
   snapshot : SpinStats]

\* What the reader has taken and not yet logged.
SpinTaken(f) == IF pc.reader = "log" THEN mem.snapshot[f] ELSE 0
\* The event the writer has counted and not yet added up.
SpinAhead(f) == IF f = "event_count" /\ pc.writer = "second" THEN 1 ELSE 0

SpinInv ==
  /\ mem \in SpinMem
  /\ pc \in [writer : {"lock", "first", "second"}, reader : {"lock", "first", "second", "log"}]
  /\ seen \in SpinStats
  /\ mem.lock = "writer" <=> pc.writer # "lock"
  /\ mem.lock = "reader" <=> pc.reader \in {"first", "second"}
  /\ pc.reader = "second" => mem.snapshot = mem.stats
  /\ \A f \in {"event_count", "sum"} :
       (seen[f] + SpinAhead(f)) % Wrap = (mem.stats[f] + SpinTaken(f)) % Wrap

LEMMA SpinFields == DOMAIN Spinlock!Zero = {"event_count", "sum"}
BY DEF Spinlock!Zero

LEMMA SpinPlus ==
  ASSUME NEW a \in SpinStats, NEW b \in SpinStats
  PROVE  /\ Spinlock!Plus(a, b) \in SpinStats
         /\ \A f \in {"event_count", "sum"} : Spinlock!Plus(a, b)[f] = (a[f] + b[f]) % Wrap
<1>1. Wrap \in Nat \ {0}
  BY ProgramAssumptions DEF Kmutex!WrapAssumption
<1>2. \A f \in {"event_count", "sum"} : (a[f] + b[f]) % Wrap \in 0 .. Wrap - 1
  BY <1>1 DEF SpinStats
<1>. QED  BY <1>2, SpinFields DEF Spinlock!Plus, SpinStats

LEMMA SpinMinus ==
  ASSUME NEW a \in SpinStats, NEW b \in SpinStats
  PROVE  /\ Spinlock!Minus(a, b) \in SpinStats
         /\ \A f \in {"event_count", "sum"} : Spinlock!Minus(a, b)[f] = (a[f] + Wrap - b[f]) % Wrap
<1>1. Wrap \in Nat \ {0}
  BY ProgramAssumptions DEF Kmutex!WrapAssumption
<1>2. \A f \in {"event_count", "sum"} : (a[f] + Wrap - b[f]) % Wrap \in 0 .. Wrap - 1
  BY <1>1 DEF SpinStats
<1>. QED  BY <1>2, SpinFields DEF Spinlock!Minus, SpinStats

\* Adding the same to both sides of the balance keeps it, ...
LEMMA SpinAdd ==
  ASSUME NEW w \in Nat \ {0}, NEW a \in 0 .. w - 1, NEW s \in 0 .. w - 1, NEW p \in 0 .. w - 1,
         NEW k \in 0 .. w - 1, a % w = (s + p) % w
  PROVE  ((a + k) % w) % w = (((s + k) % w) + p) % w
<1>1. CASE s + p < w
  BY <1>1
<1>2. CASE s + p >= w
  BY <1>2
<1>. QED  BY <1>1, <1>2

\* ... and what was taken is what the counters lack.
LEMMA SpinLack ==
  ASSUME NEW w \in Nat \ {0}, NEW a \in 0 .. w - 1, NEW s \in 0 .. w - 1, NEW p \in 0 .. w - 1,
         a % w = (s + p) % w
  PROVE  /\ (a + w - s) % w = p
         /\ (a + w - p) % w = s
OBVIOUS

LEMMA SpinInit == Spinlock!Init => SpinInv
<1>1. Wrap \in Nat \ {0} /\ 0 % Wrap = 0 /\ 0 \in 0 .. Wrap - 1
  BY ProgramAssumptions, ModSmall DEF Kmutex!WrapAssumption
<1>2. Spinlock!Zero \in SpinStats /\ \A f \in {"event_count", "sum"} : Spinlock!Zero[f] = 0
  BY <1>1 DEF Spinlock!Zero, SpinStats
<1>. SUFFICES ASSUME Spinlock!Init PROVE SpinInv
  OBVIOUS
<1>3. mem \in SpinMem
  BY <1>1, <1>2, Zenon DEF Spinlock!Init, SpinMem
<1>4. /\ mem.lock = "free" /\ mem.stats = Spinlock!Zero /\ seen = Spinlock!Zero
      /\ pc = [writer |-> "lock", reader |-> "lock"]
  BY DEF Spinlock!Init
<1>. QED  BY <1>1, <1>2, <1>3, <1>4 DEF SpinInv, SpinTaken, SpinAhead

LEMMA SpinNoUpdateLost == SpinInv => Spinlock!NoUpdateLost
<1>. SUFFICES ASSUME SpinInv, mem.lock = "free"
              PROVE  Spinlock!Minus(seen, mem.stats)
                       = (IF pc.reader = "log" THEN mem.snapshot ELSE Spinlock!Zero)
  BY DEF Spinlock!NoUpdateLost
<1>1. Wrap \in Nat \ {0}
  BY ProgramAssumptions DEF Kmutex!WrapAssumption
<1>2. seen \in SpinStats /\ mem.stats \in SpinStats /\ mem.snapshot \in SpinStats
  BY DEF SpinInv, SpinMem
<1>. DEFINE z == IF pc.reader = "log" THEN mem.snapshot ELSE Spinlock!Zero
<1>3. z \in SpinStats /\ \A f \in {"event_count", "sum"} : z[f] = SpinTaken(f)
  <2>1. Spinlock!Zero \in SpinStats /\ \A f \in {"event_count", "sum"} : Spinlock!Zero[f] = 0
    BY <1>1 DEF Spinlock!Zero, SpinStats
  <2>. QED  BY <1>2, <2>1 DEF SpinTaken
<1>4. \A f \in {"event_count", "sum"} : SpinAhead(f) = 0
  BY DEF SpinAhead, SpinInv
<1>. HIDE DEF z
<1>5. \A f \in {"event_count", "sum"} : Spinlock!Minus(seen, mem.stats)[f] = z[f]
  <2>. SUFFICES ASSUME NEW f \in {"event_count", "sum"}
                PROVE  (seen[f] + Wrap - mem.stats[f]) % Wrap = z[f]
    BY <1>2, SpinMinus
  <2>1. seen[f] \in 0 .. Wrap - 1 /\ mem.stats[f] \in 0 .. Wrap - 1 /\ z[f] \in 0 .. Wrap - 1
    BY <1>2, <1>3 DEF SpinStats
  <2>2. (seen[f] + 0) % Wrap = (mem.stats[f] + z[f]) % Wrap
    BY <1>3, <1>4 DEF SpinInv
  <2>3. seen[f] + 0 = seen[f]
    BY <2>1
  <2>. DEFINE a == seen[f]
              s == mem.stats[f]
              p == z[f]
  <2>4. a \in 0 .. Wrap - 1 /\ s \in 0 .. Wrap - 1 /\ p \in 0 .. Wrap - 1 /\ a % Wrap = (s + p) % Wrap
    BY <2>1, <2>2, <2>3
  <2>. HIDE DEF a, s, p
  <2>5. (a + Wrap - s) % Wrap = p
    BY <1>1, <2>4, SpinLack
  <2>. QED  BY <2>5 DEF a, s, p
<1>6. Spinlock!Minus(seen, mem.stats) \in SpinStats
  BY <1>2, SpinMinus
<1>7. Spinlock!Minus(seen, mem.stats) = z
  BY <1>3, <1>5, <1>6 DEF SpinStats
<1>. QED  BY <1>7 DEF z

LEMMA SpinStep ==
  ASSUME SpinInv, NEW t, Spinlock!Step(t)
  PROVE  SpinInv'
<1>w. Wrap \in Nat \ {0, 1} /\ 0 \in 0 .. Wrap - 1 /\ 1 \in 0 .. Wrap - 1
  BY ProgramAssumptions DEF Kmutex!WrapAssumption
<1>. DEFINE F == {"event_count", "sum"}
            PcType == pc \in [writer : {"lock", "first", "second"}, reader : {"lock", "first", "second", "log"}]
<1>0. /\ mem \in SpinMem /\ PcType /\ seen \in SpinStats /\ mem.stats \in SpinStats
      /\ mem.snapshot \in SpinStats /\ mem.payload \in 0 .. Wrap - 1
      /\ mem.lock \in {"free", "writer", "reader"}
  BY DEF SpinInv, SpinMem
<1>b. \A f \in F : (seen[f] + SpinAhead(f)) % Wrap = (mem.stats[f] + SpinTaken(f)) % Wrap
  BY DEF SpinInv
<1>z. Spinlock!Zero \in SpinStats /\ \A f \in F : Spinlock!Zero[f] = 0
  BY <1>w DEF Spinlock!Zero, SpinStats
<1>t. \A f \in F : /\ seen[f] \in 0 .. Wrap - 1 /\ mem.stats[f] \in 0 .. Wrap - 1
                   /\ mem.snapshot[f] \in 0 .. Wrap - 1 /\ SpinTaken(f) \in 0 .. Wrap - 1
                   /\ SpinAhead(f) \in 0 .. 1
  BY <1>0, <1>w DEF SpinStats, SpinTaken, SpinAhead
<1>1. ASSUME NEW p \in {"writer", "reader"}, Spinlock!Lock(p) PROVE SpinInv'
  <2>. DEFINE n == IF p = "writer" THEN (mem.payload + 1) % Wrap ELSE mem.payload
  <2>1. /\ mem' = [mem EXCEPT !.lock = p, !.payload = n] /\ UNCHANGED seen
        /\ mem.lock = "free" /\ pc[p] = "lock" /\ pc' = [pc EXCEPT ![p] = "first"]
    BY <1>1 DEF Spinlock!Lock, Spinlock!Go
  <2>2. n \in 0 .. Wrap - 1
    <3>1. mem.payload + 1 \in Nat
      BY <1>0
    <3>2. (mem.payload + 1) % Wrap \in 0 .. Wrap - 1
      BY <1>w, <3>1, ModRange
    <3>. QED  BY <1>0, <3>2
  <2>3. p \in {"free", "writer", "reader"}
    OBVIOUS
  <2>. HIDE DEF n
  <2>4. mem' \in SpinMem
    BY <1>0, <2>1, <2>2, <2>3, Zenon DEF SpinMem
  <2>5. mem'.lock = p /\ mem'.stats = mem.stats /\ mem'.snapshot = mem.snapshot
    BY <1>0, <2>1 DEF SpinMem
  <2>6. /\ PcType' /\ pc'[p] = "first"
        /\ p = "writer" => pc'.reader = pc.reader
        /\ p = "reader" => pc'.writer = pc.writer /\ pc.reader = "lock"
        /\ p = "writer" => pc.writer = "lock"
    BY <1>0, <2>1
  <2>7. pc.writer = "lock" /\ pc.reader \in {"lock", "log"}
    BY <1>0, <2>1 DEF SpinInv
  <2>8. \A f \in F : SpinTaken(f)' = SpinTaken(f) /\ SpinAhead(f)' = SpinAhead(f)
    BY <2>5, <2>6, <2>7 DEF SpinTaken, SpinAhead
  <2>. QED  BY <1>0, <1>b, <2>1, <2>4, <2>5, <2>6, <2>7, <2>8 DEF SpinInv
<1>2. CASE Spinlock!WriterCount
  <2>. DEFINE n == (mem.stats["event_count"] + 1) % Wrap
              s == [mem.stats EXCEPT !["event_count"] = n]
  <2>1. /\ mem' = [mem EXCEPT !.stats = s] /\ UNCHANGED seen
        /\ pc.writer = "first" /\ pc' = [pc EXCEPT !.writer = "second"]
    BY <1>0, <1>2 DEF Spinlock!WriterCount, Spinlock!Go
  <2>2. n \in 0 .. Wrap - 1
    <3>1. mem.stats["event_count"] + 1 \in Nat
      BY <1>t
    <3>. QED  BY <1>w, <3>1, ModRange
  <2>3. s \in SpinStats /\ s["event_count"] = n /\ s["sum"] = mem.stats["sum"]
    BY <1>0, <2>2 DEF SpinStats
  <2>. HIDE DEF s
  <2>4. mem' \in SpinMem
    BY <1>0, <2>1, <2>3, Zenon DEF SpinMem
  <2>5. mem'.lock = mem.lock /\ mem'.stats = s /\ mem'.snapshot = mem.snapshot
    BY <1>0, <2>1 DEF SpinMem
  <2>6. PcType' /\ pc'.writer = "second" /\ pc'.reader = pc.reader
    BY <1>0, <2>1
  <2>7. mem.lock = "writer" /\ pc.reader \in {"lock", "log"}
    BY <1>0, <2>1 DEF SpinInv
  <2>8. \A f \in F : SpinTaken(f)' = SpinTaken(f)
    BY <2>5, <2>6 DEF SpinTaken
  <2>9. /\ SpinAhead("event_count") = 0 /\ SpinAhead("event_count")' = 1
        /\ SpinAhead("sum") = 0 /\ SpinAhead("sum")' = 0
    BY <2>1, <2>6 DEF SpinAhead
  <2>10. (seen["event_count"] + 1) % Wrap = (n + SpinTaken("event_count")) % Wrap
    <3>. DEFINE a == seen["event_count"]
                c == mem.stats["event_count"]
                p == SpinTaken("event_count")
    <3>1. /\ a \in 0 .. Wrap - 1 /\ c \in 0 .. Wrap - 1 /\ p \in 0 .. Wrap - 1
          /\ (a + 0) % Wrap = (c + p) % Wrap
      BY <1>b, <1>t, <2>9
    <3>2. n = (c + 1) % Wrap
      OBVIOUS
    <3>. HIDE DEF n, a, c, p
    <3>3. a + 0 = a
      BY <3>1
    <3>4. ((a + 1) % Wrap) % Wrap = (((c + 1) % Wrap) + p) % Wrap
      BY <1>w, <3>1, <3>3, SpinAdd
    <3>5. ((a + 1) % Wrap) % Wrap = (a + 1) % Wrap
      BY <1>w, <3>1, ModTwice
    <3>6. (a + 1) % Wrap = (n + p) % Wrap
      BY <3>2, <3>4, <3>5
    <3>. QED  BY <3>6 DEF a, p
  <2>. HIDE DEF n
  <2>11. \A f \in F : (seen[f] + SpinAhead(f)') % Wrap = (s[f] + SpinTaken(f)) % Wrap
    BY <1>b, <2>3, <2>9, <2>10
  <2>. QED  BY <1>0, <2>1, <2>4, <2>5, <2>6, <2>7, <2>8, <2>11 DEF SpinInv
<1>3. CASE Spinlock!WriterSum
  <2>. DEFINE k == [event_count |-> 1, sum |-> mem.payload]
              n == (mem.stats["sum"] + mem.payload) % Wrap
              s == [mem.stats EXCEPT !["sum"] = n]
  <2>1. /\ mem' = [mem EXCEPT !.stats = s, !.lock = "free"] /\ seen' = Spinlock!Plus(seen, k)
        /\ pc.writer = "second" /\ pc' = [pc EXCEPT !.writer = "lock"]
    BY <1>0, <1>3 DEF Spinlock!WriterSum, Spinlock!Go
  <2>k. k \in SpinStats /\ k["event_count"] = 1 /\ k["sum"] = mem.payload
    BY <1>0, <1>w DEF SpinStats
  <2>2. n \in 0 .. Wrap - 1
    <3>1. mem.stats["sum"] + mem.payload \in Nat
      BY <1>0, <1>t
    <3>. QED  BY <1>w, <3>1, ModRange
  <2>3. s \in SpinStats /\ s["sum"] = n /\ s["event_count"] = mem.stats["event_count"]
    BY <1>0, <2>2 DEF SpinStats
  <2>. HIDE DEF s, k
  <2>4. mem' \in SpinMem
    <3>1. "free" \in {"free", "writer", "reader"}
      OBVIOUS
    <3>. QED  BY <1>0, <2>1, <2>3, <3>1, Zenon DEF SpinMem
  <2>5. mem'.lock = "free" /\ mem'.stats = s /\ mem'.snapshot = mem.snapshot
    BY <1>0, <2>1 DEF SpinMem
  <2>6. PcType' /\ pc'.writer = "lock" /\ pc'.reader = pc.reader
    BY <1>0, <2>1
  <2>7. mem.lock = "writer" /\ pc.reader \in {"lock", "log"}
    BY <1>0, <2>1 DEF SpinInv
  <2>8. \A f \in F : SpinTaken(f)' = SpinTaken(f)
    BY <2>5, <2>6 DEF SpinTaken
  <2>9. /\ SpinAhead("event_count") = 1 /\ SpinAhead("event_count")' = 0
        /\ SpinAhead("sum") = 0 /\ SpinAhead("sum")' = 0
    BY <2>1, <2>6 DEF SpinAhead
  <2>s. /\ seen' \in SpinStats /\ seen'["event_count"] = (seen["event_count"] + 1) % Wrap
        /\ seen'["sum"] = (seen["sum"] + mem.payload) % Wrap
    BY <1>0, <2>1, <2>k, SpinPlus
  <2>10. seen'["sum"] % Wrap = (n + SpinTaken("sum")) % Wrap
    <3>. DEFINE a == seen["sum"]
                c == mem.stats["sum"]
                p == SpinTaken("sum")
                x == mem.payload
    <3>1. /\ a \in 0 .. Wrap - 1 /\ c \in 0 .. Wrap - 1 /\ p \in 0 .. Wrap - 1 /\ x \in 0 .. Wrap - 1
          /\ (a + 0) % Wrap = (c + p) % Wrap
      BY <1>0, <1>b, <1>t, <2>9
    <3>2. n = (c + x) % Wrap /\ seen'["sum"] = (a + x) % Wrap
      BY <2>s
    <3>. HIDE DEF n, a, c, p, x
    <3>3. a + 0 = a
      BY <3>1
    <3>4. ((a + x) % Wrap) % Wrap = (((c + x) % Wrap) + p) % Wrap
      BY <1>w, <3>1, <3>3, SpinAdd
    <3>5. seen'["sum"] % Wrap = (n + p) % Wrap
      BY <3>2, <3>4
    <3>. QED  BY <3>5 DEF p
  <2>11. seen'["event_count"] % Wrap = (mem.stats["event_count"] + SpinTaken("event_count")) % Wrap
    <3>. DEFINE a == seen["event_count"]
    <3>1. a \in 0 .. Wrap - 1 /\ (a + 1) % Wrap = (mem.stats["event_count"] + SpinTaken("event_count")) % Wrap
      BY <1>b, <1>t, <2>9
    <3>2. seen'["event_count"] = (a + 1) % Wrap
      BY <2>s
    <3>. HIDE DEF a
    <3>3. ((a + 1) % Wrap) % Wrap = (a + 1) % Wrap
      BY <1>w, <3>1, ModTwice
    <3>. QED  BY <3>1, <3>2, <3>3
  <2>. HIDE DEF n
  <2>12. \A f \in F : seen'[f] \in 0 .. Wrap - 1 /\ seen'[f] + 0 = seen'[f]
    BY <1>w, <2>s DEF SpinStats
  <2>13. \A f \in F : (seen'[f] + SpinAhead(f)') % Wrap = (s[f] + SpinTaken(f)) % Wrap
    BY <2>3, <2>9, <2>10, <2>11, <2>12
  <2>. QED  BY <1>0, <2>1, <2>s, <2>4, <2>5, <2>6, <2>7, <2>8, <2>13 DEF SpinInv
<1>4. CASE Spinlock!ReaderCopy
  <2>. DEFINE s == mem.stats
  <2>1. /\ mem' = [mem EXCEPT !.snapshot = s] /\ UNCHANGED seen
        /\ pc.reader = "first" /\ pc' = [pc EXCEPT !.reader = "second"]
    BY <1>4 DEF Spinlock!ReaderCopy, Spinlock!Go
  <2>2. s \in SpinStats
    BY <1>0
  <2>. HIDE DEF s
  <2>3. mem' \in SpinMem
    BY <1>0, <2>1, <2>2, Zenon DEF SpinMem
  <2>4. mem'.lock = mem.lock /\ mem'.stats = mem.stats /\ mem'.snapshot = s
    BY <1>0, <2>1 DEF SpinMem
  <2>5. PcType' /\ pc'.reader = "second" /\ pc'.writer = pc.writer
    BY <1>0, <2>1
  <2>6. \A f \in F : SpinTaken(f)' = SpinTaken(f) /\ SpinAhead(f)' = SpinAhead(f)
    BY <2>1, <2>5 DEF SpinTaken, SpinAhead
  <2>. QED  BY <1>0, <1>b, <2>1, <2>3, <2>4, <2>5, <2>6 DEF SpinInv, s
<1>5. CASE Spinlock!ReaderReset
  <2>. DEFINE z == Spinlock!Zero
  <2>1. /\ mem' = [mem EXCEPT !.stats = z, !.lock = "free"] /\ UNCHANGED seen
        /\ pc.reader = "second" /\ pc' = [pc EXCEPT !.reader = "log"]
    BY <1>5 DEF Spinlock!ReaderReset, Spinlock!Go
  <2>. HIDE DEF z
  <2>2. mem' \in SpinMem
    <3>1. "free" \in {"free", "writer", "reader"} /\ z \in SpinStats
      BY <1>z DEF z
    <3>. QED  BY <1>0, <2>1, <3>1, Zenon DEF SpinMem
  <2>3. mem'.lock = "free" /\ mem'.stats = z /\ mem'.snapshot = mem.snapshot
    BY <1>0, <2>1 DEF SpinMem
  <2>4. PcType' /\ pc'.reader = "log" /\ pc'.writer = pc.writer
    BY <1>0, <2>1
  <2>5. mem.lock = "reader" /\ pc.writer = "lock" /\ mem.snapshot = mem.stats
    BY <1>0, <2>1 DEF SpinInv
  <2>6. \A f \in F : /\ SpinTaken(f) = 0 /\ SpinTaken(f)' = mem.stats[f]
                     /\ SpinAhead(f)' = SpinAhead(f)
    BY <2>1, <2>3, <2>4, <2>5 DEF SpinTaken, SpinAhead
  <2>7. \A f \in F : z[f] + SpinTaken(f)' = mem.stats[f] + SpinTaken(f)
    BY <1>t, <1>z, <2>6 DEF z
  <2>8. \A f \in F : (seen[f] + SpinAhead(f)') % Wrap = (z[f] + SpinTaken(f)') % Wrap
    BY <1>b, <2>6, <2>7
  <2>. QED  BY <1>0, <2>1, <2>2, <2>3, <2>4, <2>5, <2>8 DEF SpinInv
<1>6. CASE Spinlock!ReaderLog
  <2>. DEFINE z == Spinlock!Zero
  <2>1. /\ mem' = [mem EXCEPT !.snapshot = z] /\ seen' = Spinlock!Minus(seen, mem.snapshot)
        /\ pc.reader = "log" /\ pc' = [pc EXCEPT !.reader = "lock"] /\ mem.lock = "free"
    BY <1>6 DEF Spinlock!ReaderLog, Spinlock!Go
  <2>. HIDE DEF z
  <2>2. mem' \in SpinMem
    <3>1. z \in SpinStats
      BY <1>z DEF z
    <3>. QED  BY <1>0, <2>1, <3>1, Zenon DEF SpinMem
  <2>3. mem'.lock = mem.lock /\ mem'.stats = mem.stats /\ mem'.snapshot = z
    BY <1>0, <2>1 DEF SpinMem
  <2>4. PcType' /\ pc'.reader = "lock" /\ pc'.writer = pc.writer
    BY <1>0, <2>1
  <2>5. pc.writer = "lock"
    BY <1>0, <2>1 DEF SpinInv
  <2>6. \A f \in F : /\ SpinTaken(f) = mem.snapshot[f] /\ SpinTaken(f)' = 0
                     /\ SpinAhead(f) = 0 /\ SpinAhead(f)' = 0
    BY <2>1, <2>4, <2>5 DEF SpinTaken, SpinAhead
  <2>7. /\ seen' \in SpinStats
        /\ \A f \in F : seen'[f] = (seen[f] + Wrap - mem.snapshot[f]) % Wrap
    BY <1>0, <2>1, SpinMinus
  <2>8. \A f \in F : (seen'[f] + SpinAhead(f)') % Wrap = (mem.stats[f] + SpinTaken(f)') % Wrap
    <3>. SUFFICES ASSUME NEW f \in F
                  PROVE  (seen'[f] + SpinAhead(f)') % Wrap = (mem.stats[f] + SpinTaken(f)') % Wrap
      OBVIOUS
    <3>. DEFINE a == seen[f]
                s == mem.stats[f]
                p == mem.snapshot[f]
    <3>1. a \in 0 .. Wrap - 1 /\ s \in 0 .. Wrap - 1 /\ p \in 0 .. Wrap - 1 /\ (a + 0) % Wrap = (s + p) % Wrap
      BY <1>b, <1>t, <2>6
    <3>2. seen'[f] = (a + Wrap - p) % Wrap
      BY <2>7
    <3>. HIDE DEF a, s, p
    <3>3. a + 0 = a
      BY <3>1
    <3>4. (a + Wrap - p) % Wrap = s
      <4>1. a % Wrap = (s + p) % Wrap
        BY <3>1, <3>3
      <4>. QED  BY <1>w, <3>1, <4>1, SpinLack
    <3>. QED  BY <2>6, <3>2, <3>4, <1>t DEF s
  <2>. QED  BY <1>0, <2>1, <2>2, <2>3, <2>4, <2>5, <2>7, <2>8 DEF SpinInv
<1>7. CASE Spinlock!TimerExpiry
  <2>. DEFINE k == [event_count |-> 1, sum |-> 1]
              s == Spinlock!Plus(mem.stats, k)
  <2>1. /\ mem' = [mem EXCEPT !.stats = s] /\ seen' = Spinlock!Plus(seen, k)
        /\ UNCHANGED pc /\ mem.lock = "free"
    BY <1>7 DEF Spinlock!TimerExpiry
  <2>k. k \in SpinStats /\ \A f \in F : k[f] = 1
    BY <1>w DEF SpinStats
  <2>. HIDE DEF k
  <2>2. /\ s \in SpinStats /\ \A f \in F : s[f] = (mem.stats[f] + 1) % Wrap
        /\ seen' \in SpinStats /\ \A f \in F : seen'[f] = (seen[f] + 1) % Wrap
    BY <1>0, <2>1, <2>k, SpinPlus
  <2>. HIDE DEF s
  <2>3. mem' \in SpinMem
    BY <1>0, <2>1, <2>2, Zenon DEF SpinMem
  <2>4. mem'.lock = mem.lock /\ mem'.stats = s /\ mem'.snapshot = mem.snapshot
    BY <1>0, <2>1 DEF SpinMem
  <2>5. pc.writer = "lock" /\ pc.reader \in {"lock", "log"}
    BY <1>0, <2>1 DEF SpinInv
  <2>6. \A f \in F : /\ SpinTaken(f)' = SpinTaken(f)
                     /\ SpinAhead(f) = 0 /\ SpinAhead(f)' = 0
    BY <2>1, <2>4, <2>5 DEF SpinTaken, SpinAhead
  <2>7. \A f \in F : (seen'[f] + SpinAhead(f)') % Wrap = (s[f] + SpinTaken(f)') % Wrap
    <3>. SUFFICES ASSUME NEW f \in F
                  PROVE  (seen'[f] + SpinAhead(f)') % Wrap = (s[f] + SpinTaken(f)') % Wrap
      OBVIOUS
    <3>. DEFINE a == seen[f]
                c == mem.stats[f]
                p == SpinTaken(f)
    <3>1. a \in 0 .. Wrap - 1 /\ c \in 0 .. Wrap - 1 /\ p \in 0 .. Wrap - 1 /\ (a + 0) % Wrap = (c + p) % Wrap
      BY <1>b, <1>t, <2>6
    <3>2. seen'[f] = (a + 1) % Wrap /\ s[f] = (c + 1) % Wrap
      BY <2>2
    <3>. HIDE DEF a, c, p
    <3>3. a + 0 = a /\ (a + 1) % Wrap \in 0 .. Wrap - 1
      <4>1. a + 1 \in Nat
        BY <3>1
      <4>. QED  BY <1>w, <3>1, <4>1, ModRange
    <3>4. ((a + 1) % Wrap) % Wrap = (((c + 1) % Wrap) + p) % Wrap
      BY <1>w, <3>1, <3>3, SpinAdd
    <3>5. seen'[f] % Wrap = (s[f] + p) % Wrap /\ seen'[f] + 0 = seen'[f]
      BY <3>2, <3>3, <3>4
    <3>. QED  BY <2>6, <3>5 DEF p
  <2>8. mem'.lock = "free" /\ pc'.writer = pc.writer /\ pc'.reader = pc.reader
    BY <2>1, <2>4
  <2>. QED  BY <1>0, <2>1, <2>2, <2>3, <2>4, <2>5, <2>7, <2>8 DEF SpinInv
<1>. QED  BY <1>1, <1>2, <1>3, <1>4, <1>5, <1>6, <1>7 DEF Spinlock!Step

-----------------------------------------------------------------------------
(* package_sys_monitor                                                       *)

MonitorStats == [{"total_cycles", "execution_cycles"} -> 0 .. CycleWrap - 1]

MonitorMem == [stats : MonitorStats, prev : MonitorStats, now : MonitorStats, pct : 0 .. 100]

\* The time from a to b.
Since(b, a, f) == (b[f] + CycleWrap - a[f]) % CycleWrap

\* Windows are short: what was read and what came after make up what is left.
MonitorInv ==
  /\ mem \in MonitorMem
  /\ pc \in [monitor : {"get", "compute"}]
  /\ seen = mem.prev
  /\ Since(mem.stats, mem.prev, "total_cycles") <= Since(mem.stats, mem.prev, "execution_cycles")
  /\ pc.monitor = "compute" =>
       /\ \A f \in {"total_cycles", "execution_cycles"} :
            Since(mem.now, mem.prev, f) + Since(mem.stats, mem.now, f) = Since(mem.stats, mem.prev, f)
       /\ Since(mem.now, mem.prev, "total_cycles") <= Since(mem.now, mem.prev, "execution_cycles")
       /\ Since(mem.stats, mem.now, "total_cycles") <= Since(mem.stats, mem.now, "execution_cycles")

LEMMA MonitorFields == DOMAIN Monitor!Zero = {"total_cycles", "execution_cycles"}
BY DEF Monitor!Zero

LEMMA MonitorWrap == CycleWrap \in Nat \ {0, 1, 2}
BY ProgramAssumptions DEF Monitor!WrapAssumption

LEMMA MonitorPlus ==
  ASSUME NEW a \in MonitorStats, NEW b \in MonitorStats
  PROVE  /\ Monitor!Plus(a, b) \in MonitorStats
         /\ \A f \in {"total_cycles", "execution_cycles"} : Monitor!Plus(a, b)[f] = (a[f] + b[f]) % CycleWrap
<1>1. \A f \in {"total_cycles", "execution_cycles"} : (a[f] + b[f]) % CycleWrap \in 0 .. CycleWrap - 1
  BY MonitorWrap DEF MonitorStats
<1>. QED  BY <1>1, MonitorFields DEF Monitor!Plus, MonitorStats

LEMMA MonitorMinus ==
  ASSUME NEW a \in MonitorStats, NEW b \in MonitorStats
  PROVE  /\ Monitor!Minus(a, b) \in MonitorStats
         /\ \A f \in {"total_cycles", "execution_cycles"} :
              /\ Monitor!Minus(a, b)[f] = Since(a, b, f)
              /\ Since(a, b, f) \in 0 .. CycleWrap - 1
<1>1. \A f \in {"total_cycles", "execution_cycles"} : (a[f] + CycleWrap - b[f]) % CycleWrap \in 0 .. CycleWrap - 1
  BY MonitorWrap DEF MonitorStats
<1>. QED  BY <1>1, MonitorFields DEF Monitor!Minus, MonitorStats, Since

\* A window that does not reach the size of the counter grows by what runs, ...
LEMMA SinceGrows ==
  ASSUME NEW w \in Nat \ {0, 1, 2}, NEW b \in 0 .. w - 1, NEW a \in 0 .. w - 1, NEW k \in 0 .. 1,
         ((b + w - a) % w) + k < w
  PROVE  (((b + k) % w) + w - a) % w = ((b + w - a) % w) + k
<1>1. CASE b >= a /\ b + k < w
  BY <1>1
<1>2. CASE b >= a /\ b + k = w
  BY <1>2
<1>3. CASE b < a
  <2>1. (b + w - a) % w = b + w - a /\ b + k < w /\ (b + k) % w = b + k
    BY <1>3
  <2>2. b + k < a
    BY <1>3, <2>1
  <2>. QED  BY <1>3, <2>1, <2>2
<1>. QED  BY <1>1, <1>2, <1>3

\* ... nothing has run since now, ...
LEMMA SinceNow == ASSUME NEW w \in Nat \ {0, 1, 2}, NEW b \in 0 .. w - 1 PROVE (b + w - b) % w = 0
OBVIOUS

\* ... and adding a window to where it began gives its end.
LEMMA SinceAdds ==
  ASSUME NEW w \in Nat \ {0, 1, 2}, NEW b \in 0 .. w - 1, NEW a \in 0 .. w - 1
  PROVE  (a + ((b + w - a) % w)) % w = b
<1>1. CASE b >= a
  BY <1>1
<1>2. CASE b < a
  BY <1>2
<1>. QED  BY <1>1, <1>2

LEMMA PercentRange ==
  ASSUME NEW a \in Nat, NEW b \in Nat \ {0}, a <= b
  PROVE  (a * 100) \div b \in 0 .. 100
OBVIOUS

LEMMA MonitorInit == Monitor!Init => MonitorInv
<1>. SUFFICES ASSUME Monitor!Init PROVE MonitorInv
  OBVIOUS
<1>w. 0 \in 0 .. CycleWrap - 1 /\ 0 \in 0 .. 100
  BY MonitorWrap
<1>1. Monitor!Zero \in MonitorStats /\ \A f \in {"total_cycles", "execution_cycles"} : Monitor!Zero[f] = 0
  BY <1>w DEF Monitor!Zero, MonitorStats
<1>2. /\ mem.stats = Monitor!Zero /\ mem.prev = Monitor!Zero /\ seen = Monitor!Zero
      /\ pc = [monitor |-> "get"]
  BY DEF Monitor!Init
<1>3. mem \in MonitorMem
  BY <1>w, <1>1, Zenon DEF Monitor!Init, MonitorMem
<1>4. Since(mem.stats, mem.prev, "total_cycles") <= Since(mem.stats, mem.prev, "execution_cycles")
  BY <1>1, <1>2, MonitorWrap DEF Since
<1>. QED  BY <1>2, <1>3, <1>4 DEF MonitorInv

LEMMA MonitorNoUpdateLost == MonitorInv => Monitor!NoUpdateLost /\ Monitor!TypeOK
<1>. SUFFICES ASSUME MonitorInv PROVE Monitor!NoUpdateLost /\ Monitor!TypeOK
  OBVIOUS
<1>1. mem.stats \in MonitorStats /\ mem.prev \in MonitorStats /\ mem.now \in MonitorStats /\ mem.pct \in 0 .. 100
  BY DEF MonitorInv, MonitorMem
<1>2. Monitor!NoUpdateLost
  <2>. DEFINE left == Monitor!Minus(mem.stats, mem.prev)
  <2>1. /\ left["total_cycles"] = Since(mem.stats, mem.prev, "total_cycles")
        /\ left["execution_cycles"] = Since(mem.stats, mem.prev, "execution_cycles")
    BY <1>1, MonitorMinus
  <2>. HIDE DEF left
  <2>2. left.total_cycles <= left.execution_cycles
    BY <2>1 DEF MonitorInv
  <2>. QED  BY <2>2 DEF Monitor!NoUpdateLost, MonitorInv, left
<1>3. Monitor!TypeOK
  BY <1>1, MonitorFields DEF Monitor!TypeOK, MonitorStats, MonitorInv
<1>. QED  BY <1>2, <1>3

LEMMA MonitorStep ==
  ASSUME MonitorInv, NEW t, Monitor!Step(t)
  PROVE  MonitorInv'
<1>. DEFINE F == {"total_cycles", "execution_cycles"}
            T == "total_cycles"
            E == "execution_cycles"
<1>0. /\ mem \in MonitorMem /\ mem.stats \in MonitorStats /\ mem.prev \in MonitorStats
      /\ mem.now \in MonitorStats /\ pc \in [monitor : {"get", "compute"}]
  BY DEF MonitorInv, MonitorMem
<1>z. Monitor!Zero \in MonitorStats
  BY MonitorWrap DEF Monitor!Zero, MonitorStats
<1>s. \A f \in F : /\ Since(mem.stats, mem.prev, f) \in 0 .. CycleWrap - 1
                   /\ Since(mem.now, mem.prev, f) \in 0 .. CycleWrap - 1
                   /\ Since(mem.stats, mem.now, f) \in 0 .. CycleWrap - 1
  BY <1>0, MonitorMinus
<1>1. CASE Monitor!RunCycle
  <2>1. PICK busy \in 0 .. 1 :
          /\ Monitor!Minus(mem.stats, mem.prev).execution_cycles < CycleWrap - 1
          /\ mem' = [mem EXCEPT !.stats = Monitor!Plus(@, [total_cycles |-> busy, execution_cycles |-> 1])]
          /\ UNCHANGED <<pc, seen>>
    BY <1>1 DEF Monitor!RunCycle
  <2>. DEFINE k == [total_cycles |-> busy, execution_cycles |-> 1]
              s == Monitor!Plus(mem.stats, k)
  <2>2. mem' = [mem EXCEPT !.stats = s]
    BY <2>1
  <2>3. k \in MonitorStats /\ k[T] = busy /\ k[E] = 1 /\ \A f \in F : k[f] \in 0 .. 1
    BY MonitorWrap DEF MonitorStats
  <2>. HIDE DEF k
  <2>4. s \in MonitorStats /\ \A f \in F : s[f] = (mem.stats[f] + k[f]) % CycleWrap
    BY <1>0, <2>3, MonitorPlus
  <2>. HIDE DEF s
  <2>5. mem' \in MonitorMem
    BY <1>0, <2>2, <2>4, Zenon DEF MonitorMem
  <2>6. mem'.stats = s /\ mem'.prev = mem.prev /\ mem'.now = mem.now
    BY <1>0, <2>2 DEF MonitorMem
  <2>7. Since(mem.stats, mem.prev, E) < CycleWrap - 1
    BY <1>0, <2>1, MonitorMinus
  <2>8. Since(mem.stats, mem.prev, T) <= Since(mem.stats, mem.prev, E)
    BY DEF MonitorInv
  <2>9. ASSUME NEW a \in MonitorStats, NEW f \in F, Since(mem.stats, a, f) + k[f] < CycleWrap
        PROVE  Since(s, a, f) = Since(mem.stats, a, f) + k[f]
    <3>. DEFINE x == mem.stats[f]
                y == a[f]
                j == k[f]
    <3>1. /\ x \in 0 .. CycleWrap - 1 /\ y \in 0 .. CycleWrap - 1 /\ j \in 0 .. 1
          /\ ((x + CycleWrap - y) % CycleWrap) + j < CycleWrap
      BY <1>0, <2>3, <2>9 DEF MonitorStats, Since
    <3>2. s[f] = (x + j) % CycleWrap
      BY <2>4
    <3>. HIDE DEF x, y, j
    <3>3. (((x + j) % CycleWrap) + CycleWrap - y) % CycleWrap = ((x + CycleWrap - y) % CycleWrap) + j
      BY <3>1, MonitorWrap, SinceGrows
    <3>. QED  BY <3>2, <3>3 DEF Since, x, y, j
  <2>10. \A f \in F : Since(mem.stats, mem.prev, f) + k[f] < CycleWrap
    BY <1>s, <2>3, <2>7, <2>8, MonitorWrap
  <2>11. \A f \in F : Since(s, mem.prev, f) = Since(mem.stats, mem.prev, f) + k[f]
    BY <1>0, <2>9, <2>10
  <2>12. Since(s, mem.prev, T) <= Since(s, mem.prev, E)
    BY <1>s, <2>3, <2>8, <2>11
  <2>13. ASSUME pc.monitor = "compute"
         PROVE  /\ \A f \in F : Since(mem.now, mem.prev, f) + Since(s, mem.now, f) = Since(s, mem.prev, f)
                /\ Since(s, mem.now, T) <= Since(s, mem.now, E)
    <3>1. /\ \A f \in F : Since(mem.now, mem.prev, f) + Since(mem.stats, mem.now, f) = Since(mem.stats, mem.prev, f)
          /\ Since(mem.stats, mem.now, T) <= Since(mem.stats, mem.now, E)
      BY <2>13 DEF MonitorInv
    <3>2. \A f \in F : Since(mem.stats, mem.now, f) + k[f] < CycleWrap
      BY <1>s, <2>3, <2>10, <3>1, MonitorWrap
    <3>3. \A f \in F : Since(s, mem.now, f) = Since(mem.stats, mem.now, f) + k[f]
      BY <1>0, <2>9, <3>2
    <3>. QED  BY <1>s, <2>3, <2>11, <3>1, <3>3
  <2>. QED  BY <2>1, <2>5, <2>6, <2>12, <2>13 DEF MonitorInv
<1>2. CASE Monitor!Get
  <2>1. CASE pc.monitor = "get" /\ pc' = [pc EXCEPT !.monitor = "compute"]
             /\ mem' = [mem EXCEPT !.now = mem.stats] /\ UNCHANGED seen
    <3>1. /\ mem' \in MonitorMem /\ mem'.stats = mem.stats /\ mem'.prev = mem.prev /\ mem'.now = mem.stats
          /\ pc' \in [monitor : {"get", "compute"}]
      BY <1>0, <2>1 DEF MonitorMem
    <3>2. \A f \in F : Since(mem.stats, mem.stats, f) = 0
      <4>1. \A f \in F : mem.stats[f] \in 0 .. CycleWrap - 1
        BY <1>0 DEF MonitorStats
      <4>. QED  BY <4>1, MonitorWrap, SinceNow DEF Since
    <3>3. \A f \in F : Since(mem.stats, mem.prev, f) + Since(mem.stats, mem.stats, f) = Since(mem.stats, mem.prev, f)
      BY <1>s, <3>2
    <3>4. Since(mem.stats, mem.prev, T) <= Since(mem.stats, mem.prev, E)
          /\ Since(mem.stats, mem.stats, T) <= Since(mem.stats, mem.stats, E)
      BY <3>2 DEF MonitorInv
    <3>5. seen' = mem'.prev
      BY <2>1, <3>1 DEF MonitorInv
    <3>. QED  BY <3>1, <3>3, <3>4, <3>5 DEF MonitorInv
  <2>2. CASE pc.monitor = "get" /\ pc' = [pc EXCEPT !.monitor = "get"]
             /\ mem' = [mem EXCEPT !.pct = 0] /\ UNCHANGED seen
    <3>0. 0 \in 0 .. 100
      OBVIOUS
    <3>1. mem' \in MonitorMem
      BY <1>0, <2>2, <3>0, Zenon DEF MonitorMem
    <3>2. mem'.stats = mem.stats /\ mem'.prev = mem.prev /\ mem'.now = mem.now /\ pc' = pc
      BY <1>0, <2>2 DEF MonitorMem
    <3>. QED  BY <2>2, <3>1, <3>2 DEF MonitorInv
  <2>. QED  BY <1>2, <2>1, <2>2 DEF Monitor!Get, Monitor!Go
<1>3. CASE Monitor!Compute
  <2>. DEFINE d == Monitor!Minus(mem.now, mem.prev)
              p == Monitor!Percent(d)
              z == Monitor!Zero
  <2>1. /\ pc.monitor = "compute" /\ pc' = [pc EXCEPT !.monitor = "get"]
        /\ mem' = [mem EXCEPT !.pct = p, !.prev = mem.now, !.now = z]
        /\ seen' = Monitor!Plus(seen, d)
    BY <1>3 DEF Monitor!Compute, Monitor!Go
  <2>2. /\ d \in MonitorStats
        /\ \A f \in F : d[f] = Since(mem.now, mem.prev, f)
    BY <1>0, MonitorMinus
  <2>3. d[T] <= d[E] /\ d[T] \in Nat /\ d[E] \in Nat
    BY <1>s, <2>1, <2>2 DEF MonitorInv
  <2>. HIDE DEF d
  <2>4. p \in 0 .. 100
    <3>. DEFINE x == d[T]
                y == d[E]
    <3>1. p = IF y > 0 THEN (x * 100) \div y ELSE 0
      BY DEF Monitor!Percent
    <3>2. x \in Nat /\ y \in Nat /\ x <= y
      BY <2>3
    <3>. HIDE DEF x, y, p
    <3>3. CASE y > 0
      BY <3>1, <3>2, <3>3, PercentRange
    <3>4. CASE ~(y > 0)
      BY <3>1, <3>4
    <3>. QED  BY <3>3, <3>4
  <2>5. seen' = mem.now
    <3>1. seen \in MonitorStats /\ seen = mem.prev
      BY <1>0 DEF MonitorInv
    <3>2. seen' \in MonitorStats /\ \A f \in F : seen'[f] = (mem.prev[f] + d[f]) % CycleWrap
      BY <2>1, <2>2, <3>1, MonitorPlus
    <3>3. ASSUME NEW f \in F PROVE seen'[f] = mem.now[f]
      <4>. DEFINE a == mem.prev[f]
                  b == mem.now[f]
      <4>1. a \in 0 .. CycleWrap - 1 /\ b \in 0 .. CycleWrap - 1
        BY <1>0 DEF MonitorStats
      <4>2. seen'[f] = (a + ((b + CycleWrap - a) % CycleWrap)) % CycleWrap
        BY <2>2, <3>2 DEF Since
      <4>. HIDE DEF a, b
      <4>3. (a + ((b + CycleWrap - a) % CycleWrap)) % CycleWrap = b
        BY <4>1, MonitorWrap, SinceAdds
      <4>. QED  BY <4>2, <4>3 DEF b
    <3>. QED  BY <1>0, <3>2, <3>3 DEF MonitorStats
  <2>. HIDE DEF p, z
  <2>6. mem' \in MonitorMem
    <3>1. z \in MonitorStats
      BY <1>z DEF z
    <3>. QED  BY <1>0, <2>1, <2>4, <3>1, Zenon DEF MonitorMem
  <2>7. mem'.stats = mem.stats /\ mem'.prev = mem.now
    BY <1>0, <2>1 DEF MonitorMem
  <2>8. Since(mem.stats, mem.now, T) <= Since(mem.stats, mem.now, E)
    BY <2>1 DEF MonitorInv
  <2>9. pc' \in [monitor : {"get", "compute"}] /\ pc'.monitor = "get"
    BY <1>0, <2>1
  <2>. QED  BY <2>5, <2>6, <2>7, <2>8, <2>9 DEF MonitorInv
<1>. QED  BY <1>1, <1>2, <1>3 DEF Monitor!Step

-----------------------------------------------------------------------------
(* pipe_bender_ui                                                            *)

PipeBenderMem ==
  [target : 0 .. MaxAngle, live : 0 .. MaxAngle, dir : {-1, 1},
   label : [tgt : Int, tgt_bold : Int, live : Int, live_bold : Int]]

PipeBenderInv ==
  /\ mem \in PipeBenderMem
  /\ PipeBender!NoUpdateLost

LEMMA PipeBenderAngles ==
  /\ MaxAngle \in Nat \ {0} /\ ClickStep \in Nat \ {0} /\ SweepStep \in Nat \ {0}
  /\ ClickStep < MaxAngle
BY ProgramAssumptions DEF PipeBender!AngleAssumption

\* A step of the buttons stays below the end of the scale.
LEMMA PipeBenderStepped ==
  ASSUME mem.target \in 0 .. MaxAngle, NEW delta \in {ClickStep, -ClickStep}
  PROVE  PipeBender!Stepped(delta) \in 0 .. MaxAngle - 1
<1>. DEFINE a == mem.target + delta
            angle == PipeBender!FMod(a, MaxAngle)
<1>1. a \in Int /\ a > -MaxAngle /\ a < MaxAngle + MaxAngle
  BY PipeBenderAngles
<1>. HIDE DEF a
<1>2. CASE a >= 0
  <2>1. angle = a % MaxAngle
    BY <1>2 DEF PipeBender!FMod
  <2>2. a \in Nat
    BY <1>1, <1>2
  <2>3. angle \in 0 .. MaxAngle - 1
    BY <2>1, <2>2, ModRange, PipeBenderAngles
  <2>. HIDE DEF angle
  <2>4. ~(angle < 0)
    BY <2>3
  <2>. QED  BY <2>3, <2>4 DEF PipeBender!Stepped, a, angle
<1>3. CASE a < 0
  <2>1. angle = -((-a) % MaxAngle)
    BY <1>1, <1>3 DEF PipeBender!FMod
  <2>2. (-a) % MaxAngle = -a
    BY <1>1, <1>3, PipeBenderAngles
  <2>3. angle = a
    BY <1>1, <2>1, <2>2
  <2>. HIDE DEF angle
  <2>4. angle < 0 /\ angle + MaxAngle \in 0 .. MaxAngle - 1
    BY <1>1, <1>3, <2>3, PipeBenderAngles
  <2>. QED  BY <2>4 DEF PipeBender!Stepped, a, angle
<1>. QED  BY <1>1, <1>2, <1>3

LEMMA PipeBenderInit == PipeBender!Init => PipeBenderInv
BY PipeBenderAngles DEF PipeBender!Init, PipeBenderInv, PipeBenderMem, PipeBender!NoUpdateLost, PipeBender!Labels

LEMMA PipeBenderStep ==
  ASSUME PipeBenderInv, NEW t, PipeBender!Step(t)
  PROVE  PipeBenderInv'
<1>0. mem \in PipeBenderMem /\ mem.target \in 0 .. MaxAngle /\ mem.live \in 0 .. MaxAngle /\ mem.dir \in {-1, 1}
  BY DEF PipeBenderInv, PipeBenderMem
<1>1. CASE PipeBender!Click
  <2>1. PICK delta \in {ClickStep, -ClickStep} :
          mem' = [mem EXCEPT !.target = PipeBender!Stepped(delta),
                             !.label.tgt = PipeBender!Stepped(delta),
                             !.label.tgt_bold = PipeBender!Stepped(delta)]
    BY <1>1 DEF PipeBender!Click
  <2>. DEFINE a == PipeBender!Stepped(delta)
  <2>2. a \in 0 .. MaxAngle /\ a # MaxAngle /\ a \in Int
    BY <1>0, PipeBenderStepped, PipeBenderAngles
  <2>. HIDE DEF a
  <2>3. mem.label = [tgt |-> mem.target, tgt_bold |-> mem.target, live |-> mem.live, live_bold |-> mem.live]
    BY DEF PipeBenderInv, PipeBender!NoUpdateLost, PipeBender!Labels
  <2>4. mem' = [mem EXCEPT !.target = a, !.label = PipeBender!Labels(a, mem.live)]
    <3>. DEFINE one == [mem.label EXCEPT !.tgt = a]
                two == [one EXCEPT !.tgt_bold = a]
    <3>1. two = PipeBender!Labels(a, mem.live)
      <4>1. one = [tgt |-> a, tgt_bold |-> mem.target, live |-> mem.live, live_bold |-> mem.live]
        BY <2>3
      <4>. HIDE DEF one
      <4>2. two = [tgt |-> a, tgt_bold |-> a, live |-> mem.live, live_bold |-> mem.live]
        BY <4>1
      <4>. QED  BY <4>2 DEF PipeBender!Labels
    <3>2. mem' = [[[mem EXCEPT !.target = a] EXCEPT !.label.tgt = a] EXCEPT !.label.tgt_bold = a]
      BY <2>1 DEF a
    <3>3. [[mem EXCEPT !.target = a] EXCEPT !.label.tgt = a] = [mem EXCEPT !.target = a, !.label = one]
      BY <1>0 DEF PipeBenderMem
    <3>4. [[mem EXCEPT !.target = a, !.label = one] EXCEPT !.label.tgt_bold = a]
            = [mem EXCEPT !.target = a, !.label = two]
      <4>. HIDE DEF one
      <4>. QED  BY <1>0 DEF PipeBenderMem
    <3>. HIDE DEF one, two
    <3>. QED  BY <3>1, <3>2, <3>3, <3>4
  <2>5. PipeBender!Labels(a, mem.live) \in [tgt : Int, tgt_bold : Int, live : Int, live_bold : Int]
    BY <1>0, <2>2 DEF PipeBender!Labels
  <2>6. mem' \in PipeBenderMem
    BY <1>0, <2>2, <2>4, <2>5, Zenon DEF PipeBenderMem
  <2>7. mem'.target = a /\ mem'.live = mem.live /\ mem'.label = PipeBender!Labels(a, mem.live)
    BY <1>0, <2>4 DEF PipeBenderMem
  <2>. QED  BY <2>2, <2>6, <2>7 DEF PipeBenderInv, PipeBender!NoUpdateLost
<1>2. CASE PipeBender!Sweep
  <2>. DEFINE next   == mem.target + mem.dir * SweepStep
              target == PipeBender!Clamped(next)
              dir    == IF next >= MaxAngle THEN -1 ELSE IF next <= 0 THEN 1 ELSE mem.dir
              live(way) == PipeBender!Clamped(IF target >= mem.live THEN mem.live + way ELSE mem.live - way)
  <2>1. PICK way \in 0 .. MaxAngle :
          mem' = [target |-> target, live |-> live(way), dir |-> dir,
                  label |-> PipeBender!Labels(target, live(way))]
    BY <1>2 DEF PipeBender!Sweep
  <2>. DEFINE l == live(way)
  <2>2. next \in Int
    BY <1>0, PipeBenderAngles
  <2>3. target \in 0 .. MaxAngle /\ (target = MaxAngle => next >= MaxAngle)
    <3>. HIDE DEF next
    <3>. QED  BY <2>2, PipeBenderAngles DEF PipeBender!Clamped
  <2>4. dir \in {-1, 1} /\ (next >= MaxAngle => dir = -1)
    BY <1>0
  <2>5. l \in 0 .. MaxAngle
    <3>. HIDE DEF target
    <3>. DEFINE b == IF target >= mem.live THEN mem.live + way ELSE mem.live - way
    <3>1. b \in Int
      BY <1>0
    <3>. HIDE DEF b
    <3>2. PipeBender!Clamped(b) \in 0 .. MaxAngle
      BY <3>1, PipeBenderAngles DEF PipeBender!Clamped
    <3>. QED  BY <3>2 DEF b
  <2>. HIDE DEF target, dir, l, next
  <2>6. mem' = [target |-> target, live |-> l, dir |-> dir, label |-> PipeBender!Labels(target, l)]
    BY <2>1 DEF l, target, dir, next
  <2>7. PipeBender!Labels(target, l) \in [tgt : Int, tgt_bold : Int, live : Int, live_bold : Int]
    BY <2>3, <2>5 DEF PipeBender!Labels
  <2>8. mem' \in PipeBenderMem
    BY <2>3, <2>4, <2>5, <2>6, <2>7, Zenon DEF PipeBenderMem
  <2>. QED  BY <2>3, <2>4, <2>6, <2>8 DEF PipeBenderInv, PipeBender!NoUpdateLost
<1>. QED  BY <1>1, <1>2 DEF PipeBender!Step

-----------------------------------------------------------------------------
(* rs485 as rs485_demo uses it                                               *)

ReceiverMem ==
  [ring : Seq(Nat), rx_data_sem : Nat, chunk : Seq(Nat), cb : BOOLEAN,
   cb_lock : {"free", "demo"}, rx_callback : BOOLEAN]
ReceiverPc   == [rx : {"take", "pull", "copy", "call"}, demo : {"lock", "set", "done"}]
ReceiverSeen ==
  [arrived : 0 .. MaxBytes, delivered : Seq(Nat), lost : SUBSET Nat, cut : Nat, ignored : Nat]

BytesOf(s) == {s[i] : i \in 1 .. Len(s)}
Rising(s)  == \A i, j \in 1 .. Len(s) : i < j => s[i] < s[j]

\* What arrived and was not lost: delivered, in the thread's hands, in the ring.
Received == seen.delivered \o mem.chunk \o mem.ring

\* The bytes rise from the first to the last, not only from one to the next.
ReceiverInv ==
  /\ mem \in ReceiverMem /\ pc \in ReceiverPc /\ seen \in ReceiverSeen
  /\ Len(mem.ring) <= RingSize /\ Len(mem.chunk) <= PullChunk
  /\ mem.rx_data_sem <= seen.arrived
  /\ pc.rx \in {"take", "pull"} => mem.chunk = <<>>
  /\ pc.rx \in {"copy", "call"} => mem.chunk # <<>>
  /\ Rs485!NothingMissed
  /\ Rising(Received)
  /\ BytesOf(Received) \union seen.lost = 1 .. seen.arrived
  /\ BytesOf(Received) \intersect seen.lost = {}

LEMMA BytesAssociative ==
  ASSUME NEW s \in Seq(Nat), NEW u \in Seq(Nat), NEW v \in Seq(Nat)
  PROVE  (s \o u) \o v = s \o (u \o v)
BY ConcatAssociative, SMTT(30)

LEMMA BytesOfConcat ==
  ASSUME NEW s \in Seq(Nat), NEW u \in Seq(Nat)
  PROVE  BytesOf(s \o u) = BytesOf(s) \union BytesOf(u)
<1>1. /\ s \o u \in Seq(Nat) /\ Len(s \o u) = Len(s) + Len(u)
      /\ \A i \in 1 .. Len(s) + Len(u) : (s \o u)[i] = IF i <= Len(s) THEN s[i] ELSE u[i - Len(s)]
      /\ Len(s) \in Nat /\ Len(u) \in Nat
  BY ConcatProperties, LenProperties
<1>. DEFINE m == Len(s)
            n == Len(u)
            c == s \o u
<1>. HIDE DEF m, n, c
<1>2. ASSUME NEW x \in BytesOf(c) PROVE x \in BytesOf(s) \union BytesOf(u)
  <2>1. PICK i \in 1 .. m + n : x = c[i]
    BY <1>1 DEF BytesOf, m, n, c
  <2>2. CASE i <= m
    BY <1>1, <2>1, <2>2 DEF BytesOf, m, n, c
  <2>3. CASE i > m
    <3>1. i - m \in 1 .. n /\ x = u[i - m]
      BY <1>1, <2>1, <2>3 DEF m, n, c
    <3>. QED  BY <3>1 DEF BytesOf, n
  <2>. QED  BY <1>1, <2>1, <2>2, <2>3 DEF m, n
<1>3. ASSUME NEW x \in BytesOf(s) PROVE x \in BytesOf(c)
  <2>1. PICK i \in 1 .. m : x = s[i]
    BY DEF BytesOf, m
  <2>2. i \in 1 .. m + n /\ c[i] = x
    BY <1>1, <2>1 DEF m, n, c
  <2>. QED  BY <1>1, <2>2 DEF BytesOf, m, n, c
<1>4. ASSUME NEW x \in BytesOf(u) PROVE x \in BytesOf(c)
  <2>1. PICK i \in 1 .. n : x = u[i]
    BY DEF BytesOf, n
  <2>2. m + i \in 1 .. m + n /\ ~(m + i <= m) /\ (m + i) - m = i
    BY <1>1, <2>1 DEF m, n
  <2>3. c[m + i] = x
    BY <1>1, <2>1, <2>2 DEF m, n, c
  <2>. QED  BY <1>1, <2>2, <2>3 DEF BytesOf, m, n, c
<1>. QED  BY <1>2, <1>3, <1>4 DEF c

LEMMA RisingConcat ==
  ASSUME NEW s \in Seq(Nat), NEW u \in Seq(Nat)
  PROVE  Rising(s \o u) <=> /\ Rising(s) /\ Rising(u)
                            /\ \A x \in BytesOf(s), y \in BytesOf(u) : x < y
<1>1. /\ s \o u \in Seq(Nat) /\ Len(s \o u) = Len(s) + Len(u)
      /\ \A i \in 1 .. Len(s) + Len(u) : (s \o u)[i] = IF i <= Len(s) THEN s[i] ELSE u[i - Len(s)]
      /\ Len(s) \in Nat /\ Len(u) \in Nat
  BY ConcatProperties, LenProperties
<1>. DEFINE m == Len(s)
            n == Len(u)
            c == s \o u
<1>. HIDE DEF m, n, c
<1>2. /\ Len(c) = m + n /\ m \in Nat /\ n \in Nat
      /\ \A i \in 1 .. m : i \in 1 .. m + n /\ c[i] = s[i]
      /\ \A i \in 1 .. n : m + i \in 1 .. m + n /\ c[m + i] = u[i]
  <2>1. \A i \in 1 .. n : m + i \in 1 .. m + n /\ ~(m + i <= m) /\ (m + i) - m = i
    BY <1>1 DEF m, n
  <2>. QED  BY <1>1, <2>1 DEF m, n, c
<1>3. ASSUME Rising(c) PROVE Rising(s) /\ Rising(u) /\ \A x \in BytesOf(s), y \in BytesOf(u) : x < y
  <2>1. Rising(s)
    BY <1>2, <1>3 DEF Rising, m
  <2>2. Rising(u)
    <3>. SUFFICES ASSUME NEW i \in 1 .. n, NEW j \in 1 .. n, i < j PROVE u[i] < u[j]
      BY DEF Rising, n
    <3>1. m + i < m + j /\ m + i \in 1 .. Len(c) /\ m + j \in 1 .. Len(c)
      BY <1>2
    <3>2. c[m + i] < c[m + j]
      BY <1>3, <3>1 DEF Rising
    <3>. QED  BY <1>2, <3>2
  <2>3. ASSUME NEW x \in BytesOf(s), NEW y \in BytesOf(u) PROVE x < y
    <3>1. PICK i \in 1 .. m : x = s[i]
      BY DEF BytesOf, m
    <3>2. PICK j \in 1 .. n : y = u[j]
      BY DEF BytesOf, n
    <3>3. i < m + j /\ i \in 1 .. Len(c) /\ m + j \in 1 .. Len(c)
      BY <1>2
    <3>4. c[i] < c[m + j]
      BY <1>3, <3>3 DEF Rising
    <3>. QED  BY <1>2, <3>1, <3>2, <3>4
  <2>. QED  BY <2>1, <2>2, <2>3
<1>4. ASSUME Rising(s), Rising(u), \A x \in BytesOf(s), y \in BytesOf(u) : x < y
      PROVE  Rising(c)
  <2>. SUFFICES ASSUME NEW i \in 1 .. m + n, NEW j \in 1 .. m + n, i < j PROVE c[i] < c[j]
    BY <1>2 DEF Rising
  <2>1. CASE j <= m
    <3>1. i \in 1 .. m /\ j \in 1 .. m
      BY <1>2, <2>1
    <3>2. s[i] < s[j]
      BY <1>4, <3>1 DEF Rising, m
    <3>. QED  BY <1>2, <3>1, <3>2
  <2>2. CASE i > m
    <3>. DEFINE a == i - m
                b == j - m
    <3>1. a \in 1 .. n /\ b \in 1 .. n /\ a < b /\ m + a = i /\ m + b = j
      BY <1>2, <2>2
    <3>. HIDE DEF a, b
    <3>2. u[a] < u[b]
      BY <1>4, <3>1 DEF Rising, n
    <3>3. c[m + a] = u[a] /\ c[m + b] = u[b]
      BY <1>2, <3>1
    <3>. QED  BY <3>1, <3>2, <3>3
  <2>3. CASE i <= m /\ j > m
    <3>. DEFINE b == j - m
    <3>1. i \in 1 .. m /\ b \in 1 .. n /\ m + b = j
      BY <1>2, <2>3
    <3>. HIDE DEF b
    <3>2. s[i] \in BytesOf(s) /\ u[b] \in BytesOf(u)
      BY <3>1 DEF BytesOf, m, n
    <3>3. s[i] < u[b] /\ c[i] = s[i] /\ c[m + b] = u[b]
      BY <1>2, <1>4, <3>1, <3>2
    <3>. QED  BY <3>1, <3>3
  <2>. QED  BY <1>2, <2>1, <2>2, <2>3
<1>. QED  BY <1>3, <1>4 DEF c

\* A burst of k bytes after a.
LEMMA BurstBytes ==
  ASSUME NEW a \in Nat, NEW k \in Nat
  PROVE  /\ [i \in 1 .. k |-> a + i] \in Seq(Nat) /\ Len([i \in 1 .. k |-> a + i]) = k
         /\ Rising([i \in 1 .. k |-> a + i])
         /\ BytesOf([i \in 1 .. k |-> a + i]) = a + 1 .. a + k
<1>. DEFINE b == [i \in 1 .. k |-> a + i]
<1>1. b \in Seq(Nat) /\ Len(b) = k /\ \A i \in 1 .. k : b[i] = a + i
  OBVIOUS
<1>. HIDE DEF b
<1>2. Rising(b)
  BY <1>1 DEF Rising
<1>3. ASSUME NEW x \in a + 1 .. a + k PROVE x \in BytesOf(b)
  <2>1. x - a \in 1 .. k /\ b[x - a] = x
    BY <1>1
  <2>. QED  BY <1>1, <2>1 DEF BytesOf
<1>4. BytesOf(b) \subseteq a + 1 .. a + k
  BY <1>1 DEF BytesOf
<1>. QED  BY <1>1, <1>2, <1>3, <1>4 DEF b

LEMMA ReceiverSizes ==
  /\ RingSize \in Nat \ {0} /\ FifoChunk \in Nat \ {0} /\ PullChunk \in Nat \ {0} /\ MaxBytes \in Nat
BY ProgramAssumptions DEF Rs485!SizeAssumption

LEMMA ReceiverInit == Rs485!Init => ReceiverInv
<1>. SUFFICES ASSUME Rs485!Init PROVE ReceiverInv
  OBVIOUS
<1>0. <<>> \in Seq(Nat) /\ Len(<<>>) = 0 /\ <<>> \o <<>> \o <<>> = <<>>
  BY ConcatEmptySeq, EmptySeq
<1>1. mem \in ReceiverMem /\ pc \in ReceiverPc /\ seen \in ReceiverSeen
  <2>1. mem \in ReceiverMem
    <3>1. 0 \in Nat
      OBVIOUS
    <3>. QED  BY <1>0, <3>1, Zenon DEF Rs485!Init, ReceiverMem
  <2>2. pc \in ReceiverPc
    BY DEF Rs485!Init, ReceiverPc
  <2>3. seen \in ReceiverSeen
    <3>1. 0 \in 0 .. MaxBytes /\ {} \in SUBSET Nat
      BY ReceiverSizes
    <3>. QED  BY <1>0, <3>1, Zenon DEF Rs485!Init, ReceiverSeen
  <2>. QED  BY <2>1, <2>2, <2>3
<1>2. /\ mem.ring = <<>> /\ mem.chunk = <<>> /\ mem.rx_data_sem = 0 /\ pc.rx = "take"
      /\ seen.arrived = 0 /\ seen.delivered = <<>> /\ seen.lost = {}
  BY DEF Rs485!Init
<1>3. Received = <<>>
  BY <1>0, <1>2 DEF Received
<1>4. Rising(<<>>) /\ BytesOf(<<>>) = {}
  BY DEF Rising, BytesOf
<1>. QED  BY <1>0, <1>1, <1>2, <1>3, <1>4, ReceiverSizes DEF ReceiverInv, Rs485!NothingMissed

LEMMA ReceiverInOrder == ReceiverInv => Rs485!InOrder /\ Rs485!TypeOK
<1>. SUFFICES ASSUME ReceiverInv PROVE Rs485!InOrder /\ Rs485!TypeOK
  OBVIOUS
<1>1. mem.ring \in Seq(Nat) /\ mem.chunk \in Seq(Nat) /\ seen.delivered \in Seq(Nat) /\ seen.arrived \in 0 .. MaxBytes
  BY DEF ReceiverInv, ReceiverMem, ReceiverSeen
<1>2. Received \in Seq(Nat) /\ Len(Received) \in Nat /\ DOMAIN Received = 1 .. Len(Received)
  BY <1>1, ConcatProperties, LenProperties DEF Received
<1>3. {Received[i] : i \in DOMAIN Received} = BytesOf(Received)
  BY <1>2 DEF BytesOf
<1>4. \A i \in 1 .. Len(Received) - 1 : Received[i] < Received[i + 1]
  BY <1>2 DEF ReceiverInv, Rising
<1>5. Rs485!InOrder
  BY <1>3, <1>4 DEF ReceiverInv, Rs485!InOrder, Received
<1>6. Rs485!TypeOK
  BY <1>1, ReceiverSizes DEF ReceiverInv, ReceiverMem, ReceiverPc, Rs485!TypeOK
<1>. QED  BY <1>5, <1>6

LEMMA ReceiverStep ==
  ASSUME ReceiverInv, NEW t, Rs485!Step(t)
  PROVE  ReceiverInv'
<1>. USE DEF Rs485!NothingMissed, Rs485!Go
<1>0. /\ mem \in ReceiverMem /\ pc \in ReceiverPc /\ seen \in ReceiverSeen
      /\ mem.ring \in Seq(Nat) /\ mem.chunk \in Seq(Nat) /\ mem.rx_data_sem \in Nat
      /\ seen.delivered \in Seq(Nat) /\ seen.arrived \in 0 .. MaxBytes /\ seen.lost \subseteq Nat
      /\ Len(mem.ring) \in Nat /\ Len(mem.chunk) \in Nat /\ Len(mem.ring) <= RingSize
  BY DEF ReceiverInv, ReceiverMem, ReceiverSeen
<1>a. Received \in Seq(Nat) /\ Len(Received) \in Nat /\ seen.delivered \o mem.chunk \in Seq(Nat)
  BY <1>0, ConcatProperties, LenProperties DEF Received
<1>1. CASE Rs485!HandleRx
  <2>1. PICK n \in 1 .. FifoChunk :
          LET room == RingSize - Len(mem.ring)
              kept == IF n < room THEN n ELSE room
          IN /\ seen.arrived + n <= MaxBytes
             /\ mem' = [mem EXCEPT !.ring = @ \o [i \in 1 .. kept |-> seen.arrived + i],
                                   !.rx_data_sem = @ + 1]
             /\ seen' = [seen EXCEPT !.arrived = @ + n,
                                     !.lost = @ \union (seen.arrived + kept + 1 .. seen.arrived + n),
                                     !.cut = @ + (n - kept)]
             /\ UNCHANGED pc
    BY <1>1 DEF Rs485!HandleRx
  <2>. DEFINE room == RingSize - Len(mem.ring)
              kept == IF n < room THEN n ELSE room
              a    == seen.arrived
              b    == [i \in 1 .. kept |-> a + i]
              ring == mem.ring \o b
              sem  == mem.rx_data_sem + 1
              lost == seen.lost \union (a + kept + 1 .. a + n)
              got  == a + n
              cut  == seen.cut + (n - kept)
  <2>2. /\ mem' = [mem EXCEPT !.ring = ring, !.rx_data_sem = sem]
        /\ seen' = [seen EXCEPT !.arrived = got, !.lost = lost, !.cut = cut]
        /\ UNCHANGED pc /\ got <= MaxBytes
    BY <2>1
  <2>3. /\ kept \in Nat /\ kept <= n /\ kept <= room /\ room \in Nat /\ n \in Nat /\ n >= 1 /\ a \in Nat
    <3>. DEFINE l == Len(mem.ring)
    <3>1. l \in Nat /\ l <= RingSize /\ n \in Nat /\ n >= 1 /\ a \in Nat
      BY <1>0, ReceiverSizes
    <3>. HIDE DEF l, a
    <3>2. room = RingSize - l
      BY DEF l
    <3>3. room \in Nat
      BY <3>1, <3>2, ReceiverSizes
    <3>. HIDE DEF room
    <3>. QED  BY <3>1, <3>3
  <2>. HIDE DEF kept
  <2>4. b \in Seq(Nat) /\ Len(b) = kept /\ Rising(b) /\ BytesOf(b) = a + 1 .. a + kept
    BY <2>3, BurstBytes
  <2>. HIDE DEF b
  <2>5. ring \in Seq(Nat) /\ Len(ring) = Len(mem.ring) + kept /\ Len(ring) <= RingSize
    <3>1. ring \in Seq(Nat) /\ Len(ring) = Len(mem.ring) + Len(b)
      BY <1>0, <2>4, ConcatProperties
    <3>2. Len(mem.ring) + kept <= RingSize
      BY <1>0, <2>3, ReceiverSizes
    <3>. QED  BY <2>4, <3>1, <3>2
  <2>6. sem \in Nat /\ sem > 0 /\ sem <= got /\ got \in 0 .. MaxBytes /\ lost \in SUBSET Nat
    <3>1. mem.rx_data_sem <= a /\ mem.rx_data_sem \in Nat /\ seen.lost \subseteq Nat
      BY <1>0 DEF ReceiverInv
    <3>2. sem \in Nat /\ sem > 0 /\ sem <= got
      BY <2>3, <3>1
    <3>3. got \in 0 .. MaxBytes
      BY <2>2, <2>3, ReceiverSizes
    <3>4. a + kept + 1 .. a + n \subseteq Nat
      BY <2>3
    <3>. QED  BY <3>1, <3>2, <3>3, <3>4
  <2>a. cut \in Nat
    BY <1>0, <2>3 DEF ReceiverSeen
  <2>. HIDE DEF ring, sem, lost, got, a, room, cut
  <2>7. mem' \in ReceiverMem
    BY <1>0, <2>2, <2>5, <2>6, Zenon DEF ReceiverMem
  <2>8. seen' \in ReceiverSeen
    BY <1>0, <2>2, <2>6, <2>a, Zenon DEF ReceiverSeen
  <2>9. /\ mem'.ring = ring /\ mem'.rx_data_sem = sem /\ mem'.chunk = mem.chunk
        /\ seen'.arrived = got /\ seen'.lost = lost /\ seen'.delivered = seen.delivered
    BY <1>0, <2>2 DEF ReceiverMem, ReceiverSeen
  <2>10. Received' = Received \o b
    <3>1. Received' = (seen.delivered \o mem.chunk) \o (mem.ring \o b)
      BY <2>9 DEF Received, ring
    <3>2. ((seen.delivered \o mem.chunk) \o mem.ring) \o b = (seen.delivered \o mem.chunk) \o (mem.ring \o b)
      <4>1. mem.ring \in Seq(Nat) /\ b \in Seq(Nat)
        BY <1>0, <2>4
      <4>. QED  BY <1>a, <4>1, BytesAssociative, Zenon
    <3>. QED  BY <3>1, <3>2 DEF Received
  <2>11. BytesOf(Received) \subseteq 1 .. a
    BY DEF ReceiverInv, a
  <2>12. Rising(Received')
    <3>1. \A x \in BytesOf(Received), y \in BytesOf(b) : x < y
      BY <2>3, <2>4, <2>11
    <3>2. Rising(Received)
      BY DEF ReceiverInv
    <3>. QED  BY <1>a, <2>4, <2>10, <3>1, <3>2, RisingConcat
  <2>13. BytesOf(Received') = BytesOf(Received) \union (a + 1 .. a + kept)
    <3>1. BytesOf(Received \o b) = BytesOf(Received) \union BytesOf(b)
      BY <1>a, <2>4, BytesOfConcat, Zenon
    <3>. QED  BY <2>4, <2>10, <3>1, Zenon
  <2>14. BytesOf(Received) \union seen.lost = 1 .. a /\ BytesOf(Received) \intersect seen.lost = {}
    BY DEF ReceiverInv, a
  <2>15. BytesOf(Received') \union lost = 1 .. got
    <3>1. (1 .. a) \union (a + 1 .. a + kept) \union (a + kept + 1 .. a + n) = 1 .. a + n
      BY <2>3
    <3>. QED  BY <2>13, <2>14, <3>1 DEF lost, got
  <2>16. BytesOf(Received') \intersect lost = {}
    BY <2>3, <2>11, <2>13, <2>14 DEF lost
  <2>17. /\ Len(mem.chunk) <= PullChunk
         /\ pc.rx \in {"take", "pull"} => mem.chunk = <<>>
         /\ pc.rx \in {"copy", "call"} => mem.chunk # <<>>
    BY DEF ReceiverInv
  <2>. QED  BY <1>0, <2>2, <2>5, <2>6, <2>7, <2>8, <2>9, <2>12, <2>15, <2>16, <2>17 DEF ReceiverInv
<1>2. CASE Rs485!Take
  <2>. DEFINE n == mem.rx_data_sem - 1
  <2>1. /\ mem.rx_data_sem > 0 /\ pc.rx = "take" /\ pc' = [pc EXCEPT !.rx = "pull"]
        /\ mem' = [mem EXCEPT !.rx_data_sem = n] /\ UNCHANGED seen
    BY <1>2 DEF Rs485!Take
  <2>2. n \in Nat /\ n <= seen.arrived
    BY <1>0, <2>1 DEF ReceiverInv
  <2>. HIDE DEF n
  <2>3. mem' \in ReceiverMem
    BY <1>0, <2>1, <2>2, Zenon DEF ReceiverMem
  <2>4. mem'.ring = mem.ring /\ mem'.chunk = mem.chunk /\ mem'.rx_data_sem = n
    BY <1>0, <2>1 DEF ReceiverMem
  <2>5. pc' \in ReceiverPc /\ pc'.rx = "pull"
    BY <1>0, <2>1 DEF ReceiverPc
  <2>. QED  BY <1>0, <2>1, <2>2, <2>3, <2>4, <2>5 DEF ReceiverInv, Received
<1>3. CASE Rs485!Pull
  <2>. DEFINE n == IF Len(mem.ring) < PullChunk THEN Len(mem.ring) ELSE PullChunk
              f == SubSeq(mem.ring, 1, n)
              r == SubSeq(mem.ring, n + 1, Len(mem.ring))
  <2>1. /\ pc.rx = "pull" /\ pc' = [pc EXCEPT !.rx = IF n = 0 THEN "take" ELSE "copy"]
        /\ mem' = [mem EXCEPT !.chunk = f, !.ring = r] /\ UNCHANGED seen
    BY <1>3 DEF Rs485!Pull
  <2>2. n \in 0 .. Len(mem.ring) /\ n <= PullChunk /\ (n = 0 => Len(mem.ring) = 0)
    BY <1>0, ReceiverSizes
  <2>. HIDE DEF n
  <2>3. f \in Seq(Nat) /\ r \in Seq(Nat) /\ Len(f) = n /\ Len(r) = Len(mem.ring) - n
    <3>. DEFINE g == mem.ring
    <3>1. g \in Seq(Nat) /\ n \in 0 .. Len(g)
      BY <1>0, <2>2
    <3>. HIDE DEF g
    <3>2. SubSeq(g, 1, n) \in Seq(Nat) /\ Len(SubSeq(g, 1, n)) = n
      BY <3>1
    <3>3. SubSeq(g, n + 1, Len(g)) \in Seq(Nat) /\ Len(SubSeq(g, n + 1, Len(g))) = Len(g) - n
      BY <3>1
    <3>. QED  BY <3>2, <3>3 DEF g
  <2>4. f \o r = mem.ring
    <3>1. SubSeq(mem.ring, 1, n) \o SubSeq(mem.ring, n + 1, Len(mem.ring)) = SubSeq(mem.ring, 1, Len(mem.ring))
      <4>1. 1 \in 1 .. Len(mem.ring) + 1 /\ n \in 1 - 1 .. Len(mem.ring) /\ Len(mem.ring) \in n .. Len(mem.ring)
        BY <1>0, <2>2
      <4>. QED  BY <1>0, <4>1, ConcatAdjacentSubSeq, Zenon
    <3>2. SubSeq(mem.ring, 1, Len(mem.ring)) = mem.ring
      BY <1>0, SubSeqFull
    <3>. QED  BY <3>1, <3>2
  <2>. HIDE DEF f, r
  <2>5. mem' \in ReceiverMem
    BY <1>0, <2>1, <2>3, Zenon DEF ReceiverMem
  <2>6. mem'.ring = r /\ mem'.chunk = f /\ mem'.rx_data_sem = mem.rx_data_sem
    BY <1>0, <2>1 DEF ReceiverMem
  <2>7. pc' \in ReceiverPc /\ pc'.rx = IF n = 0 THEN "take" ELSE "copy"
    BY <1>0, <2>1 DEF ReceiverPc
  <2>8. Received' = Received
    <3>1. mem.chunk = <<>>
      BY <2>1 DEF ReceiverInv
    <3>2. Received = seen.delivered \o mem.ring
      BY <1>0, <3>1, ConcatEmptySeq DEF Received
    <3>3. Received' = (seen.delivered \o f) \o r
      BY <2>1, <2>6 DEF Received
    <3>4. (seen.delivered \o f) \o r = seen.delivered \o (f \o r)
      <4>1. seen.delivered \in Seq(Nat) /\ f \in Seq(Nat) /\ r \in Seq(Nat)
        BY <1>0, <2>3
      <4>. QED  BY <4>1, BytesAssociative, Zenon
    <3>. QED  BY <2>4, <3>2, <3>3, <3>4
  <2>9. (n = 0 => f = <<>> /\ r = <<>>) /\ (n # 0 => f # <<>>)
    BY <2>2, <2>3, EmptySeq
  <2>10. Len(r) <= RingSize /\ Len(f) <= PullChunk
    BY <1>0, <2>2, <2>3, ReceiverSizes
  <2>. QED  BY <1>0, <2>1, <2>5, <2>6, <2>7, <2>8, <2>9, <2>10 DEF ReceiverInv
<1>4. CASE Rs485!Copy
  <2>. DEFINE c == mem.rx_callback
  <2>1. /\ pc.rx = "copy" /\ pc' = [pc EXCEPT !.rx = "call"]
        /\ mem' = [mem EXCEPT !.cb = c] /\ UNCHANGED seen
    BY <1>4 DEF Rs485!Copy
  <2>2. c \in BOOLEAN
    BY <1>0 DEF ReceiverMem
  <2>. HIDE DEF c
  <2>3. mem' \in ReceiverMem
    BY <1>0, <2>1, <2>2, Zenon DEF ReceiverMem
  <2>4. mem'.ring = mem.ring /\ mem'.chunk = mem.chunk /\ mem'.rx_data_sem = mem.rx_data_sem
    BY <1>0, <2>1 DEF ReceiverMem
  <2>5. pc' \in ReceiverPc /\ pc'.rx = "call"
    BY <1>0, <2>1 DEF ReceiverPc
  <2>. QED  BY <1>0, <2>1, <2>3, <2>4, <2>5 DEF ReceiverInv, Received
<1>5. CASE Rs485!Call
  <2>. DEFINE d == seen.delivered \o mem.chunk
              l == seen.lost \union BytesOf(mem.chunk)
              g == seen.ignored + Len(mem.chunk)
  <2>1. /\ pc.rx = "call" /\ pc' = [pc EXCEPT !.rx = "pull"]
        /\ mem' = [mem EXCEPT !.chunk = <<>>]
        /\ seen' = IF mem.cb THEN [seen EXCEPT !.delivered = d] ELSE [seen EXCEPT !.lost = l, !.ignored = g]
    <3>1. DOMAIN mem.chunk = 1 .. Len(mem.chunk)
      BY <1>0, LenProperties
    <3>. QED  BY <1>5, <3>1 DEF Rs485!Call, BytesOf
  <2>2. mem' \in ReceiverMem
    BY <1>0, <2>1, EmptySeq DEF ReceiverMem
  <2>3. mem'.ring = mem.ring /\ mem'.chunk = <<>> /\ mem'.rx_data_sem = mem.rx_data_sem
    BY <1>0, <2>1 DEF ReceiverMem
  <2>4. pc' \in ReceiverPc /\ pc'.rx = "pull"
    BY <1>0, <2>1 DEF ReceiverPc
  <2>5. BytesOf(mem.chunk) \subseteq Nat
    BY <1>0 DEF BytesOf
  <2>6. CASE mem.cb
    <3>1. d \in Seq(Nat) /\ seen' = [seen EXCEPT !.delivered = d]
      BY <1>a, <2>1, <2>6
    <3>. HIDE DEF d
    <3>2. seen' \in ReceiverSeen
      BY <1>0, <3>1, Zenon DEF ReceiverSeen
    <3>3. seen'.arrived = seen.arrived /\ seen'.delivered = d /\ seen'.lost = seen.lost
      BY <1>0, <3>1 DEF ReceiverSeen
    <3>4. Received' = Received
      BY <2>3, <3>1, <3>3, ConcatEmptySeq DEF Received, d
    <3>. QED  BY <1>0, <2>1, <2>2, <2>3, <2>4, <3>2, <3>3, <3>4, ReceiverSizes, EmptySeq DEF ReceiverInv
  <2>7. CASE ~mem.cb
    <3>1. l \in SUBSET Nat /\ g \in Nat /\ seen' = [seen EXCEPT !.lost = l, !.ignored = g]
      BY <1>0, <2>1, <2>5, <2>7 DEF ReceiverSeen
    <3>. HIDE DEF l, g
    <3>2. seen' \in ReceiverSeen
      BY <1>0, <3>1, Zenon DEF ReceiverSeen
    <3>3. seen'.arrived = seen.arrived /\ seen'.delivered = seen.delivered /\ seen'.lost = l
      BY <1>0, <3>1 DEF ReceiverSeen
    <3>4. Received' = seen.delivered \o mem.ring
      BY <1>0, <2>3, <3>3, ConcatEmptySeq DEF Received
    <3>5. /\ BytesOf(Received) = (BytesOf(seen.delivered) \union BytesOf(mem.chunk)) \union BytesOf(mem.ring)
          /\ BytesOf(Received') = BytesOf(seen.delivered) \union BytesOf(mem.ring)
          /\ BytesOf(d) = BytesOf(seen.delivered) \union BytesOf(mem.chunk)
      <4>1. BytesOf(d) = BytesOf(seen.delivered) \union BytesOf(mem.chunk)
        BY <1>0, BytesOfConcat
      <4>2. BytesOf(Received) = BytesOf(d) \union BytesOf(mem.ring)
        BY <1>0, <1>a, BytesOfConcat DEF Received
      <4>3. BytesOf(seen.delivered \o mem.ring) = BytesOf(seen.delivered) \union BytesOf(mem.ring)
        BY <1>0, BytesOfConcat
      <4>. QED  BY <3>4, <4>1, <4>2, <4>3
    <3>6. /\ Rising(d) /\ Rising(mem.ring) /\ \A x \in BytesOf(d), y \in BytesOf(mem.ring) : x < y
      <4>1. Rising(d \o mem.ring)
        BY DEF ReceiverInv, Received
      <4>. QED  BY <1>0, <1>a, <4>1, RisingConcat
    <3>7. Rising(seen.delivered) /\ \A x \in BytesOf(seen.delivered), y \in BytesOf(mem.chunk) : x < y
      BY <1>0, <3>6, RisingConcat
    <3>8. Rising(Received')
      <4>1. \A x \in BytesOf(seen.delivered), y \in BytesOf(mem.ring) : x < y
        BY <3>5, <3>6
      <4>2. Rising(seen.delivered \o mem.ring)
        BY <1>0, <3>6, <3>7, <4>1, RisingConcat
      <4>. QED  BY <3>4, <4>2
    <3>9. BytesOf(Received) \subseteq Nat
      <4>1. BytesOf(Received) \subseteq 1 .. seen.arrived
        BY DEF ReceiverInv
      <4>. QED  BY <1>0, <4>1
    <3>10. BytesOf(mem.chunk) \intersect BytesOf(Received') = {}
      <4>1. \A x \in BytesOf(mem.chunk), y \in BytesOf(mem.ring) : x < y
        BY <3>5, <3>6
      <4>2. \A x \in Nat : ~(x < x)
        OBVIOUS
      <4>. QED  BY <3>5, <3>7, <3>9, <4>1, <4>2
    <3>11. BytesOf(Received') \union l = 1 .. seen.arrived /\ BytesOf(Received') \intersect l = {}
      BY <3>5, <3>10 DEF ReceiverInv, l
    <3>. QED  BY <1>0, <2>1, <2>2, <2>3, <2>4, <3>2, <3>3, <3>8, <3>11, ReceiverSizes, EmptySeq DEF ReceiverInv
  <2>. QED  BY <2>6, <2>7
<1>6. CASE Rs485!Register
  <2>1. /\ UNCHANGED seen
        /\ \/ /\ pc.demo = "lock" /\ pc' = [pc EXCEPT !.demo = "set"]
              /\ mem' = [mem EXCEPT !.cb_lock = "demo"]
           \/ /\ pc.demo = "set" /\ pc' = [pc EXCEPT !.demo = "done"]
              /\ mem' = [mem EXCEPT !.rx_callback = TRUE, !.cb_lock = "free"]
    BY <1>6 DEF Rs485!Register
  <2>2. /\ mem' \in ReceiverMem /\ mem'.ring = mem.ring /\ mem'.chunk = mem.chunk
        /\ mem'.rx_data_sem = mem.rx_data_sem
    BY <1>0, <2>1 DEF ReceiverMem
  <2>3. pc' \in ReceiverPc /\ pc'.rx = pc.rx
    BY <1>0, <2>1 DEF ReceiverPc
  <2>. QED  BY <1>0, <2>1, <2>2, <2>3 DEF ReceiverInv, Received
<1>. QED  BY <1>1, <1>2, <1>3, <1>4, <1>5, <1>6 DEF Rs485!Step

-----------------------------------------------------------------------------
(* lvgl_demo of the pendant                                                  *)

LvglMem ==
  [display_ready : BOOLEAN, blanked : BOOLEAN, counter_due_ms : 0 .. Second, sleep_ms : 0 .. Refresh,
   uptime_s : Nat, counter_label : Nat]

LvglInv ==
  /\ mem \in LvglMem
  /\ pc \in [init : {"display", "done"}, demo : {"poll", "handle", "sleep"}]
  /\ seen \in 0 .. MaxElapsed
  /\ IF mem.uptime_s = 0 THEN mem.counter_due_ms = 0 /\ mem.counter_label = 0
     ELSE mem.counter_label = mem.uptime_s - 1
  /\ Lvgl!NoUpdateLost

LEMMA LvglTimes == Second \in Nat \ {0} /\ Refresh \in Nat \ {0} /\ Refresh < Second /\ MaxElapsed \in Nat
BY ProgramAssumptions DEF Lvgl!TimeAssumption

LEMMA LvglInit == Lvgl!Init => LvglInv
<1>. SUFFICES ASSUME Lvgl!Init PROVE LvglInv
  OBVIOUS
<1>1. mem \in LvglMem
  <2>1. 0 \in 0 .. Second /\ 0 \in 0 .. Refresh /\ 0 \in Nat /\ TRUE \in BOOLEAN /\ FALSE \in BOOLEAN
    BY LvglTimes
  <2>. QED  BY <2>1, Zenon DEF Lvgl!Init, LvglMem
<1>2. mem.counter_due_ms = 0 /\ mem.uptime_s = 0 /\ mem.counter_label = 0 /\ seen = 0
      /\ pc = [init |-> "display", demo |-> "poll"]
  BY DEF Lvgl!Init
<1>. QED  BY <1>1, <1>2, LvglTimes DEF LvglInv, Lvgl!NoUpdateLost, Lvgl!Counted

\* The counters stay below the time a behaviour may take, in whole seconds.
LEMMA LvglTypeOK == LvglInv => Lvgl!TypeOK
<1>. SUFFICES ASSUME LvglInv PROVE Lvgl!TypeOK
  OBVIOUS
<1>. DEFINE u == mem.uptime_s
            l == mem.counter_label
            S == Second
<1>0. /\ mem.display_ready \in BOOLEAN /\ mem.blanked \in BOOLEAN /\ mem.counter_due_ms \in 0 .. Second
      /\ mem.sleep_ms \in 0 .. Refresh /\ u \in Nat /\ l \in Nat
      /\ pc.init \in {"display", "done"} /\ pc.demo \in {"poll", "handle", "sleep"}
      /\ seen \in 0 .. MaxElapsed
  BY DEF LvglInv, LvglMem
<1>1. l \in 0 .. MaxElapsed /\ u \in 0 .. MaxElapsed + 1
  <2>1. CASE u = 0
    BY <2>1, LvglTimes DEF LvglInv
  <2>2. CASE u # 0
    <3>1. l = u - 1 /\ l * S + S - mem.counter_due_ms <= seen + (IF pc.demo = "sleep" THEN mem.sleep_ms ELSE 0)
      BY <2>2 DEF LvglInv, Lvgl!NoUpdateLost, Lvgl!Counted
    <3>. HIDE DEF l, u
    <3>2. l * S \in Nat
      BY <1>0, LvglTimes
    <3>. DEFINE p == l * S
    <3>3. p < MaxElapsed + S
      <4>1. p + S - mem.counter_due_ms <= seen + (IF pc.demo = "sleep" THEN mem.sleep_ms ELSE 0)
        BY <3>1
      <4>2. p \in Nat
        BY <3>2
      <4>. HIDE DEF p
      <4>. QED  BY <1>0, <4>1, <4>2, LvglTimes
    <3>4. ~(l >= MaxElapsed + 1)
      <4>. SUFFICES ASSUME l >= MaxElapsed + 1 PROVE FALSE
        OBVIOUS
      <4>1. l * S >= (MaxElapsed + 1) * S
        BY <1>0, LvglTimes
      <4>2. (MaxElapsed + 1) * S = MaxElapsed * S + S /\ MaxElapsed * S >= MaxElapsed /\ MaxElapsed * S \in Nat
        BY LvglTimes
      <4>. DEFINE q == MaxElapsed * S
                  r == (MaxElapsed + 1) * S
      <4>3. p >= r /\ r = q + S /\ q >= MaxElapsed /\ q \in Nat /\ p \in Nat
        BY <3>2, <4>1, <4>2
      <4>. HIDE DEF p, q, r
      <4>. QED  BY <3>3, <4>3, LvglTimes
    <3>. QED  BY <1>0, <3>1, <3>4, LvglTimes
  <2>. QED  BY <2>1, <2>2
<1>. QED  BY <1>0, <1>1, LvglTimes DEF Lvgl!TypeOK

LEMMA LvglStep ==
  ASSUME LvglInv, NEW t, Lvgl!Step(t)
  PROVE  LvglInv'
<1>. DEFINE PcType == pc \in [init : {"display", "done"}, demo : {"poll", "handle", "sleep"}]
            Paid   == seen + (IF pc.demo = "sleep" THEN mem.sleep_ms ELSE 0)
<1>0. /\ mem \in LvglMem /\ PcType /\ seen \in 0 .. MaxElapsed
      /\ mem.counter_due_ms \in 0 .. Second /\ mem.sleep_ms \in 0 .. Refresh
      /\ mem.uptime_s \in Nat /\ mem.counter_label \in Nat
  BY DEF LvglInv, LvglMem
<1>1. CASE Lvgl!DisplayInit
  <2>1. PICK ok \in BOOLEAN : mem' = [mem EXCEPT !.display_ready = ok]
    BY <1>1 DEF Lvgl!DisplayInit
  <2>2. pc' = [pc EXCEPT !.init = "done"] /\ UNCHANGED seen
    BY <1>1 DEF Lvgl!DisplayInit, Lvgl!Go
  <2>3. /\ mem' \in LvglMem /\ mem'.counter_due_ms = mem.counter_due_ms /\ mem'.sleep_ms = mem.sleep_ms
        /\ mem'.uptime_s = mem.uptime_s /\ mem'.counter_label = mem.counter_label
    BY <1>0, <2>1 DEF LvglMem
  <2>4. PcType' /\ pc'.demo = pc.demo
    BY <1>0, <2>2
  <2>. QED  BY <1>0, <2>2, <2>3, <2>4 DEF LvglInv, Lvgl!NoUpdateLost, Lvgl!Counted
<1>2. CASE Lvgl!PowerOn
  <2>1. PICK ok \in BOOLEAN : mem' = [mem EXCEPT !.blanked = ~ok]
    BY <1>2 DEF Lvgl!PowerOn
  <2>. DEFINE b == ~ok
  <2>b. b \in BOOLEAN /\ mem' = [mem EXCEPT !.blanked = b]
    BY <2>1
  <2>. HIDE DEF b
  <2>2. pc.demo = "poll" /\ pc' = [pc EXCEPT !.demo = "handle"] /\ UNCHANGED seen
    BY <1>2 DEF Lvgl!PowerOn, Lvgl!Go
  <2>3. /\ mem' \in LvglMem /\ mem'.counter_due_ms = mem.counter_due_ms /\ mem'.sleep_ms = mem.sleep_ms
        /\ mem'.uptime_s = mem.uptime_s /\ mem'.counter_label = mem.counter_label
    BY <1>0, <2>b DEF LvglMem
  <2>4. PcType' /\ pc'.demo = "handle"
    BY <1>0, <2>2
  <2>. QED  BY <1>0, <2>2, <2>3, <2>4 DEF LvglInv, Lvgl!NoUpdateLost, Lvgl!Counted
<1>3. CASE Lvgl!Handle
  <2>1. PICK lvgl_sleep_ms \in 0 .. Refresh + 1 :
          LET sleep == IF lvgl_sleep_ms < Refresh THEN lvgl_sleep_ms ELSE Refresh
              due   == mem.counter_due_ms - sleep
          IN /\ Lvgl!Go("demo", "handle", "sleep")
             /\ mem' = IF due > 0
                       THEN [mem EXCEPT !.sleep_ms = sleep, !.counter_due_ms = due]
                       ELSE [mem EXCEPT !.sleep_ms = sleep, !.counter_due_ms = Second,
                                        !.counter_label = mem.uptime_s, !.uptime_s = @ + 1]
             /\ UNCHANGED seen
    BY <1>3 DEF Lvgl!Handle
  <2>. DEFINE sleep == IF lvgl_sleep_ms < Refresh THEN lvgl_sleep_ms ELSE Refresh
              due   == mem.counter_due_ms - sleep
              up    == mem.uptime_s + 1
              label == mem.uptime_s
  <2>2. /\ pc.demo = "handle" /\ pc' = [pc EXCEPT !.demo = "sleep"] /\ UNCHANGED seen
        /\ mem' = IF due > 0
                  THEN [mem EXCEPT !.sleep_ms = sleep, !.counter_due_ms = due]
                  ELSE [mem EXCEPT !.sleep_ms = sleep, !.counter_due_ms = Second,
                                   !.counter_label = label, !.uptime_s = up]
    BY <2>1 DEF Lvgl!Go
  <2>3. sleep \in 0 .. Refresh
    BY LvglTimes
  <2>. HIDE DEF sleep
  <2>4. due \in Int /\ (due > 0 => due \in 0 .. Second) /\ up \in Nat /\ label \in Nat /\ Second \in 0 .. Second
    BY <1>0, <2>3, LvglTimes
  <2>5. PcType' /\ pc'.demo = "sleep"
    BY <1>0, <2>2
  <2>6. CASE due > 0
    <3>1. mem' = [mem EXCEPT !.sleep_ms = sleep, !.counter_due_ms = due] /\ due \in 0 .. Second
      BY <2>2, <2>4, <2>6
    <3>. HIDE DEF due
    <3>2. mem' \in LvglMem
      BY <1>0, <2>3, <3>1, Zenon DEF LvglMem
    <3>3. /\ mem'.counter_due_ms = due /\ mem'.sleep_ms = sleep
          /\ mem'.uptime_s = mem.uptime_s /\ mem'.counter_label = mem.counter_label
      BY <1>0, <3>1 DEF LvglMem
    <3>4. mem.uptime_s # 0
      BY <1>0, <2>3, <2>6, LvglTimes DEF LvglInv, due
    <3>. DEFINE p == mem.counter_label * Second
    <3>5. p \in Int /\ p + Second - mem.counter_due_ms <= seen
      <4>1. p \in Int
        BY <1>0, LvglTimes
      <4>2. p + Second - mem.counter_due_ms <= seen + 0
        BY <2>2, <3>4 DEF LvglInv, Lvgl!NoUpdateLost, Lvgl!Counted
      <4>3. seen + 0 = seen
        BY <1>0
      <4>. QED  BY <4>1, <4>2, <4>3
    <3>. HIDE DEF p
    <3>6. p + Second - due <= seen + sleep
      BY <1>0, <2>3, <3>5, LvglTimes DEF due
    <3>7. Lvgl!NoUpdateLost'
      BY <2>2, <2>5, <3>3, <3>4, <3>6 DEF Lvgl!NoUpdateLost, Lvgl!Counted, p
    <3>. QED  BY <1>0, <2>2, <2>5, <3>2, <3>3, <3>4, <3>7 DEF LvglInv
  <2>7. CASE ~(due > 0)
    <3>1. mem' = [mem EXCEPT !.sleep_ms = sleep, !.counter_due_ms = Second, !.counter_label = label, !.uptime_s = up]
      BY <2>2, <2>7
    <3>0. mem.counter_due_ms <= sleep
      BY <1>0, <2>3, <2>7
    <3>u. up # 0 /\ label = up - 1
      BY <1>0
    <3>. HIDE DEF due, label, up
    <3>2. mem' \in LvglMem
      BY <1>0, <2>3, <2>4, <3>1, Zenon DEF LvglMem
    <3>3. mem'.counter_due_ms = Second /\ mem'.sleep_ms = sleep /\ mem'.uptime_s = up /\ mem'.counter_label = label
      BY <1>0, <3>1 DEF LvglMem
    <3>. DEFINE p == label * Second
    <3>4. p \in Int
      BY <2>4, LvglTimes
    <3>5. p <= seen + sleep
      <4>1. CASE label = 0
        <5>1. p = 0
          BY <4>1, LvglTimes
        <5>. QED  BY <1>0, <2>3, <5>1, LvglTimes
      <4>2. CASE label # 0
        <5>. DEFINE q == mem.counter_label * Second
        <5>1. mem.counter_label = label - 1
          BY <4>2 DEF LvglInv, label
        <5>2. q = p - Second /\ q \in Int
          BY <1>0, <2>4, <5>1, LvglTimes
        <5>3. q + Second - mem.counter_due_ms <= seen + 0
          BY <2>2, <4>2 DEF LvglInv, Lvgl!NoUpdateLost, Lvgl!Counted, label
        <5>. HIDE DEF p, q
        <5>. QED  BY <1>0, <2>3, <3>0, <3>4, <5>2, <5>3, LvglTimes
      <4>. QED  BY <4>1, <4>2
    <3>6. p + Second - Second <= seen + sleep
      <4>. HIDE DEF p
      <4>. QED  BY <3>4, <3>5, LvglTimes
    <3>7. Lvgl!NoUpdateLost'
      BY <2>2, <2>5, <3>3, <3>u, <3>6 DEF Lvgl!NoUpdateLost, Lvgl!Counted
    <3>. QED  BY <1>0, <2>2, <2>5, <3>2, <3>3, <3>u, <3>7 DEF LvglInv
  <2>. QED  BY <2>6, <2>7
<1>4. CASE Lvgl!Sleep
  <2>1. PICK late \in 0 .. 1 :
          /\ seen + mem.sleep_ms + late <= MaxElapsed
          /\ Lvgl!Go("demo", "sleep", "handle")
          /\ seen' = seen + mem.sleep_ms + late
          /\ UNCHANGED mem
    BY <1>4 DEF Lvgl!Sleep
  <2>2. PcType' /\ pc'.demo = "handle" /\ pc.demo = "sleep"
    BY <1>0, <2>1 DEF Lvgl!Go
  <2>3. seen' \in 0 .. MaxElapsed /\ seen + mem.sleep_ms <= seen' + 0
    BY <1>0, <2>1, LvglTimes
  <2>4. Lvgl!Counted \in Int /\ Lvgl!Counted <= seen + mem.sleep_ms
    <3>1. mem.counter_label * Second \in Int
      BY <1>0, LvglTimes
    <3>2. Lvgl!Counted \in Int
      BY <1>0, <3>1, LvglTimes DEF Lvgl!Counted
    <3>. QED  BY <2>2, <3>2 DEF LvglInv, Lvgl!NoUpdateLost
  <2>5. Lvgl!Counted' = Lvgl!Counted
    BY <2>1 DEF Lvgl!Counted
  <2>6. Lvgl!NoUpdateLost'
    <3>1. Lvgl!Counted <= seen' + 0
      <4>. DEFINE c == Lvgl!Counted
      <4>1. c \in Int /\ c <= seen + mem.sleep_ms /\ seen + mem.sleep_ms <= seen' + 0 /\ seen' \in Int
        BY <2>3, <2>4
      <4>. HIDE DEF c
      <4>. DEFINE x == seen + mem.sleep_ms
                  y == seen' + 0
      <4>2. x \in Int /\ y \in Int /\ c <= x /\ x <= y
        BY <1>0, <4>1, LvglTimes
      <4>. HIDE DEF x, y
      <4>4. c <= y
        BY <4>1, <4>2
      <4>3. c <= seen' + 0
        BY <4>4 DEF y
      <4>. QED  BY <4>3 DEF c
    <3>. QED  BY <2>2, <2>5, <3>1 DEF Lvgl!NoUpdateLost
  <2>. QED  BY <2>1, <2>2, <2>3, <2>6 DEF LvglInv
<1>. QED  BY <1>1, <1>2, <1>3, <1>4 DEF Lvgl!Step

-----------------------------------------------------------------------------
(* package_fifo                                                              *)

FifoSlots == 0 .. PoolSize - 1

FifoMem ==
  [item_pool : [FifoSlots -> 0 .. Wrap - 1], fifo : Seq(FifoSlots), item : FifoSlots,
   tick : 0 .. Wrap - 1, slot : FifoSlots, left : [producer : 0 .. Period, consumer : 0 .. WorkTime],
   held : 0 .. MaxHeld]

\* The number of the k-th item that is not yet read, counted from 0, ...
Unread(k) == (seen + k) % Wrap
\* ... and what it takes for it to be in slot s.
InSlot(s, k) == s = Unread(k) % PoolSize /\ mem.item_pool[s] = Unread(k)

FifoReading == IF pc.consumer = "read" THEN 1 ELSE 0
FifoFilled  == IF pc.producer = "put" THEN 1 ELSE 0
FifoItems   == FifoReading + Len(mem.fifo)

\* Why nobody has to tell the producer: an item costs it a whole period, and
\* the consumer, which needs less than that, falls behind only while others keep
\* it from the CPU.
FifoCredit == FifoItems * Period + mem.left.consumer <= mem.held + mem.left.producer

FifoInv ==
  /\ mem \in FifoMem
  /\ pc \in [producer : {"fill", "put"}, consumer : {"get", "read"}]
  /\ seen \in 0 .. Wrap - 1
  /\ pc.consumer = "read" => mem.left.consumer = 0
  /\ pc.producer = "put" => mem.left.producer = 0
  /\ FifoCredit
  /\ mem.tick = Unread(FifoItems + FifoFilled)
  /\ pc.consumer = "read" => InSlot(mem.item, 0)
  /\ \A i \in 1 .. Len(mem.fifo) : InSlot(mem.fifo[i], FifoReading + i - 1)
  /\ pc.producer = "put" => InSlot(mem.slot, FifoItems)

LEMMA FifoSizes ==
  /\ PoolSize \in Nat \ {0} /\ Wrap \in Nat \ {0, 1} /\ Wrap % PoolSize = 0 /\ PoolSize <= Wrap
  /\ Period \in Nat /\ WorkTime \in Nat /\ MaxHeld \in Nat /\ WorkTime < Period
  /\ MaxHeld + WorkTime < (PoolSize - 1) * Period
<1>1. /\ PoolSize \in Nat \ {0} /\ Wrap \in Nat \ {0, 1} /\ Wrap % PoolSize = 0
      /\ Period \in Nat /\ WorkTime \in Nat /\ MaxHeld \in Nat /\ WorkTime < Period
      /\ MaxHeld + WorkTime < (PoolSize - 1) * Period
  BY ProgramAssumptions DEF Fifo!SlotsSuffice, Kmutex!WrapAssumption
<1>2. ~(Wrap < PoolSize)
  BY <1>1, ModSmall
<1>. QED  BY <1>1, <1>2

LEMMA FewItems ==
  ASSUME NEW q \in Int, NEW n \in Int, NEW p \in Nat \ {0}, NEW x \in Int, q * p <= x, x < n * p
  PROVE  q < n
<1>. SUFFICES ASSUME q >= n PROVE FALSE
  OBVIOUS
<1>1. q * p >= n * p
  OBVIOUS
<1>. DEFINE y == q * p
            z == n * p
<1>2. y \in Int /\ z \in Int /\ y >= z /\ y <= x /\ x < z
  BY <1>1
<1>. HIDE DEF y, z
<1>. QED  BY <1>2

\* There are fewer items than slots, and one fewer still when the producer may fill.
LEMMA FifoFewItems ==
  ASSUME FifoInv
  PROVE  /\ FifoItems \in Nat /\ FifoItems < PoolSize
         /\ mem.left.producer = 0 => FifoItems < PoolSize - 1
<1>1. /\ mem.fifo \in Seq(FifoSlots) /\ mem.left.producer \in 0 .. Period /\ mem.left.consumer \in 0 .. WorkTime
      /\ mem.held \in 0 .. MaxHeld
  BY DEF FifoInv, FifoMem
<1>2. FifoItems \in Nat
  <2>. DEFINE n == Len(mem.fifo)
  <2>1. n \in Nat /\ FifoReading \in 0 .. 1 /\ FifoItems = FifoReading + n
    BY <1>1 DEF FifoItems, FifoReading
  <2>. HIDE DEF n
  <2>. QED  BY <2>1
<1>. DEFINE q == FifoItems
            y == q * Period
            z == (PoolSize - 1) * Period
<1>3. y \in Int /\ y + mem.left.consumer <= mem.held + mem.left.producer
  BY <1>2, FifoSizes DEF FifoInv, FifoCredit
<1>4. z \in Int /\ MaxHeld + WorkTime < z /\ PoolSize * Period = z + Period
  BY FifoSizes
<1>5. ASSUME mem.left.producer = 0 PROVE q < PoolSize - 1
  <2>1. y < z
    <3>. HIDE DEF y, z
    <3>. QED  BY <1>1, <1>3, <1>4, <1>5, FifoSizes
  <2>. HIDE DEF q
  <2>. QED  BY <1>2, <2>1, FewItems, FifoSizes DEF q
<1>6. q < PoolSize
  <2>1. y < z + Period
    <3>. HIDE DEF y, z
    <3>. QED  BY <1>1, <1>3, <1>4, FifoSizes
  <2>2. y < PoolSize * Period
    BY <1>4, <2>1
  <2>. HIDE DEF q
  <2>. QED  BY <1>2, <2>2, FewItems, FifoSizes DEF q
<1>. QED  BY <1>2, <1>5, <1>6

\* Unread items less than a pool apart have different numbers and different slots.
LEMMA UnreadRange ==
  ASSUME seen \in 0 .. Wrap - 1, NEW k \in 0 .. PoolSize
  PROVE  /\ Unread(k) \in 0 .. Wrap - 1 /\ Unread(k) % PoolSize \in FifoSlots
         /\ Unread(k) % PoolSize = (seen + k) % PoolSize
<1>1. seen + k \in Nat
  BY FifoSizes
<1>2. Unread(k) \in 0 .. Wrap - 1
  BY <1>1, FifoSizes, ModRange DEF Unread
<1>3. Unread(k) % PoolSize \in FifoSlots
  BY <1>2, FifoSizes, ModRange DEF FifoSlots
<1>4. seen + k \in 0 .. Wrap + Wrap - 1
  BY FifoSizes
<1>5. ((seen + k) % Wrap) % PoolSize = (seen + k) % PoolSize
  <2>. DEFINE a == seen + k
  <2>1. a \in 0 .. Wrap + Wrap - 1
    BY <1>4
  <2>. HIDE DEF a
  <2>2. Wrap \in Nat \ {0} /\ PoolSize \in Nat \ {0} /\ Wrap % PoolSize = 0
    BY FifoSizes
  <2>3. (a % Wrap) % PoolSize = a % PoolSize
    BY <2>1, <2>2, ModOfMod
  <2>. QED  BY <2>3 DEF a
<1>. QED  BY <1>2, <1>3, <1>5 DEF Unread

LEMMA UnreadDiffer ==
  ASSUME seen \in 0 .. Wrap - 1, NEW k \in 0 .. PoolSize - 1, NEW l \in 0 .. PoolSize - 1, k < l
  PROVE  Unread(k) % PoolSize # Unread(l) % PoolSize
<1>1. /\ Unread(k) % PoolSize = (seen + k) % PoolSize
      /\ Unread(l) % PoolSize = (seen + l) % PoolSize
  <2>1. k \in 0 .. PoolSize /\ l \in 0 .. PoolSize
    BY FifoSizes
  <2>. QED  BY <2>1, UnreadRange
<1>2. seen + k \in Nat /\ seen + l \in Nat /\ seen + k < seen + l /\ seen + l < (seen + k) + PoolSize
  BY FifoSizes
<1>3. (seen + k) % PoolSize # (seen + l) % PoolSize
  BY <1>2, FifoSizes, ModDiffers
<1>. QED  BY <1>1, <1>3

LEMMA UnreadNext ==
  ASSUME seen \in 0 .. Wrap - 1, NEW k \in 0 .. PoolSize - 1
  PROVE  (Unread(k) + 1) % Wrap = Unread(k + 1)
<1>1. k \in 0 .. Wrap - 1 /\ seen + (k + 1) = seen + k + 1
  BY FifoSizes
<1>2. (((seen + k) % Wrap) + 1) % Wrap = (seen + k + 1) % Wrap
  BY <1>1, FifoSizes, ModNext
<1>. QED  BY <1>1, <1>2 DEF Unread

\* After one more item has been read.
LEMMA UnreadRead ==
  ASSUME seen \in 0 .. Wrap - 1, NEW k \in 0 .. PoolSize - 1
  PROVE  (((seen + 1) % Wrap) + k) % Wrap = Unread(k + 1)
<1>1. k \in 0 .. Wrap - 1 /\ seen + (k + 1) = seen + 1 + k
  BY FifoSizes
<1>2. (((seen + 1) % Wrap) + k) % Wrap = (seen + 1 + k) % Wrap
  BY <1>1, FifoSizes, ModAfter
<1>. QED  BY <1>1, <1>2 DEF Unread

LEMMA FifoInit == Fifo!Init => FifoInv
<1>. SUFFICES ASSUME Fifo!Init PROVE FifoInv
  OBVIOUS
<1>. DEFINE pool == [s \in 0 .. PoolSize - 1 |-> 0]
            left == [producer |-> Period, consumer |-> 0]
<1>1. /\ pool \in [FifoSlots -> 0 .. Wrap - 1] /\ left \in [producer : 0 .. Period, consumer : 0 .. WorkTime]
      /\ 0 \in FifoSlots /\ 0 \in 0 .. Wrap - 1 /\ 0 \in 0 .. MaxHeld /\ <<>> \in Seq(FifoSlots)
  BY FifoSizes, EmptySeq DEF FifoSlots
<1>2. /\ mem = [item_pool |-> pool, fifo |-> <<>>, item |-> 0, tick |-> 0, slot |-> 0, left |-> left, held |-> 0]
      /\ pc = [producer |-> "fill", consumer |-> "get"] /\ seen = 0
  BY DEF Fifo!Init
<1>3. mem.left.producer = Period /\ mem.left.consumer = 0 /\ mem.held = 0
  BY <1>2
<1>. HIDE DEF pool, left
<1>4. mem \in FifoMem
  BY <1>1, <1>2, Zenon DEF FifoMem
<1>5. mem.fifo = <<>> /\ mem.tick = 0 /\ Len(<<>>) = 0
  BY <1>2
<1>6. FifoReading = 0 /\ FifoFilled = 0 /\ FifoItems = 0
  BY <1>2, <1>5 DEF FifoReading, FifoFilled, FifoItems
<1>7. FifoCredit
  BY <1>3, <1>6, FifoSizes DEF FifoCredit
<1>8. mem.tick = Unread(FifoItems + FifoFilled)
  BY <1>2, <1>5, <1>6, FifoSizes, ModSmall DEF Unread
<1>. QED  BY <1>1, <1>2, <1>4, <1>5, <1>7, <1>8 DEF FifoInv

LEMMA FifoInOrder == FifoInv => Fifo!InOrder /\ Fifo!TypeOK
<1>. SUFFICES ASSUME FifoInv PROVE Fifo!InOrder /\ Fifo!TypeOK
  OBVIOUS
<1>1. /\ mem.fifo \in Seq(FifoSlots) /\ Len(mem.fifo) \in Nat /\ mem.item \in FifoSlots
      /\ seen \in 0 .. Wrap - 1
  BY LenProperties DEF FifoInv, FifoMem
<1>2. Fifo!TypeOK
  <2>1. FifoItems < PoolSize /\ FifoItems \in Nat
    BY FifoFewItems
  <2>2. Len(mem.fifo) <= PoolSize
    <3>. DEFINE n == Len(mem.fifo)
    <3>1. n \in Nat /\ FifoReading \in 0 .. 1 /\ FifoItems = FifoReading + n
      BY <1>1 DEF FifoItems, FifoReading
    <3>. HIDE DEF n
    <3>2. n <= PoolSize
      BY <2>1, <3>1, FifoSizes
    <3>. QED  BY <3>2 DEF n
  <2>. QED  BY <2>2 DEF FifoInv, FifoMem, FifoSlots, Fifo!TypeOK
<1>. DEFINE mine == (IF pc.consumer = "read" THEN <<mem.item>> ELSE <<>>) \o mem.fifo
<1>3. ASSUME NEW i \in DOMAIN mine PROVE mem.item_pool[mine[i]] = (seen + i - 1) % Wrap
  <2>1. CASE pc.consumer = "read"
    <3>1. /\ Len(mine) = 1 + Len(mem.fifo) /\ i \in 1 .. 1 + Len(mem.fifo)
          /\ mine[i] = IF i = 1 THEN mem.item ELSE mem.fifo[i - 1]
      <4>1. <<mem.item>> \in Seq(FifoSlots) /\ Len(<<mem.item>>) = 1 /\ <<mem.item>>[1] = mem.item
        BY <1>1
      <4>2. mine = <<mem.item>> \o mem.fifo
        BY <2>1
      <4>. HIDE DEF mine
      <4>3. mine \in Seq(FifoSlots) /\ Len(mine) = 1 + Len(mem.fifo)
        BY <1>1, <4>1, <4>2, ConcatProperties
      <4>4. i \in 1 .. 1 + Len(mem.fifo)
        BY <4>3, LenProperties
      <4>5. mine[i] = IF i <= 1 THEN <<mem.item>>[i] ELSE mem.fifo[i - 1]
        BY <1>1, <4>1, <4>2, <4>4, ConcatProperties
      <4>6. i <= 1 <=> i = 1
        BY <1>1, <4>4
      <4>. QED  BY <4>1, <4>3, <4>4, <4>5, <4>6
    <3>. HIDE DEF mine
    <3>2. CASE i = 1
      <4>1. mem.item_pool[mem.item] = (seen + 0) % Wrap
        BY <2>1 DEF FifoInv, InSlot, Unread
      <4>2. seen + 0 = seen + i - 1
        BY <1>1, <3>2
      <4>. QED  BY <3>1, <3>2, <4>1, <4>2
    <3>3. CASE i # 1
      <4>1. i - 1 \in 1 .. Len(mem.fifo)
        BY <1>1, <3>1, <3>3
      <4>2. InSlot(mem.fifo[i - 1], 1 + (i - 1) - 1)
        BY <2>1, <4>1 DEF FifoInv, FifoReading
      <4>3. seen + (1 + (i - 1) - 1) = seen + i - 1
        BY <1>1, <4>1, <3>1
      <4>. QED  BY <3>1, <3>3, <4>2, <4>3 DEF InSlot, Unread
    <3>. QED  BY <3>2, <3>3
  <2>2. CASE pc.consumer # "read"
    <3>1. mine = mem.fifo
      BY <1>1, <2>2, ConcatEmptySeq
    <3>. HIDE DEF mine
    <3>2. i \in 1 .. Len(mem.fifo)
      BY <1>1, <3>1, LenProperties
    <3>3. InSlot(mem.fifo[i], 0 + i - 1)
      BY <2>2, <3>2 DEF FifoInv, FifoReading
    <3>4. seen + (0 + i - 1) = seen + i - 1
      BY <1>1, <3>2
    <3>. QED  BY <3>1, <3>3, <3>4 DEF InSlot, Unread
  <2>. QED  BY <2>1, <2>2
<1>4. Fifo!InOrder
  BY <1>3 DEF Fifo!InOrder
<1>. QED  BY <1>2, <1>4

LEMMA FifoStep ==
  ASSUME FifoInv, NEW t, Fifo!Step(t)
  PROVE  FifoInv'
<1>. USE DEF Fifo!Go
<1>. DEFINE PcType == pc \in [producer : {"fill", "put"}, consumer : {"get", "read"}]
            q == FifoItems
<1>0. /\ mem \in FifoMem /\ PcType /\ seen \in 0 .. Wrap - 1
      /\ mem.fifo \in Seq(FifoSlots) /\ Len(mem.fifo) \in Nat /\ mem.item \in FifoSlots /\ mem.slot \in FifoSlots
      /\ mem.item_pool \in [FifoSlots -> 0 .. Wrap - 1] /\ mem.tick \in 0 .. Wrap - 1
      /\ mem.left \in [producer : 0 .. Period, consumer : 0 .. WorkTime]
      /\ mem.left.producer \in 0 .. Period /\ mem.left.consumer \in 0 .. WorkTime
      /\ mem.held \in 0 .. MaxHeld
  BY DEF FifoInv, FifoMem
<1>q. /\ q \in Nat /\ q < PoolSize /\ (mem.left.producer = 0 => q < PoolSize - 1)
      /\ q = FifoReading + Len(mem.fifo) /\ FifoReading \in 0 .. 1
  <2>1. FifoReading \in 0 .. 1
    BY DEF FifoReading
  <2>. QED  BY <2>1, FifoFewItems DEF FifoItems
<1>c. FifoItems * Period + mem.left.consumer <= mem.held + mem.left.producer
  BY DEF FifoInv, FifoCredit
<1>i. \A i \in 1 .. Len(mem.fifo) : InSlot(mem.fifo[i], FifoReading + i - 1)
  BY DEF FifoInv
<1>1. CASE Fifo!Fill
  <2>. DEFINE s    == mem.tick % PoolSize
              pool == [mem.item_pool EXCEPT ![s] = mem.tick]
              next == (mem.tick + 1) % Wrap
  <2>1. /\ pc.producer = "fill" /\ pc' = [pc EXCEPT !.producer = "put"] /\ mem.left.producer = 0
        /\ mem' = [mem EXCEPT !.slot = s, !.item_pool = pool, !.tick = next] /\ UNCHANGED seen
    BY <1>0, <1>1 DEF Fifo!Fill, Fifo!Slot, FifoMem
  <2>2. q < PoolSize - 1 /\ q \in 0 .. PoolSize - 1 /\ q \in 0 .. PoolSize /\ q + 0 = q
    BY <1>q, <2>1, FifoSizes
  <2>3. mem.tick = Unread(q) /\ FifoFilled = 0
    BY <2>1, <2>2 DEF FifoInv, FifoFilled
  <2>4. s \in FifoSlots
    BY <1>0, <2>2, <2>3, UnreadRange
  <2>5. next = Unread(q + 1) /\ next \in 0 .. Wrap - 1
    <3>1. q + 1 \in 0 .. PoolSize
      BY <2>2, FifoSizes
    <3>. HIDE DEF q
    <3>2. (Unread(q) + 1) % Wrap = Unread(q + 1) /\ Unread(q + 1) \in 0 .. Wrap - 1
      BY <1>0, <2>2, <3>1, UnreadNext, UnreadRange
    <3>. QED  BY <2>3, <3>2
  <2>6. /\ pool \in [FifoSlots -> 0 .. Wrap - 1] /\ pool[s] = mem.tick
        /\ \A u \in FifoSlots \ {s} : pool[u] = mem.item_pool[u]
    BY <1>0, <2>4
  <2>7. s = Unread(q) % PoolSize
    BY <2>3
  <2>. HIDE DEF s, pool, next, q
  <2>8. mem' \in FifoMem
    BY <1>0, <2>1, <2>4, <2>5, <2>6, Zenon DEF FifoMem
  <2>9. /\ mem'.fifo = mem.fifo /\ mem'.item = mem.item /\ mem'.slot = s /\ mem'.item_pool = pool
        /\ mem'.tick = next /\ mem'.left = mem.left /\ mem'.held = mem.held
    BY <1>0, <2>1 DEF FifoMem
  <2>10. PcType' /\ pc'.producer = "put" /\ pc'.consumer = pc.consumer
    BY <1>0, <2>1
  <2>11. FifoReading' = FifoReading /\ FifoFilled' = 1 /\ FifoItems' = FifoItems
    BY <2>9, <2>10 DEF FifoReading, FifoFilled, FifoItems
  <2>12. ASSUME NEW u \in FifoSlots, NEW k \in 0 .. PoolSize - 1, k < q, InSlot(u, k)
         PROVE  /\ u = ((seen' + k) % Wrap) % PoolSize
                /\ mem'.item_pool[u] = (seen' + k) % Wrap
    <3>1. u # s
      BY <1>0, <2>2, <2>7, <2>12, UnreadDiffer DEF InSlot
    <3>2. pool[u] = mem.item_pool[u]
      BY <2>6, <3>1
    <3>. QED  BY <2>1, <2>9, <2>12, <3>2 DEF InSlot, Unread
  <2>13. ASSUME pc.consumer = "read" PROVE InSlot(mem.item, 0)'
    <3>1. InSlot(mem.item, 0) /\ FifoReading = 1
      BY <2>13 DEF FifoInv, FifoReading
    <3>2. 0 \in 0 .. PoolSize - 1 /\ 0 < q
      BY <1>0, <1>q, <3>1, FifoSizes DEF q
    <3>. DEFINE u == mem.item
    <3>3. u \in FifoSlots /\ InSlot(u, 0) /\ mem'.item = u
      BY <1>0, <2>9, <3>1
    <3>. HIDE DEF u
    <3>4. u = ((seen' + 0) % Wrap) % PoolSize /\ mem'.item_pool[u] = (seen' + 0) % Wrap
      BY <2>12, <3>2, <3>3
    <3>. QED  BY <3>3, <3>4 DEF InSlot, Unread
  <2>14. ASSUME NEW i \in 1 .. Len(mem.fifo) PROVE InSlot(mem.fifo[i], FifoReading + i - 1)'
    <3>. DEFINE k == FifoReading + i - 1
                u == mem.fifo[i]
    <3>1. k \in 0 .. PoolSize - 1 /\ k < q
      <4>. DEFINE n == Len(mem.fifo)
      <4>1. n \in Nat /\ i \in 1 .. n /\ q = FifoReading + n /\ FifoReading \in 0 .. 1 /\ q < PoolSize
        BY <1>0, <1>q DEF q
      <4>. HIDE DEF n
      <4>. QED  BY <4>1, FifoSizes
    <3>2. u \in FifoSlots /\ InSlot(u, k)
      BY <1>0, <1>i, ElementOfSeq
    <3>3. mem'.fifo[i] = u /\ FifoReading' + i - 1 = k
      BY <2>9, <2>11
    <3>. HIDE DEF u, k
    <3>4. u = ((seen' + k) % Wrap) % PoolSize /\ mem'.item_pool[u] = (seen' + k) % Wrap
      BY <2>12, <3>1, <3>2
    <3>. QED  BY <3>3, <3>4 DEF InSlot, Unread
  <2>15. InSlot(mem.slot, FifoItems)'
    <3>1. Unread(FifoItems)' = Unread(q)
      BY <2>1, <2>11 DEF Unread, q
    <3>. QED  BY <2>3, <2>6, <2>7, <2>9, <3>1 DEF InSlot
  <2>16. mem'.tick = Unread(FifoItems + FifoFilled)'
    BY <2>1, <2>5, <2>9, <2>11 DEF Unread, q
  <2>17. FifoCredit'
    BY <1>c, <2>9, <2>11 DEF FifoCredit
  <2>18. (pc.consumer = "read" => mem.left.consumer = 0)'
    BY <2>9, <2>10 DEF FifoInv
  <2>. QED  BY <1>0, <2>1, <2>8, <2>9, <2>10, <2>13, <2>14, <2>15, <2>16, <2>17, <2>18 DEF FifoInv
<1>2. CASE Fifo!Put
  <2>. DEFINE f == Append(mem.fifo, mem.slot)
              l == [mem.left EXCEPT !.producer = Period]
  <2>1. /\ pc.producer = "put" /\ pc' = [pc EXCEPT !.producer = "fill"]
        /\ mem' = [mem EXCEPT !.fifo = f, !.left = l] /\ UNCHANGED seen
    BY <1>0, <1>2 DEF Fifo!Put, FifoMem
  <2>2. /\ f \in Seq(FifoSlots) /\ Len(f) = Len(mem.fifo) + 1 /\ f[Len(mem.fifo) + 1] = mem.slot
        /\ \A i \in 1 .. Len(mem.fifo) : f[i] = mem.fifo[i]
    BY <1>0
  <2>3. /\ l \in [producer : 0 .. Period, consumer : 0 .. WorkTime]
        /\ l.producer = Period /\ l.consumer = mem.left.consumer
    <3>. DEFINE old == mem.left
    <3>1. old \in [producer : 0 .. Period, consumer : 0 .. WorkTime] /\ Period \in 0 .. Period
      BY <1>0, FifoSizes
    <3>. HIDE DEF old
    <3>2. [old EXCEPT !.producer = Period] \in [producer : 0 .. Period, consumer : 0 .. WorkTime]
      BY <3>1, Zenon
    <3>3. [old EXCEPT !.producer = Period].producer = Period /\ [old EXCEPT !.producer = Period].consumer = old.consumer
      BY <3>1
    <3>. QED  BY <3>2, <3>3 DEF old
  <2>. HIDE DEF f, l, q
  <2>4. mem' \in FifoMem
    BY <1>0, <2>1, <2>2, <2>3, Zenon DEF FifoMem
  <2>5. /\ mem'.fifo = f /\ mem'.item = mem.item /\ mem'.item_pool = mem.item_pool
        /\ mem'.tick = mem.tick /\ mem'.left = l /\ mem'.held = mem.held
    BY <1>0, <2>1 DEF FifoMem
  <2>6. PcType' /\ pc'.producer = "fill" /\ pc'.consumer = pc.consumer
    BY <1>0, <2>1
  <2>7. FifoReading' = FifoReading /\ FifoFilled' = 0 /\ FifoFilled = 1 /\ FifoItems' = q + 1
    <3>1. FifoReading' = FifoReading /\ FifoFilled' = 0 /\ FifoFilled = 1
      BY <2>1, <2>6 DEF FifoReading, FifoFilled
    <3>2. FifoItems' = FifoReading + (Len(mem.fifo) + 1)
      BY <2>2, <2>5, <3>1 DEF FifoItems
    <3>. QED  BY <1>0, <1>q, <3>1, <3>2 DEF q
  <2>8. mem.left.producer = 0
    BY <2>1 DEF FifoInv
  <2>9. FifoCredit'
    <3>. DEFINE y == q * Period
    <3>1. y \in Int /\ (q + 1) * Period = y + Period
      BY <1>q, FifoSizes DEF q
    <3>2. y + mem.left.consumer <= mem.held + 0
      BY <1>c, <2>8 DEF q
    <3>. HIDE DEF y
    <3>3. (y + Period) + mem.left.consumer <= mem.held + Period
      <4>. DEFINE c == mem.left.consumer
                  h == mem.held
      <4>1. c \in Int /\ h \in Int /\ y + c <= h + 0
        BY <1>0, <3>2
      <4>. HIDE DEF c, h
      <4>2. (y + Period) + c <= h + Period
        BY <3>1, <4>1, FifoSizes
      <4>. QED  BY <4>2 DEF c, h
    <3>. QED  BY <2>3, <2>5, <2>7, <3>1, <3>3 DEF FifoCredit
  <2>11. ASSUME NEW i \in 1 .. Len(f) PROVE InSlot(f[i], FifoReading + i - 1)
    <3>1. CASE i \in 1 .. Len(mem.fifo)
      BY <1>i, <2>2, <3>1
    <3>2. CASE i = Len(mem.fifo) + 1
      <4>1. FifoReading + i - 1 = FifoItems
        BY <1>0, <1>q, <3>2 DEF q
      <4>. QED  BY <2>1, <2>2, <3>2, <4>1 DEF FifoInv
    <3>. QED  BY <1>0, <2>2, <3>1, <3>2
  <2>12. (\A i \in 1 .. Len(mem.fifo) : InSlot(mem.fifo[i], FifoReading + i - 1))'
    BY <2>1, <2>5, <2>7, <2>11 DEF InSlot, Unread
  <2>13. (pc.consumer = "read" => InSlot(mem.item, 0))'
    BY <2>1, <2>5, <2>6 DEF FifoInv, InSlot, Unread
  <2>14. mem'.tick = Unread(FifoItems + FifoFilled)'
    <3>1. mem.tick = Unread(q + 1)
      BY <2>7 DEF FifoInv, q
    <3>2. (q + 1) + 0 = q + 1
      BY <1>q DEF q
    <3>. QED  BY <2>1, <2>5, <2>7, <3>1, <3>2 DEF Unread
  <2>15. (pc.consumer = "read" => mem.left.consumer = 0)'
    BY <2>3, <2>5, <2>6 DEF FifoInv
  <2>. QED  BY <1>0, <2>1, <2>4, <2>6, <2>9, <2>12, <2>13, <2>14, <2>15 DEF FifoInv
<1>3. CASE Fifo!Get
  <2>. DEFINE h == Head(mem.fifo)
              f == Tail(mem.fifo)
  <2>1. /\ pc.consumer = "get" /\ pc' = [pc EXCEPT !.consumer = "read"] /\ mem.left.consumer = 0
        /\ mem.fifo # <<>> /\ mem' = [mem EXCEPT !.item = h, !.fifo = f] /\ UNCHANGED seen
    BY <1>3 DEF Fifo!Get
  <2>2. /\ h \in FifoSlots /\ f \in Seq(FifoSlots) /\ Len(mem.fifo) > 0
        /\ Len(f) = Len(mem.fifo) - 1 /\ h = mem.fifo[1]
        /\ \A i \in 1 .. Len(f) : f[i] = mem.fifo[i + 1]
    BY <1>0, <2>1
  <2>. HIDE DEF h, f, q
  <2>3. mem' \in FifoMem
    BY <1>0, <2>1, <2>2, Zenon DEF FifoMem
  <2>4. /\ mem'.fifo = f /\ mem'.item = h /\ mem'.item_pool = mem.item_pool /\ mem'.slot = mem.slot
        /\ mem'.tick = mem.tick /\ mem'.left = mem.left /\ mem'.held = mem.held
    BY <1>0, <2>1 DEF FifoMem
  <2>5. PcType' /\ pc'.consumer = "read" /\ pc'.producer = pc.producer
    BY <1>0, <2>1
  <2>6. FifoReading = 0 /\ FifoReading' = 1 /\ FifoFilled' = FifoFilled /\ FifoItems' = FifoItems
    <3>1. FifoReading = 0 /\ FifoReading' = 1 /\ FifoFilled' = FifoFilled
      BY <2>1, <2>5 DEF FifoReading, FifoFilled
    <3>2. FifoItems' = 1 + (Len(mem.fifo) - 1) /\ FifoItems = 0 + Len(mem.fifo)
      BY <2>2, <2>4, <3>1 DEF FifoItems
    <3>. QED  BY <1>0, <3>1, <3>2
  <2>7. FifoCredit'
    BY <1>c, <2>4, <2>6 DEF FifoCredit
  <2>8. InSlot(h, 0)
    <3>1. 1 \in 1 .. Len(mem.fifo) /\ 0 + 1 - 1 = 0
      BY <1>0, <2>2
    <3>. QED  BY <1>i, <2>2, <2>6, <3>1
  <2>9. ASSUME NEW i \in 1 .. Len(f) PROVE InSlot(f[i], 1 + i - 1)
    <3>1. i + 1 \in 1 .. Len(mem.fifo) /\ 0 + (i + 1) - 1 = 1 + i - 1
      BY <1>0, <2>2
    <3>. QED  BY <1>i, <2>2, <2>6, <3>1
  <2>10. (\A i \in 1 .. Len(mem.fifo) : InSlot(mem.fifo[i], FifoReading + i - 1))'
    BY <2>1, <2>4, <2>6, <2>9 DEF InSlot, Unread
  <2>11. InSlot(mem.item, 0)'
    BY <2>1, <2>4, <2>8 DEF InSlot, Unread
  <2>12. (pc.producer = "put" => InSlot(mem.slot, FifoItems))'
    BY <2>1, <2>4, <2>5, <2>6 DEF FifoInv, InSlot, Unread
  <2>13. mem'.tick = Unread(FifoItems + FifoFilled)'
    BY <2>1, <2>4, <2>6 DEF FifoInv, Unread
  <2>14. (pc.producer = "put" => mem.left.producer = 0)' /\ mem'.left.consumer = 0
    BY <2>1, <2>4, <2>5 DEF FifoInv
  <2>. QED  BY <1>0, <2>1, <2>3, <2>5, <2>7, <2>10, <2>11, <2>12, <2>13, <2>14 DEF FifoInv
<1>4. CASE Fifo!Read
  <2>. DEFINE l == [mem.left EXCEPT !.consumer = WorkTime]
  <2>1. /\ pc.consumer = "read" /\ pc' = [pc EXCEPT !.consumer = "get"]
        /\ mem' = [mem EXCEPT !.left = l] /\ seen' = (seen + 1) % Wrap
    BY <1>0, <1>4 DEF Fifo!Read, FifoMem
  <2>2. /\ l \in [producer : 0 .. Period, consumer : 0 .. WorkTime]
        /\ l.producer = mem.left.producer /\ l.consumer = WorkTime
    <3>. DEFINE old == mem.left
    <3>1. old \in [producer : 0 .. Period, consumer : 0 .. WorkTime] /\ WorkTime \in 0 .. WorkTime
      BY <1>0, FifoSizes
    <3>. HIDE DEF old
    <3>2. [old EXCEPT !.consumer = WorkTime] \in [producer : 0 .. Period, consumer : 0 .. WorkTime]
      BY <3>1, Zenon
    <3>3. [old EXCEPT !.consumer = WorkTime].consumer = WorkTime /\ [old EXCEPT !.consumer = WorkTime].producer = old.producer
      BY <3>1
    <3>. QED  BY <3>2, <3>3 DEF old
  <2>. HIDE DEF l, q
  <2>3. mem' \in FifoMem
    BY <1>0, <2>1, <2>2, Zenon DEF FifoMem
  <2>4. /\ mem'.fifo = mem.fifo /\ mem'.item_pool = mem.item_pool /\ mem'.slot = mem.slot
        /\ mem'.tick = mem.tick /\ mem'.left = l /\ mem'.held = mem.held
    BY <1>0, <2>1 DEF FifoMem
  <2>5. PcType' /\ pc'.consumer = "get" /\ pc'.producer = pc.producer
    BY <1>0, <2>1
  <2>6. seen' \in 0 .. Wrap - 1
    <3>1. seen + 1 \in Nat
      BY <1>0, FifoSizes
    <3>. QED  BY <2>1, <3>1, FifoSizes, ModRange
  <2>7. /\ FifoReading = 1 /\ FifoReading' = 0 /\ FifoFilled' = FifoFilled
        /\ FifoItems' = Len(mem.fifo) /\ q = FifoItems' + 1
    <3>1. FifoReading = 1 /\ FifoReading' = 0 /\ FifoFilled' = FifoFilled
      BY <2>1, <2>5 DEF FifoReading, FifoFilled
    <3>2. FifoItems' = 0 + Len(mem.fifo)
      BY <2>4, <3>1 DEF FifoItems
    <3>. QED  BY <1>0, <1>q, <3>1, <3>2 DEF q
  <2>8. mem.left.consumer = 0
    BY <2>1 DEF FifoInv
  <2>9. FifoCredit'
    <3>. DEFINE n == Len(mem.fifo)
                y == n * Period
    <3>1. n \in Nat /\ q = n + 1
      BY <1>0, <2>7
    <3>. HIDE DEF n
    <3>2. y \in Int /\ q * Period = y + Period
      BY <3>1, FifoSizes
    <3>3. (y + Period) + 0 <= mem.held + mem.left.producer
      BY <1>c, <2>8, <3>2 DEF q
    <3>. HIDE DEF y
    <3>4. y + WorkTime <= mem.held + mem.left.producer
      BY <1>0, <3>2, <3>3, FifoSizes
    <3>. QED  BY <2>2, <2>4, <2>7, <3>4 DEF FifoCredit, y, n
  <2>10. ASSUME NEW k \in 0 .. PoolSize - 1 PROVE Unread(k)' = Unread(k + 1)
    BY <1>0, <2>1, <2>10, UnreadRead DEF Unread
  <2>11. ASSUME NEW u, NEW k \in 0 .. PoolSize - 1, InSlot(u, k + 1)
         PROVE  u = Unread(k)' % PoolSize /\ mem'.item_pool[u] = Unread(k)'
    BY <2>4, <2>10, <2>11 DEF InSlot
  <2>12. ASSUME NEW i \in 1 .. Len(mem.fifo) PROVE InSlot(mem.fifo[i], FifoReading + i - 1)'
    <3>. DEFINE k == i - 1
                u == mem.fifo[i]
    <3>1. k \in 0 .. PoolSize - 1 /\ k + 1 = 1 + i - 1 /\ 0 + i - 1 = k
      BY <1>0, <1>q, <2>7, FifoSizes DEF q
    <3>2. InSlot(u, k + 1)
      BY <1>i, <2>7, <3>1
    <3>. HIDE DEF u, k
    <3>3. u = Unread(k)' % PoolSize /\ mem'.item_pool[u] = Unread(k)'
      BY <2>11, <3>1, <3>2
    <3>4. (mem.fifo[i])' = u /\ (FifoReading + i - 1)' = k
      BY <2>4, <2>7, <3>1 DEF u
    <3>. QED  BY <3>3, <3>4 DEF InSlot, Unread
  <2>13. ASSUME pc.producer = "put" PROVE InSlot(mem.slot, FifoItems)'
    <3>. DEFINE k == FifoItems'
    <3>1. k \in 0 .. PoolSize - 1 /\ k + 1 = FifoItems
      BY <1>0, <1>q, <2>7, FifoSizes DEF q
    <3>2. InSlot(mem.slot, FifoItems)
      BY <2>13 DEF FifoInv
    <3>3. Unread(FifoItems)' = Unread(FifoItems)
      <4>1. (((seen + 1) % Wrap) + k) % Wrap = Unread(k + 1)
        BY <1>0, <3>1, UnreadRead
      <4>. QED  BY <2>1, <3>1, <4>1 DEF Unread
    <3>. QED  BY <2>4, <3>2, <3>3 DEF InSlot
  <2>14. mem'.tick = Unread(FifoItems + FifoFilled)'
    <3>. DEFINE k == FifoItems' + FifoFilled
    <3>0. FifoFilled \in 0 .. 1 /\ (FifoFilled = 1 => mem.left.producer = 0)
      BY DEF FifoFilled, FifoInv
    <3>1. k \in 0 .. PoolSize - 1 /\ k + 1 = FifoItems + FifoFilled
      BY <1>0, <1>q, <2>7, <3>0, FifoSizes DEF q
    <3>2. k = (FifoItems + FifoFilled)'
      BY <2>7
    <3>. HIDE DEF k
    <3>3. (((seen + 1) % Wrap) + k) % Wrap = Unread(k + 1)
      BY <1>0, <3>1, UnreadRead
    <3>4. mem.tick = Unread(FifoItems + FifoFilled)
      BY DEF FifoInv
    <3>. QED  BY <2>1, <2>4, <3>1, <3>2, <3>3, <3>4 DEF Unread
  <2>15. (pc.producer = "put" => mem.left.producer = 0)'
    BY <2>2, <2>4, <2>5 DEF FifoInv
  <2>16. pc'.consumer # "read" /\ mem'.fifo = mem.fifo
    BY <2>4, <2>5
  <2>. QED  BY <2>3, <2>5, <2>6, <2>9, <2>12, <2>13, <2>14, <2>15, <2>16 DEF FifoInv
<1>5. CASE Fifo!Tick
  <2>. DEFINE waits    == pc.consumer = "get" /\ mem.left.consumer = 0 /\ mem.fifo = <<>>
              runnable == mem.left.consumer = 0 /\ ~waits
              h == IF runnable THEN mem.held + 1 ELSE IF waits THEN 0 ELSE mem.held
              l == [producer |-> Fifo!Less(mem.left.producer), consumer |-> Fifo!Less(mem.left.consumer)]
  <2>1. /\ mem.left.producer > 0 /\ (runnable => mem.held < MaxHeld)
        /\ mem' = [mem EXCEPT !.left = l, !.held = h] /\ UNCHANGED <<pc, seen>>
    BY <1>0, <1>5 DEF Fifo!Tick, FifoMem
  <2>2. /\ l \in [producer : 0 .. Period, consumer : 0 .. WorkTime]
        /\ l.producer = mem.left.producer - 1
        /\ l.consumer = IF mem.left.consumer = 0 THEN 0 ELSE mem.left.consumer - 1
    <3>. DEFINE a == mem.left.producer
                b == mem.left.consumer
    <3>1. a \in 0 .. Period /\ b \in 0 .. WorkTime /\ a > 0
      BY <1>0, <2>1
    <3>. HIDE DEF a, b
    <3>2. Fifo!Less(a) \in 0 .. Period /\ Fifo!Less(a) = a - 1
      BY <3>1, FifoSizes DEF Fifo!Less
    <3>3. Fifo!Less(b) \in 0 .. WorkTime /\ Fifo!Less(b) = IF b = 0 THEN 0 ELSE b - 1
      BY <3>1, FifoSizes DEF Fifo!Less
    <3>. QED  BY <3>2, <3>3 DEF a, b
  <2>3. h \in 0 .. MaxHeld
    <3>1. mem.held \in 0 .. MaxHeld /\ (runnable => mem.held < MaxHeld)
      BY <1>0, <2>1
    <3>. HIDE DEF runnable, waits
    <3>. QED  BY <3>1, FifoSizes
  <2>4. waits => q = 0
    BY <1>q DEF FifoReading
  <2>5. /\ mem.left.consumer # 0 => h = mem.held
        /\ mem.left.consumer = 0 /\ ~waits => h = mem.held + 1
        /\ waits => h = 0
    OBVIOUS
  <2>. HIDE DEF l, h, q
  <2>6. mem' \in FifoMem
    BY <1>0, <2>1, <2>2, <2>3, Zenon DEF FifoMem
  <2>7. /\ mem'.fifo = mem.fifo /\ mem'.item = mem.item /\ mem'.item_pool = mem.item_pool
        /\ mem'.slot = mem.slot /\ mem'.tick = mem.tick /\ mem'.left = l /\ mem'.held = h
    BY <1>0, <2>1 DEF FifoMem
  <2>8. FifoReading' = FifoReading /\ FifoFilled' = FifoFilled /\ FifoItems' = FifoItems
    BY <2>1, <2>7 DEF FifoReading, FifoFilled, FifoItems
  <2>9. FifoCredit'
    <3>. DEFINE y == q * Period
    <3>1. y \in Int /\ y + mem.left.consumer <= mem.held + mem.left.producer /\ (q = 0 => y = 0)
      BY <1>c, <1>q, FifoSizes DEF q
    <3>2. waits => y = 0 /\ mem.left.consumer = 0
      BY <2>4, <3>1
    <3>. HIDE DEF y, waits
    <3>3. y + l.consumer <= h + l.producer
      <4>. DEFINE a == mem.left.producer
                  b == mem.left.consumer
                  c == l.producer
                  d == l.consumer
      <4>1. /\ a \in Nat /\ b \in Nat /\ a > 0 /\ c = a - 1 /\ d = IF b = 0 THEN 0 ELSE b - 1
            /\ mem.held \in Nat /\ h \in Nat /\ y + b <= mem.held + a
            /\ (b # 0 => h = mem.held) /\ (b = 0 /\ ~waits => h = mem.held + 1)
            /\ (waits => h = 0 /\ y = 0 /\ b = 0)
        <5>1. a \in Nat /\ b \in Nat /\ a > 0 /\ mem.held \in Nat /\ h \in Nat
          BY <1>0, <2>1, <2>3, FifoSizes
        <5>2. c = a - 1 /\ d = IF b = 0 THEN 0 ELSE b - 1
          BY <2>2
        <5>3. y + b <= mem.held + a
          BY <3>1
        <5>4. (b # 0 => h = mem.held) /\ (b = 0 /\ ~waits => h = mem.held + 1) /\ (waits => h = 0)
          BY <2>5
        <5>5. waits => y = 0 /\ b = 0
          BY <3>2
        <5>. QED  BY <5>1, <5>2, <5>3, <5>4, <5>5
      <4>. HIDE DEF a, b, c, d
      <4>2. y + d <= h + c
        BY <3>1, <4>1
      <4>. QED  BY <4>2 DEF c, d
    <3>. QED  BY <2>7, <2>8, <3>3 DEF FifoCredit, y, q
  <2>10. (\A i \in 1 .. Len(mem.fifo) : InSlot(mem.fifo[i], FifoReading + i - 1))'
    BY <1>i, <2>1, <2>7, <2>8 DEF InSlot, Unread
  <2>11. /\ (pc.consumer = "read" => InSlot(mem.item, 0))'
         /\ (pc.producer = "put" => InSlot(mem.slot, FifoItems))'
         /\ (mem.tick = Unread(FifoItems + FifoFilled))'
    BY <2>1, <2>7, <2>8 DEF FifoInv, InSlot, Unread
  <2>12. (pc.consumer = "read" => mem.left.consumer = 0)'
    BY <2>1, <2>2, <2>7 DEF FifoInv
  <2>13. pc.producer # "put"
    BY <2>1, <1>0 DEF FifoInv
  <2>. QED  BY <1>0, <2>1, <2>6, <2>9, <2>10, <2>11, <2>12, <2>13 DEF FifoInv
<1>. QED  BY <1>1, <1>2, <1>3, <1>4, <1>5 DEF Fifo!Step

-----------------------------------------------------------------------------
(* What each invariant says of the ranges and of the order of delivery.      *)

LEMMA KmsqInOrder == KmsqInv => Kmsq!InOrder /\ Kmsq!TypeOK
<1>. SUFFICES ASSUME KmsqInv PROVE Kmsq!InOrder /\ Kmsq!TypeOK
  OBVIOUS
<1>1. DOMAIN mem.queue = 1 .. Len(mem.queue)
  BY LenProperties DEF KmsqInv, KmsqMem
<1>2. Kmsq!InOrder
  BY <1>1 DEF KmsqInv, Kmsq!InOrder
<1>3. Kmsq!TypeOK
  BY DEF KmsqInv, KmsqMem, Kmsq!TypeOK
<1>. QED  BY <1>2, <1>3

LEMMA PollTypeOK == PollInv => Poll!TypeOK
BY DEF PollInv, PollMem, Poll!TypeOK

LEMMA SemTypeOK == SemInv => Sem!TypeOK
BY DEF SemInv, Sem!TypeOK

LEMMA EventTypeOK == EventInv => Event!TypeOK
BY DEF EventInv, Event!TypeOK

\* The queue holds each of the two items at most once.
LEMMA WorkQueueTypeOK == WorkQueueInv => WorkQueue!TypeOK
<1>. SUFFICES ASSUME WorkQueueInv PROVE WorkQueue!TypeOK
  OBVIOUS
<1>1. mem.queue \in Seq({"one_shot", "periodic"}) /\ Len(mem.queue) \in Nat
  BY LenProperties DEF WorkQueueInv, WorkQueueMem, WorkQueue!Items
<1>2. \A i \in 1 .. Len(mem.queue) : mem.queue[i] \in {"one_shot", "periodic"}
  BY <1>1, ElementOfSeq
<1>3. Len(mem.queue) <= 2
  <2>. SUFFICES ASSUME Len(mem.queue) > 2 PROVE FALSE
    BY <1>1
  <2>1. 1 \in 1 .. Len(mem.queue) /\ 2 \in 1 .. Len(mem.queue) /\ 3 \in 1 .. Len(mem.queue)
    BY <1>1
  <2>2. mem.queue[1] # mem.queue[2] /\ mem.queue[2] # mem.queue[3] /\ mem.queue[1] # mem.queue[3]
    BY <2>1 DEF WorkQueueInv
  <2>. QED  BY <1>2, <2>1, <2>2
<1>. QED  BY <1>3 DEF WorkQueueInv, WorkQueueMem, WorkQueue!TypeOK

LEMMA KmutexTypeOK == KmutexInv => Kmutex!TypeOK
BY DEF KmutexInv, KmutexMem, Critical, Kmutex!TypeOK

LEMMA SpinTypeOK == SpinInv => Spinlock!TypeOK
BY SpinFields DEF SpinInv, SpinMem, SpinStats, Spinlock!TypeOK

LEMMA AtomicTypeOK == AtomicInv => Atomic!TypeOK
<1>1. MaxDrift \in Nat /\ HighWater \in Nat
  BY ProgramAssumptions DEF Atomic!MarkAssumption
<1>. QED  BY <1>1 DEF AtomicInv, AtomicMem, Atomic!NoUpdateLost, Atomic!TypeOK

LEMMA AdvConnTypeOK == AdvConnInv => AdvConn!TypeOK
BY DEF AdvConnInv, AdvConnMem, AdvConn!TypeOK

LEMMA ScanConnTypeOK == ScanConnInv => ScanConn!TypeOK
BY DEF ScanConnInv, ScanConnMem, ScanConnPc, ScanConn!TypeOK

LEMMA GattServerTypeOK == GattServerInv => GattServer!TypeOK
BY DEF GattServerInv, GattServerMem, GattServerPc, GattServer!TypeOK

LEMMA BootProperties == BootInv => Boot!LinkBookkeeping /\ Boot!TypeOK
<1>. SUFFICES ASSUME BootInv PROVE Boot!LinkBookkeeping /\ Boot!TypeOK
  OBVIOUS
<1>1. mem.event_cbs \in Seq(Boot!Services)
  BY DEF BootInv, BootMem
<1>2. Boot!ToSet(mem.event_cbs) = Registered
  <2>1. DOMAIN mem.event_cbs = 1 .. Len(mem.event_cbs)
    BY <1>1, LenProperties
  <2>. QED  BY <2>1 DEF Registered, Boot!ToSet
<1>3. Registered \subseteq Boot!Services
  BY <1>1, ElementOfSeq DEF Registered
<1>4. Boot!LinkBookkeeping
  BY <1>2 DEF BootInv, Boot!LinkBookkeeping
<1>5. Boot!TypeOK
  BY <1>2, <1>3 DEF BootInv, BootMem, BootPc, BootSeen, Boot!TypeOK
<1>. QED  BY <1>4, <1>5

LEMMA PipeBenderTypeOK == PipeBenderInv => PipeBender!TypeOK
BY DEF PipeBenderInv, PipeBenderMem, PipeBender!TypeOK

-----------------------------------------------------------------------------
(* All programs together.                                                    *)

ProgramsInv ==
  /\ program = "kmsq" => KmsqInv
  /\ program = "fifo" => FifoInv
  /\ program = "poll" => PollInv
  /\ program = "sem" => SemInv
  /\ program = "event" => EventInv
  /\ program = "work_queue" => WorkQueueInv
  /\ program = "kmutex" => KmutexInv
  /\ program = "spinlock" => SpinInv
  /\ program = "atomic" => AtomicInv
  /\ program = "rs485" => ReceiverInv
  /\ program = "adv_conn" => AdvConnInv
  /\ program = "scan_conn" => ScanConnInv
  /\ program = "gatt_server" => GattServerInv
  /\ program = "ble" => BootInv
  /\ program = "lcd_ui" => PipeBenderInv
  /\ program = "lvgl" => LvglInv
  /\ program = "sys_monitor" => MonitorInv

\* The initial state of the program the image was built with.
LEMMA ProgramsInit == Init => ProgramsInv
<1>. SUFFICES ASSUME Init PROVE ProgramsInv
  OBVIOUS
<1>1. CASE program = "kmsq" /\ Kmsq!Init
  BY <1>1, KmsqInit DEF ProgramsInv
<1>2. CASE program = "fifo" /\ Fifo!Init
  BY <1>2, FifoInit DEF ProgramsInv
<1>3. CASE program = "poll" /\ Poll!Init
  BY <1>3, PollInit DEF ProgramsInv
<1>4. CASE program = "sem" /\ Sem!Init
  BY <1>4, SemInit DEF ProgramsInv
<1>5. CASE program = "event" /\ Event!Init
  BY <1>5, EventInit DEF ProgramsInv
<1>6. CASE program = "work_queue" /\ WorkQueue!Init
  BY <1>6, WorkQueueInit DEF ProgramsInv
<1>7. CASE program = "kmutex" /\ Kmutex!Init
  BY <1>7, KmutexInit DEF ProgramsInv
<1>8. CASE program = "spinlock" /\ Spinlock!Init
  BY <1>8, SpinInit DEF ProgramsInv
<1>9. CASE program = "atomic" /\ Atomic!Init
  BY <1>9, AtomicInit DEF ProgramsInv
<1>10. CASE program = "rs485" /\ Rs485!Init
  BY <1>10, ReceiverInit DEF ProgramsInv
<1>11. CASE program = "adv_conn" /\ AdvConn!Init
  BY <1>11, AdvConnInit DEF ProgramsInv
<1>12. CASE program = "scan_conn" /\ ScanConn!Init
  BY <1>12, ScanConnInit DEF ProgramsInv
<1>13. CASE program = "gatt_server" /\ GattServer!Init
  BY <1>13, GattServerInit DEF ProgramsInv
<1>14. CASE program = "ble" /\ Boot!Init
  BY <1>14, BootInit DEF ProgramsInv
<1>15. CASE program = "lcd_ui" /\ PipeBender!Init
  BY <1>15, PipeBenderInit DEF ProgramsInv
<1>16. CASE program = "lvgl" /\ Lvgl!Init
  BY <1>16, LvglInit DEF ProgramsInv
<1>17. CASE program = "sys_monitor" /\ Monitor!Init
  BY <1>17, MonitorInit DEF ProgramsInv
<1>. QED  BY <1>1, <1>2, <1>3, <1>4, <1>5, <1>6, <1>7, <1>8, <1>9, <1>10, <1>11, <1>12, <1>13, <1>14, <1>15, <1>16, <1>17 DEF Init

\* A step that leaves the state alone.
LEMMA ProgramsStutter == ASSUME ProgramsInv, UNCHANGED vars PROVE ProgramsInv'
<1>. mem' = mem /\ pc' = pc /\ seen' = seen /\ program' = program
  BY DEF vars
<1>1. KmsqInv => KmsqInv'
  BY DEF KmsqInv, KmsqMem, KmsqMessage, Kmsq!Message
<1>2. FifoInv => FifoInv'
  BY DEF FifoInv, FifoMem, FifoSlots, FifoCredit, FifoItems, FifoReading, FifoFilled, Unread, InSlot
<1>3. PollInv => PollInv'
  BY DEF PollInv, PollMem, Poll!NothingMissed, Poll!Ready
<1>4. SemInv => SemInv'
  BY DEF SemInv
<1>5. EventInv => EventInv'
  BY DEF EventInv, Event!BothFresh
<1>6. WorkQueueInv => WorkQueueInv'
  BY DEF WorkQueueInv, WorkQueueMem, InQueue
<1>7. KmutexInv => KmutexInv'
  BY DEF KmutexInv, KmutexMem, Kmutex!NoUpdateLost
<1>8. SpinInv => SpinInv'
  BY DEF SpinInv, SpinMem, SpinStats, SpinTaken, SpinAhead
<1>9. AtomicInv => AtomicInv'
  BY DEF AtomicInv, AtomicMem, Atomic!NoUpdateLost
<1>10. ReceiverInv => ReceiverInv'
  <2>1. Received' = Received
    BY DEF Received
  <2>2. Rising(Received)' = Rising(Received) /\ BytesOf(Received)' = BytesOf(Received)
    BY <2>1 DEF Rising, BytesOf
  <2>3. ReceiverMem' = ReceiverMem /\ ReceiverPc' = ReceiverPc /\ ReceiverSeen' = ReceiverSeen
    BY DEF ReceiverMem, ReceiverPc, ReceiverSeen
  <2>. QED  BY <2>2, <2>3 DEF ReceiverInv, Rs485!NothingMissed
<1>11. AdvConnInv => AdvConnInv'
  BY DEF AdvConnInv, AdvConnMem, AdvConn!LinkBookkeeping
<1>12. ScanConnInv => ScanConnInv'
  BY DEF ScanConnInv, ScanConnMem, ScanConnPc, ScanConn!LinkBookkeeping
<1>13. GattServerInv => GattServerInv'
  BY DEF GattServerInv, GattServerMem, GattServerPc, GattServerSeen, GattServer!LinkBookkeeping, GattServer!InOrder
<1>14. BootInv => BootInv'
  BY DEF BootInv, BootMem, BootPc, BootSeen, Registered
<1>15. PipeBenderInv => PipeBenderInv'
  BY DEF PipeBenderInv, PipeBenderMem, PipeBender!NoUpdateLost
<1>16. LvglInv => LvglInv'
  BY DEF LvglInv, LvglMem, Lvgl!NoUpdateLost, Lvgl!Counted
<1>17. MonitorInv => MonitorInv'
  BY DEF MonitorInv, MonitorMem, MonitorStats, Since
<1>. QED  BY <1>1, <1>2, <1>3, <1>4, <1>5, <1>6, <1>7, <1>8, <1>9, <1>10, <1>11, <1>12, <1>13, <1>14, <1>15, <1>16, <1>17 DEF ProgramsInv

LEMMA ProgramsInvariant == Spec => []ProgramsInv
<1>1. ASSUME ProgramsInv, [Next]_vars PROVE ProgramsInv'
  <2>1. CASE UNCHANGED vars
    BY <1>1, <2>1, ProgramsStutter
  <2>2. CASE Next
    <3>1. program' = program
      BY <2>2 DEF Next
    <3>2. PICK t \in Scheduled \union Free : Step(t)
      BY <2>2 DEF Next
    <3>3. CASE program = "kmsq" /\ Kmsq!Step(t)
      BY <1>1, <3>1, <3>3, KmsqStep DEF ProgramsInv
    <3>4. CASE program = "fifo" /\ Fifo!Step(t)
      BY <1>1, <3>1, <3>4, FifoStep DEF ProgramsInv
    <3>5. CASE program = "poll" /\ Poll!Step(t)
      BY <1>1, <3>1, <3>5, PollStep DEF ProgramsInv
    <3>6. CASE program = "sem" /\ Sem!Step(t)
      BY <1>1, <3>1, <3>6, SemStep DEF ProgramsInv
    <3>7. CASE program = "event" /\ Event!Step(t)
      BY <1>1, <3>1, <3>7, EventStep DEF ProgramsInv
    <3>8. CASE program = "work_queue" /\ WorkQueue!Step(t)
      BY <1>1, <3>1, <3>8, WorkQueueStep DEF ProgramsInv
    <3>9. CASE program = "kmutex" /\ Kmutex!Step(t)
      BY <1>1, <3>1, <3>9, KmutexStep DEF ProgramsInv
    <3>10. CASE program = "spinlock" /\ Spinlock!Step(t)
      BY <1>1, <3>1, <3>10, SpinStep DEF ProgramsInv
    <3>11. CASE program = "atomic" /\ Atomic!Step(t)
      BY <1>1, <3>1, <3>11, AtomicStep DEF ProgramsInv
    <3>12. CASE program = "rs485" /\ Rs485!Step(t)
      BY <1>1, <3>1, <3>12, ReceiverStep DEF ProgramsInv
    <3>13. CASE program = "adv_conn" /\ AdvConn!Step(t)
      BY <1>1, <3>1, <3>13, AdvConnStep DEF ProgramsInv
    <3>14. CASE program = "scan_conn" /\ ScanConn!Step(t)
      BY <1>1, <3>1, <3>14, ScanConnStep DEF ProgramsInv
    <3>15. CASE program = "gatt_server" /\ GattServer!Step(t)
      BY <1>1, <3>1, <3>15, GattServerStep DEF ProgramsInv
    <3>16. CASE program = "ble" /\ Boot!Step(t)
      BY <1>1, <3>1, <3>16, BootStep DEF ProgramsInv
    <3>17. CASE program = "lcd_ui" /\ PipeBender!Step(t)
      BY <1>1, <3>1, <3>17, PipeBenderStep DEF ProgramsInv
    <3>18. CASE program = "lvgl" /\ Lvgl!Step(t)
      BY <1>1, <3>1, <3>18, LvglStep DEF ProgramsInv
    <3>19. CASE program = "sys_monitor" /\ Monitor!Step(t)
      BY <1>1, <3>1, <3>19, MonitorStep DEF ProgramsInv
    <3>. QED  BY <3>2, <3>3, <3>4, <3>5, <3>6, <3>7, <3>8, <3>9, <3>10, <3>11, <3>12, <3>13, <3>14, <3>15, <3>16, <3>17, <3>18, <3>19 DEF Step
  <2>. QED  BY <1>1, <2>1, <2>2
<1>. QED  BY <1>1, ProgramsInit, PTL DEF Spec

\* Every variable of every program keeps its range: queues their capacity,
\* reference counts at most one, angles their scale, LED registers 0 or 1.
THEOREM TypeCorrect == Spec => []TypeOK
<1>1. ProgramsInv => TypeOK
  BY KmsqInOrder, FifoInOrder, PollTypeOK, SemTypeOK, EventTypeOK, WorkQueueTypeOK, KmutexTypeOK,
     SpinTypeOK, AtomicTypeOK, ReceiverInOrder, AdvConnTypeOK, ScanConnTypeOK, GattServerTypeOK,
     BootProperties, PipeBenderTypeOK, LvglTypeOK, MonitorNoUpdateLost DEF ProgramsInv, TypeOK
<1>. QED  BY <1>1, ProgramsInvariant, PTL

\* The message queue, the FIFO over its reused slots, the RS485 receiver and
\* the counter a GATT client reads all deliver in order, each piece once and
\* undamaged, for every capacity and every sequence of contexts.
THEOREM DeliveredInOrderHolds == Spec => []DeliveredInOrder
<1>1. ProgramsInv => DeliveredInOrder
  BY KmsqInOrder, FifoInOrder, ReceiverInOrder DEF ProgramsInv, GattServerInv, DeliveredInOrder
<1>. QED  BY <1>1, ProgramsInvariant, PTL

\* No update of a value shared by several contexts is lost or counted twice:
\* under the mutex, under the spinlock, with atomic operations, between the
\* callbacks of one thread, or by adding up intervals of time.
THEOREM NoUpdateLostHolds == Spec => []NoUpdateLost
<1>1. ProgramsInv => NoUpdateLost
  BY SpinNoUpdateLost, MonitorNoUpdateLost
  DEF ProgramsInv, KmutexInv, AtomicInv, PipeBenderInv, LvglInv, NoUpdateLost
<1>. QED  BY <1>1, ProgramsInvariant, PTL

\* No signal, work item or byte and no bit waited for is passed over without
\* being reported, but for the windows the modules name.
THEOREM NothingMissedHolds == Spec => []NothingMissed
<1>1. ProgramsInv => NothingMissed
  BY WorkQueueNothingMissed
  DEF ProgramsInv, PollInv, EventInv, ReceiverInv, NothingMissed
<1>. QED  BY <1>1, ProgramsInvariant, PTL

\* The handle, its reference and the subscriptions a program keeps are those of
\* the link it has, through failed connections, lost links and events that come
\* while it is still starting.
THEOREM LinkBookkeepingHolds == Spec => []LinkBookkeeping
<1>1. ProgramsInv => LinkBookkeeping
  BY BootProperties DEF ProgramsInv, AdvConnInv, ScanConnInv, GattServerInv, LinkBookkeeping
<1>. QED  BY <1>1, ProgramsInvariant, PTL

-----------------------------------------------------------------------------
(* The receiver of rs485 implements the abstract channel, as mcu_transport   *)
(* does: ring and chunk are its queue.                                       *)

ReceiverChannel ==
  INSTANCE ByteChannel WITH
    Capacity <- RingSize,  MaxBurst <- FifoChunk,  MaxPiece <- PullChunk,
    next     <- seen.arrived,    queue    <- mem.chunk \o mem.ring,
    received <- seen.delivered,  unwanted <- seen.ignored,
    lost     <- seen.cut

ReceiverSteps ==
  program = "rs485" =>
    ReceiverChannel!Init /\ [][ReceiverChannel!Next]_(ReceiverChannel!chanVars)

\* What a step that moves no byte of the channel leaves alone.
LEMMA ReceiverStutter ==
  ASSUME mem'.chunk \o mem'.ring = mem.chunk \o mem.ring, UNCHANGED seen
  PROVE  UNCHANGED ReceiverChannel!chanVars
BY DEF ReceiverChannel!chanVars

\* A burst of the interrupt is a burst of the channel.
LEMMA ReceiverBurst == ASSUME ReceiverInv, Rs485!HandleRx PROVE ReceiverChannel!Next
<1>0. /\ mem \in ReceiverMem /\ seen \in ReceiverSeen /\ mem.ring \in Seq(Nat) /\ mem.chunk \in Seq(Nat)
      /\ Len(mem.ring) \in Nat /\ Len(mem.chunk) \in Nat /\ Len(mem.ring) <= RingSize
      /\ seen.arrived \in Nat /\ seen.cut \in Nat
  BY DEF ReceiverInv, ReceiverMem, ReceiverSeen
<1>. DEFINE room    == RingSize - Len(mem.ring)
            kept(n) == IF n < room THEN n ELSE room
<1>1. PICK n \in 1 .. FifoChunk :
        /\ mem' = [mem EXCEPT !.ring = @ \o [i \in 1 .. kept(n) |-> seen.arrived + i],
                              !.rx_data_sem = @ + 1]
        /\ seen' = [seen EXCEPT !.arrived = @ + n,
                                !.lost = @ \union (seen.arrived + kept(n) + 1 .. seen.arrived + n),
                                !.cut = @ + (n - kept(n))]
  BY DEF Rs485!HandleRx
<1>. DEFINE k == kept(n)
            b == [i \in 1 .. k |-> seen.arrived + i]
<1>2. k \in 0 .. n /\ (k < n => Len(mem.ring) + k = RingSize)
  <2>. DEFINE l == Len(mem.ring)
  <2>1. l \in Nat /\ l <= RingSize /\ n \in Nat
    BY <1>0, ReceiverSizes
  <2>. HIDE DEF l
  <2>2. k = IF n < RingSize - l THEN n ELSE RingSize - l
    BY DEF l
  <2>. HIDE DEF k
  <2>3. k \in 0 .. n /\ (k < n => l + k = RingSize)
    BY <2>1, <2>2, ReceiverSizes
  <2>. QED  BY <2>3 DEF l
<1>. HIDE DEF k
<1>3. /\ mem'.ring = mem.ring \o b /\ mem'.chunk = mem.chunk
      /\ seen'.arrived = seen.arrived + n /\ seen'.cut = seen.cut + (n - k)
      /\ seen'.delivered = seen.delivered /\ seen'.ignored = seen.ignored
  BY <1>0, <1>1 DEF ReceiverMem, ReceiverSeen, k
<1>4. b \in Seq(Nat)
  BY <1>0, <1>2
<1>5. Len(mem.chunk \o mem.ring) = Len(mem.chunk) + Len(mem.ring)
  BY <1>0, ConcatProperties
<1>6. k < n => Len(mem.chunk \o mem.ring) + k >= RingSize
  <2>. DEFINE c == Len(mem.chunk)
              l == Len(mem.ring)
  <2>1. c \in Nat /\ l \in Nat /\ Len(mem.chunk \o mem.ring) = c + l /\ (k < n => l + k = RingSize)
    BY <1>0, <1>2, <1>5
  <2>. HIDE DEF c, l
  <2>. QED  BY <1>2, <2>1, ReceiverSizes
<1>7. mem'.chunk \o mem'.ring = (mem.chunk \o mem.ring) \o b
  <2>1. mem.chunk \in Seq(Nat) /\ mem.ring \in Seq(Nat)
    BY <1>0
  <2>2. (mem.chunk \o mem.ring) \o b = mem.chunk \o (mem.ring \o b)
    BY <1>4, <2>1, BytesAssociative, Zenon
  <2>. QED  BY <1>3, <2>2
<1>8. ReceiverChannel!Burst(n, k)
  BY <1>3, <1>6, <1>7 DEF ReceiverChannel!Burst
<1>. QED  BY <1>2, <1>8 DEF ReceiverChannel!Next

\* Handing over the chunk serves the channel, with or without a consumer.
LEMMA ReceiverServes == ASSUME ReceiverInv, Rs485!Call PROVE ReceiverChannel!Next
<1>0. /\ mem \in ReceiverMem /\ seen \in ReceiverSeen /\ mem.ring \in Seq(Nat) /\ mem.chunk \in Seq(Nat)
      /\ Len(mem.ring) \in Nat /\ Len(mem.chunk) \in Nat /\ seen.ignored \in Nat
  BY DEF ReceiverInv, ReceiverMem, ReceiverSeen
<1>. DEFINE k     == Len(mem.chunk)
            queue == mem.chunk \o mem.ring
<1>1. k \in 1 .. PullChunk
  <2>1. mem.chunk # <<>> /\ k <= PullChunk
    BY DEF Rs485!Call, Rs485!Go, ReceiverInv
  <2>. QED  BY <1>0, <2>1, EmptySeq, ReceiverSizes
<1>2. Len(queue) = k + Len(mem.ring)
  BY <1>0, ConcatProperties
<1>3. SubSeq(queue, 1, k) = mem.chunk /\ SubSeq(queue, k + 1, Len(queue)) = mem.ring
  <2>. DEFINE c == mem.chunk
              g == mem.ring
  <2>1. c \in Seq(Nat) /\ g \in Seq(Nat) /\ Len(c) \in Nat /\ Len(g) \in Nat /\ Len(c \o g) = Len(c) + Len(g)
    BY <1>0, <1>2
  <2>. HIDE DEF c, g
  <2>2. SubSeq(c \o g, 1, Len(c)) = c /\ SubSeq(c \o g, Len(c) + 1, Len(c \o g)) = g
    BY <2>1
  <2>. QED  BY <2>2 DEF c, g
<1>4. mem' = [mem EXCEPT !.chunk = <<>>]
  BY DEF Rs485!Call
<1>5. mem'.chunk \o mem'.ring = SubSeq(queue, k + 1, Len(queue))
  <2>1. mem'.chunk = <<>> /\ mem'.ring = mem.ring
    BY <1>0, <1>4 DEF ReceiverMem
  <2>. QED  BY <1>0, <1>3, <2>1, ConcatEmptySeq
<1>s. ASSUME ReceiverChannel!Receive(k) \/ ReceiverChannel!Ignore(k) PROVE ReceiverChannel!Next
  <2>1. k <= Len(queue)
    <3>. DEFINE l == Len(mem.ring)
                q == Len(queue)
    <3>1. k \in Nat /\ l \in Nat /\ q = k + l
      BY <1>0, <1>2
    <3>. HIDE DEF k, l, q
    <3>2. k <= q
      BY <3>1
    <3>. QED  BY <3>2 DEF q
  <2>. HIDE DEF k
  <2>. QED  BY <1>1, <1>s, <2>1 DEF ReceiverChannel!Next, ReceiverChannel!Serve
<1>6. CASE mem.cb
  <2>. DEFINE d == seen.delivered \o mem.chunk
  <2>1. seen' = [seen EXCEPT !.delivered = d]
    BY <1>6 DEF Rs485!Call
  <2>2. /\ seen'.delivered = d /\ seen'.arrived = seen.arrived
        /\ seen'.cut = seen.cut /\ seen'.ignored = seen.ignored
    BY <1>0, <2>1 DEF ReceiverSeen
  <2>3. ReceiverChannel!Receive(k)
    BY <1>3, <1>5, <2>2 DEF ReceiverChannel!Receive
  <2>. QED  BY <1>s, <2>3
<1>7. CASE ~mem.cb
  <2>. DEFINE l == seen.lost \union {mem.chunk[i] : i \in DOMAIN mem.chunk}
              g == seen.ignored + Len(mem.chunk)
  <2>1. seen' = [seen EXCEPT !.lost = l, !.ignored = g]
    BY <1>7 DEF Rs485!Call
  <2>. HIDE DEF l
  <2>2. /\ seen'.ignored = g /\ seen'.arrived = seen.arrived
        /\ seen'.cut = seen.cut /\ seen'.delivered = seen.delivered
    BY <1>0, <2>1 DEF ReceiverSeen
  <2>3. ReceiverChannel!Ignore(k)
    BY <1>5, <2>2 DEF ReceiverChannel!Ignore
  <2>. QED  BY <1>s, <2>3
<1>. QED  BY <1>6, <1>7

\* Pulling a chunk moves bytes from one part of the queue to the other.
LEMMA ReceiverPull == ASSUME ReceiverInv, Rs485!Pull PROVE UNCHANGED ReceiverChannel!chanVars
<1>0. mem \in ReceiverMem /\ mem.ring \in Seq(Nat) /\ Len(mem.ring) \in Nat
  BY DEF ReceiverInv, ReceiverMem
<1>. DEFINE n == IF Len(mem.ring) < PullChunk THEN Len(mem.ring) ELSE PullChunk
            f == SubSeq(mem.ring, 1, n)
            g == SubSeq(mem.ring, n + 1, Len(mem.ring))
<1>1. mem.chunk = <<>> /\ mem' = [mem EXCEPT !.chunk = f, !.ring = g] /\ UNCHANGED seen
  BY DEF Rs485!Pull, Rs485!Go, ReceiverInv
<1>2. n \in 0 .. Len(mem.ring)
  BY <1>0, ReceiverSizes
<1>. HIDE DEF n
<1>3. f \o g = mem.ring
  <2>1. f \o g = SubSeq(mem.ring, 1, Len(mem.ring))
    <3>1. 1 \in 1 .. Len(mem.ring) + 1 /\ n \in 1 - 1 .. Len(mem.ring) /\ Len(mem.ring) \in n .. Len(mem.ring)
      BY <1>0, <1>2
    <3>. QED  BY <1>0, <3>1, ConcatAdjacentSubSeq, Zenon
  <2>2. SubSeq(mem.ring, 1, Len(mem.ring)) = mem.ring
    BY <1>0, SubSeqFull
  <2>. QED  BY <2>1, <2>2
<1>. HIDE DEF f, g
<1>4. mem'.chunk = f /\ mem'.ring = g
  BY <1>0, <1>1 DEF ReceiverMem
<1>5. mem.chunk \o mem.ring = mem.ring
  BY <1>0, <1>1, ConcatEmptySeq
<1>. QED  BY <1>1, <1>3, <1>4, <1>5, ReceiverStutter

\* The receiving side of rs485 implements the abstract channel: bytes leave in
\* the order of their arrival, in pieces of at most the size of the chunk, and
\* are cut off only at the end of a burst that finds the ring full.
THEOREM ReceiverImplementsChannel == Spec => ReceiverSteps
<1>. DEFINE Chosen485 == program = "rs485"
<1>1. Init /\ Chosen485 => ReceiverChannel!Init
  <2>. SUFFICES ASSUME Rs485!Init PROVE ReceiverChannel!Init
    BY DEF Init
  <2>1. <<>> \o <<>> = <<>>
    BY ConcatEmptySeq, EmptySeq
  <2>. QED  BY <2>1 DEF Rs485!Init, ReceiverChannel!Init
<1>2. Chosen485 /\ [Next]_vars => Chosen485'
  BY DEF Next, vars
<1>3. ProgramsInv /\ Chosen485 /\ [Next]_vars => [ReceiverChannel!Next]_(ReceiverChannel!chanVars)
  <2>. SUFFICES ASSUME ReceiverInv, Chosen485, [Next]_vars
                PROVE  ReceiverChannel!Next \/ UNCHANGED ReceiverChannel!chanVars
    BY DEF ProgramsInv
  <2>0. mem \in ReceiverMem
    BY DEF ReceiverInv
  <2>1. CASE UNCHANGED vars
    BY <2>1, ReceiverStutter DEF vars
  <2>2. CASE Rs485!HandleRx
    BY <2>2, ReceiverBurst
  <2>3. CASE Rs485!Take
    <3>1. mem'.chunk = mem.chunk /\ mem'.ring = mem.ring /\ UNCHANGED seen
      BY <2>0, <2>3 DEF Rs485!Take, ReceiverMem
    <3>. QED  BY <3>1, ReceiverStutter
  <2>4. CASE Rs485!Pull
    BY <2>4, ReceiverPull
  <2>5. CASE Rs485!Copy
    <3>1. mem'.chunk = mem.chunk /\ mem'.ring = mem.ring /\ UNCHANGED seen
      BY <2>0, <2>5 DEF Rs485!Copy, ReceiverMem
    <3>. QED  BY <3>1, ReceiverStutter
  <2>6. CASE Rs485!Call
    BY <2>6, ReceiverServes
  <2>7. CASE Rs485!Register
    <3>1. mem'.chunk = mem.chunk /\ mem'.ring = mem.ring /\ UNCHANGED seen
      BY <2>0, <2>7 DEF Rs485!Register, ReceiverMem
    <3>. QED  BY <3>1, ReceiverStutter
  <2>8. CASE Next
    <3>1. PICK t \in Scheduled \union Free : Rs485!Step(t)
      BY <2>8 DEF Next, Step
    <3>. QED  BY <2>2, <2>3, <2>4, <2>5, <2>6, <2>7, <3>1 DEF Rs485!Step
  <2>. QED  BY <2>1, <2>8
<1>. QED  BY <1>1, <1>2, <1>3, ProgramsInvariant, PTL DEF Spec, ReceiverSteps
=============================================================================

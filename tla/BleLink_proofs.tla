--------------------------- MODULE BleLink_proofs ---------------------------
(***************************************************************************)
(* Proofs about the peripheral's link: the connection handle, the          *)
(* subscriptions and the relay, for every number of links and of chunks.   *)
(***************************************************************************)
EXTENDS BleLink, TLAPS

USE BoundAssumption

-----------------------------------------------------------------------------
(* The connection events.  ActiveConnIsTheLink and FlagsFollowCentral speak  *)
(* of the time between two events; LinkInv says what holds in the middle of  *)
(* one.                                                                      *)

\* ble_conn's references are those of the handle it keeps.
RefsOfHandle == \A l \in 1 .. MaxLinks : refs[l] = IF l = active_conn THEN 1 ELSE 0

\* Where the handle stands in each stretch of connected() and disconnected().
HandleAt ==
  /\ bt = "idle" => active_conn = link
  /\ bt \in {"connected", "restart", "mark"} => active_conn = 0
  /\ bt = "connected" <=> link # 0 /\ bt # "idle"

\* The subscriptions last as long as the link, and the service knows them
\* until the link is lost and again once it has handled the loss.
FlagsAt ==
  /\ link = 0 \/ bt = "connected" => subscribed = {}
  /\ bt # "disconnected" => notify_enabled = subscribed

LinkInv == RefsOfHandle /\ HandleAt /\ FlagsAt

TypeInv == TypeOK /\ LinkInv

\* Most steps leave alone what LinkInv is about.
LinkState == <<link, subscribed, active_conn, refs, notify_enabled, bt>>

LEMMA LinkStutter == LinkInv /\ UNCHANGED LinkState => LinkInv'
BY DEF LinkInv, RefsOfHandle, HandleAt, FlagsAt, LinkState

LEMMA LinkStep == TypeOK /\ LinkInv /\ [Next]_vars => LinkInv'
<1>. SUFFICES ASSUME TypeOK, LinkInv, [Next]_vars
              PROVE  LinkInv'
  OBVIOUS
<1>. USE DEF stackVars, codeVars, btVars, rxVars
<1>1. CASE Connect
  BY <1>1 DEF Connect, LinkInv, RefsOfHandle, HandleAt, FlagsAt, TypeOK
<1>2. CASE LoseLink
  BY <1>2 DEF LoseLink, LinkInv, RefsOfHandle, HandleAt, FlagsAt
<1>3. CASE Connected
  <2>1. /\ bt = "connected" /\ bt' = "idle" /\ active_conn = 0 /\ link # 0
        /\ active_conn' = link
        /\ refs' = [refs EXCEPT ![link] = @ + 1]
        /\ UNCHANGED <<link, subscribed, notify_enabled>>
    BY <1>3 DEF Connected, LinkInv, HandleAt
  <2>2. RefsOfHandle'
    BY <2>1 DEF LinkInv, RefsOfHandle, TypeOK
  <2>3. HandleAt' /\ FlagsAt'
    BY <2>1 DEF LinkInv, HandleAt, FlagsAt
  <2>. QED  BY <2>2, <2>3 DEF LinkInv
<1>4. CASE DispatchLost
  BY <1>4 DEF DispatchLost, LinkInv, RefsOfHandle, HandleAt, FlagsAt
<1>5. CASE DropConn
  <2>1. /\ bt = "drop" /\ bt' = "restart" /\ active_conn' = 0
        /\ UNCHANGED <<link, subscribed, notify_enabled>>
    BY <1>5 DEF DropConn
  <2>2. RefsOfHandle'
    <3>1. \/ active_conn = 0 /\ refs' = refs
          \/ refs' = [refs EXCEPT ![active_conn] = @ - 1]
      BY <1>5 DEF DropConn
    <3>. QED  BY <2>1, <3>1 DEF LinkInv, RefsOfHandle, TypeOK
  <2>3. HandleAt' /\ FlagsAt'
    BY <2>1 DEF LinkInv, HandleAt, FlagsAt
  <2>. QED  BY <2>2, <2>3 DEF LinkInv
<1>6. CASE Restart
  BY <1>6 DEF Restart, LinkInv, RefsOfHandle, HandleAt, FlagsAt
<1>7. CASE MarkRestarted
  BY <1>7 DEF MarkRestarted, LinkInv, RefsOfHandle, HandleAt, FlagsAt
<1>8. ASSUME NEW c \in Characteristics, NEW enabled \in BOOLEAN, CccChanged(c, enabled)
      PROVE  LinkInv'
  BY <1>8 DEF CccChanged, LinkInv, RefsOfHandle, HandleAt, FlagsAt
<1>9. CASE AppDisconnectCall
  BY <1>9 DEF AppDisconnectCall, LinkInv, RefsOfHandle, HandleAt, FlagsAt
<1>10. CASE RaiseMtu \/ AppStart \/ AppStop \/ AppMark \/ AppDisconnect
  BY <1>10, LinkStutter DEF RaiseMtu, AppStart, AppStop, AppMark, AppDisconnect, LinkState
<1>11. CASE (\E n \in Lengths : RxCalled(n)) \/ RxThread
  BY <1>11, LinkStutter DEF RxCalled, RxThread, RxCheckSubscriber, RxGetActive, RxNotify, LinkState
<1>12. CASE UNCHANGED vars
  BY <1>12, LinkStutter DEF vars, LinkState
<1>. QED
  BY <1>1, <1>2, <1>3, <1>4, <1>5, <1>6, <1>7, <1>8, <1>9, <1>10, <1>11, <1>12
     DEF Next, Stack, BtThread, Attribute, AppThread

LEMMA TypeStep == TypeInv /\ [Next]_vars => TypeOK'
<1>. SUFFICES ASSUME TypeOK, LinkInv, [Next]_vars
              PROVE  TypeOK'
  BY DEF TypeInv
<1>. USE DEF TypeOK, stackVars, codeVars, btVars, rxVars
<1>1. CASE Connect \/ LoseLink \/ RaiseMtu
  <2>1. link' \in 0 .. MaxLinks /\ links' \in 0 .. MaxLinks /\ subscribed' \subseteq Characteristics
    BY <1>1 DEF Connect, LoseLink, RaiseMtu
  <2>2. advertising' \in BOOLEAN /\ mtu_raised' \in BOOLEAN /\ steady' \in BOOLEAN
    BY <1>1 DEF Connect, LoseLink, RaiseMtu
  <2>3. /\ bt' \in {"connected", "disconnected", "idle"} /\ restarted' \in {"none", restarted}
        /\ UNCHANGED <<codeVars, app, rx, rx_len, rx_conn, chunks, outcome>>
    BY <1>1 DEF Connect, LoseLink, RaiseMtu
  <2>. QED  BY <2>1, <2>2, <2>3
<1>2. CASE Connected
  <2>1. /\ bt = "connected" /\ active_conn = 0 /\ link # 0
        /\ refs' = [refs EXCEPT ![link] = @ + 1]
    BY <1>2 DEF Connected, LinkInv, HandleAt
  <2>2. refs' \in [1 .. MaxLinks -> {0, 1}]
    BY <2>1 DEF LinkInv, RefsOfHandle
  <2>. QED  BY <1>2, <2>2 DEF Connected
<1>3. CASE DispatchLost \/ MarkRestarted
  BY <1>3 DEF DispatchLost, MarkRestarted
<1>4. CASE DropConn
  <2>1. refs' \in [1 .. MaxLinks -> {0, 1}]
    BY <1>4 DEF DropConn, LinkInv, RefsOfHandle
  <2>. QED  BY <1>4, <2>1 DEF DropConn
<1>5. CASE Restart
  <2>1. advertising' \in BOOLEAN
    BY <1>5 DEF Restart, StackStart
  <2>2. restarted' \in {"ok", "EALREADY", "failed"} /\ bt' \in {"mark", "idle"}
    BY <1>5 DEF Restart
  <2>3. UNCHANGED <<link, links, subscribed, mtu_raised, codeVars, app, rxVars>>
    BY <1>5 DEF Restart
  <2>. QED  BY <2>1, <2>2, <2>3
<1>6. ASSUME NEW c \in Characteristics, NEW enabled \in BOOLEAN, CccChanged(c, enabled)
      PROVE  TypeOK'
  <2>1. steady' \in BOOLEAN
    BY <1>6, Zenon DEF CccChanged
  <2>. QED  BY <1>6, <2>1 DEF CccChanged
<1>7. ASSUME NEW n \in Lengths, RxCalled(n)
      PROVE  TypeOK'
  <2>1. steady' \in BOOLEAN
    BY <1>7, Zenon DEF RxCalled
  <2>2. chunks' \in 0 .. MaxChunks
    BY <1>7 DEF RxCalled
  <2>. QED  BY <1>7, <2>1, <2>2 DEF RxCalled
<1>8. CASE RxThread
  BY <1>8 DEF RxThread, RxCheckSubscriber, RxGetActive, RxNotify, NotifyResult
<1>9. CASE AppStart \/ AppStop \/ AppMark \/ AppDisconnect
  <2>1. advertising' \in BOOLEAN /\ adv_active' \in {0, 1}
    BY <1>9 DEF AppStart, AppStop, AppMark, AppDisconnect, StackStart
  <2>2. /\ app' \in {"idle", "mark_on", "mark_off", "disconnect"}
        /\ UNCHANGED <<link, links, subscribed, mtu_raised, active_conn, refs, notify_enabled,
                       btVars, rxVars>>
    BY <1>9 DEF AppStart, AppStop, AppMark, AppDisconnect
  <2>. QED  BY <2>1, <2>2
<1>10. CASE AppDisconnectCall
  <2>1. /\ link' \in {0, link} /\ subscribed' \in {{}, subscribed}
        /\ mtu_raised' \in {FALSE, mtu_raised} /\ steady' \in {FALSE, steady}
        /\ bt' \in {"disconnected", bt} /\ restarted' \in {"none", restarted} /\ app' = "idle"
    BY <1>10 DEF AppDisconnectCall
  <2>2. UNCHANGED <<advertising, links, codeVars, rx, rx_len, rx_conn, chunks, outcome>>
    BY <1>10 DEF AppDisconnectCall
  <2>3. mtu_raised' \in BOOLEAN /\ steady' \in BOOLEAN
    BY <2>1
  <2>4. link' \in 0 .. MaxLinks /\ subscribed' \subseteq Characteristics
    BY <2>1
  <2>. QED  BY <2>1, <2>2, <2>3, <2>4
<1>11. CASE UNCHANGED vars
  BY <1>11 DEF vars
<1>. QED
  BY <1>1, <1>2, <1>3, <1>4, <1>5, <1>6, <1>7, <1>8, <1>9, <1>10, <1>11
     DEF Next, Stack, BtThread, Attribute, AppThread

LEMMA TypeInvHolds == Spec => []TypeInv
<1>1. Init => TypeInv
  BY DEF Init, TypeInv, TypeOK, LinkInv, RefsOfHandle, HandleAt, FlagsAt, Lengths
<1>2. TypeInv /\ [Next]_vars => TypeInv'
  BY LinkStep, TypeStep DEF TypeInv
<1>. QED  BY <1>1, <1>2, PTL DEF Spec

\* Every variable keeps its range; a link is never referenced twice.
THEOREM TypeCorrect == Spec => []TypeOK
BY TypeInvHolds, PTL DEF TypeInv

\* Between connection events the handle is the link the stack has, and the one
\* reference is to that link.
THEOREM ActiveConnIsTheLinkHolds == Spec => []ActiveConnIsTheLink
<1>1. TypeInv => ActiveConnIsTheLink
  BY DEF TypeInv, LinkInv, RefsOfHandle, HandleAt, ActiveConnIsTheLink
<1>. QED  BY <1>1, TypeInvHolds, PTL

\* Between connection events the service's flags are what the central of the
\* current link subscribed to.
THEOREM FlagsFollowCentralHolds == Spec => []FlagsFollowCentral
<1>1. TypeInv => FlagsFollowCentral
  BY DEF TypeInv, LinkInv, FlagsAt, FlagsFollowCentral
<1>. QED  BY <1>1, TypeInvHolds, PTL

-----------------------------------------------------------------------------
(* The relay.  steady remembers that the subscriber stayed; it holds only    *)
(* while the link and the subscription do.                                   *)

SteadyInv ==
  /\ steady => bt = "idle" /\ link # 0 /\ "status" \in subscribed
  /\ RelayedWhileSubscribed

\* A chunk from the MCU is not lost to a stale flag or handle while its
\* subscriber stays.
THEOREM RelayedWhileSubscribedHolds == Spec => []RelayedWhileSubscribed
<1>. USE DEF SteadyInv, RelayedWhileSubscribed
<1>1. Init => SteadyInv
  BY DEF Init
<1>2. TypeInv /\ SteadyInv /\ [Next]_vars => SteadyInv'
  <2>. SUFFICES ASSUME TypeInv, SteadyInv, [Next]_vars
                PROVE  SteadyInv'
    OBVIOUS
  <2>. USE DEF stackVars, codeVars, btVars, rxVars
  <2>1. CASE Connect \/ LoseLink \/ RaiseMtu
    BY <2>1 DEF Connect, LoseLink, RaiseMtu
  <2>2. CASE BtThread
    BY <2>2 DEF BtThread, Connected, DispatchLost, DropConn, Restart, MarkRestarted
  <2>3. ASSUME NEW c \in Characteristics, NEW enabled \in BOOLEAN, CccChanged(c, enabled)
        PROVE  SteadyInv'
    BY <2>3 DEF CccChanged
  <2>4. ASSUME NEW n \in Lengths, RxCalled(n)
        PROVE  SteadyInv'
    BY <2>4 DEF RxCalled
  <2>5. CASE RxCheckSubscriber
    BY <2>5 DEF RxCheckSubscriber, TypeInv, LinkInv, FlagsAt
  <2>6. CASE RxGetActive
    BY <2>6 DEF RxGetActive, TypeInv, LinkInv, HandleAt
  <2>7. CASE RxNotify
    BY <2>7 DEF RxNotify, NotifyResult
  <2>8. CASE AppStart \/ AppStop \/ AppMark \/ AppDisconnect
    BY <2>8 DEF AppStart, AppStop, AppMark, AppDisconnect
  <2>9. CASE AppDisconnectCall
    BY <2>9 DEF AppDisconnectCall
  <2>10. CASE UNCHANGED vars
    BY <2>10 DEF vars
  <2>. QED
    BY <2>1, <2>2, <2>3, <2>4, <2>5, <2>6, <2>7, <2>8, <2>9, <2>10
       DEF Next, Stack, Attribute, RxThread, AppThread
<1>3. SteadyInv => RelayedWhileSubscribed
  OBVIOUS
<1>. QED  BY <1>1, <1>2, <1>3, TypeInvHolds, PTL DEF Spec
=============================================================================

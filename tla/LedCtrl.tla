------------------------------ MODULE LedCtrl ------------------------------
(***************************************************************************)
(* The LED control service (package_ble_led_ctrl_service): a central       *)
(* writes, reads and subscribes to LED3 and LED4; the application changes  *)
(* them too (a button) and then reports it with                            *)
(* ble_led_ctrl_service_notify.  led3_state and led4_state mirror the LEDs *)
(* for the reads.                                                          *)
(*                                                                         *)
(* The attribute callbacks and the connection event run on the Bluetooth   *)
(* RX thread, which the application cannot preempt: each is one step.      *)
(* The application's thread can be interrupted anywhere.  The link, the    *)
(* GPIO and the central are external; bt_gatt_notify sends what the mirror *)
(* holds when it is called, or fails, which the service ignores.           *)
(***************************************************************************)
EXTENDS Integers

Leds   == {"LED3", "LED4"}
Levels == {0, 1}
Skip   == -1

VARIABLES
  level,           \* per LED: what the GPIO shows
  mirror,          \* led3_state, led4_state
  notify_enabled,  \* the LEDs whose CCC the central enabled
  active,          \* ble_conn_get_active() is not NULL
  app,             \* the application in ble_led_ctrl_service_notify
  args,            \* its arguments, Skip to leave a LED alone
  todo,            \* the LEDs it has not dealt with
  seen,            \* per LED: what the central knows, Skip if nothing
  raced,           \* history: LEDs written by the central since the button
  excused,         \* history: LEDs whose last change the mirror missed
  unheard,         \* history: LEDs whose last notification failed
  refused          \* history: LEDs this report failed to notify

appVars  == <<app, args, todo>>
history  == <<seen, raced, excused, unheard, refused>>
vars     == <<level, mirror, notify_enabled, active, appVars, history>>

Init ==
  /\ level = [d \in Leds |-> 0]
  /\ mirror = [d \in Leds |-> 0]
  /\ notify_enabled = {}
  /\ active = FALSE
  /\ app = "idle"
  /\ args = [d \in Leds |-> Skip]
  /\ todo = {}
  /\ seen = [d \in Leds |-> Skip]
  /\ raced = {}
  /\ excused = {}
  /\ unheard = {}
  /\ refused = {}

\* LED d is notified with value v if the central subscribed to it; a call of
\* bt_gatt_notify that fails is forgotten.
Notified(d, v, sent) ==
  /\ sent \/ d \in notify_enabled
  /\ seen' = IF sent /\ d \in notify_enabled THEN [seen EXCEPT ![d] = v] ELSE seen
  /\ unheard' = IF sent THEN unheard \ {d} ELSE unheard \union {d}

-----------------------------------------------------------------------------
(* The central                                                               *)

Connect ==
  /\ ~active
  /\ active' = TRUE
  /\ UNCHANGED <<level, mirror, notify_enabled, appVars, history>>

\* Seeded mistake: one of the two flags is not reset.
DisconnectKeepsLed4 ==
  /\ active
  /\ active' = FALSE
  /\ notify_enabled' = notify_enabled \ {"LED3"}
  /\ seen' = [d \in Leds |-> Skip]
  /\ unheard' = {}
  /\ UNCHANGED <<level, mirror, appVars, raced, excused, refused>>

\* The link is lost: on_conn_event resets the flags.
Disconnect ==
  /\ active
  /\ active' = FALSE
  /\ notify_enabled' = {}
  /\ seen' = [d \in Leds |-> Skip]
  /\ unheard' = {}
  /\ UNCHANGED <<level, mirror, appVars, raced, excused, refused>>

\* led3_ccc_changed, led4_ccc_changed.  What a central knew while it was not
\* subscribed may be out of date.
CccChanged(d, enabled) ==
  /\ active
  /\ notify_enabled' = IF enabled THEN notify_enabled \union {d} ELSE notify_enabled \ {d}
  /\ seen' = [seen EXCEPT ![d] = Skip]
  /\ unheard' = unheard \ {d}
  /\ UNCHANGED <<level, mirror, active, appVars, raced, excused, refused>>

\* read_led3, read_led4.
Read(d) ==
  /\ active
  /\ seen' = [seen EXCEPT ![d] = mirror[d]]
  /\ unheard' = unheard \ {d}
  /\ UNCHANGED <<level, mirror, notify_enabled, active, appVars, raced, excused, refused>>

\* Seeded mistake: no echo to the subscriber.
WriteNoEcho(d, v, works, sent) ==
  /\ active
  /\ mirror' = [mirror EXCEPT ![d] = v]
  /\ level' = IF works THEN [level EXCEPT ![d] = v] ELSE level
  /\ raced' = IF d \in todo THEN raced \union {d} ELSE raced
  /\ excused' = IF works THEN excused \ {d} ELSE excused \union {d}
  /\ UNCHANGED <<notify_enabled, active, appVars, seen, unheard, refused>>

\* write_led3, write_led4 with one byte, 0 or 1 (others are refused, without a
\* change).  led_on and led_off may fail; the mirror is not taken back.
Write(d, v, works, sent) ==
  /\ active
  /\ mirror' = [mirror EXCEPT ![d] = v]
  /\ level' = IF works THEN [level EXCEPT ![d] = v] ELSE level
  /\ raced' = IF d \in todo THEN raced \union {d} ELSE raced
  /\ excused' = IF works THEN excused \ {d} ELSE excused \union {d}
  /\ Notified(d, v, sent)
  /\ UNCHANGED <<notify_enabled, active, appVars, refused>>

-----------------------------------------------------------------------------
(* The application                                                           *)

\* It switches LEDs and calls ble_led_ctrl_service_notify.
Button(new) ==
  /\ app = "idle"
  /\ \E d \in Leds : new[d] # Skip
  /\ level' = [d \in Leds |-> IF new[d] = Skip THEN level[d] ELSE new[d]]
  /\ args' = new
  /\ todo' = {d \in Leds : new[d] # Skip}
  /\ raced' = {}
  /\ refused' = {}
  /\ app' = "called"
  /\ UNCHANGED <<mirror, notify_enabled, active, seen, excused, unheard>>

\* ble_conn_get_active: without a connection nothing is recorded.
GetActive ==
  /\ app = "called"
  /\ IF active
     THEN app' = "set" /\ UNCHANGED <<args, todo, excused>>
     ELSE /\ app' = "idle"
          /\ args' = [d \in Leds |-> Skip]
          /\ todo' = {}
          /\ excused' = excused \union todo
  /\ UNCHANGED <<level, mirror, notify_enabled, active, seen, raced, unheard, refused>>

\* LED3 is dealt with before LED4.
Current == IF "LED3" \in todo THEN "LED3" ELSE "LED4"

\* Seeded mistake: both LEDs are recorded with the first one's value.
SetMirrorBoth ==
  /\ app = "set"
  /\ mirror' = [d \in Leds |-> args[Current]]
  /\ excused' = IF Current \in raced THEN excused \union {Current} ELSE excused \ {Current}
  /\ app' = "notify"
  /\ UNCHANGED <<level, notify_enabled, active, args, todo, seen, raced, unheard, refused>>

SetMirror ==
  /\ app = "set"
  /\ mirror' = [mirror EXCEPT ![Current] = args[Current]]
  /\ excused' = IF Current \in raced THEN excused \union {Current} ELSE excused \ {Current}
  /\ app' = "notify"
  /\ UNCHANGED <<level, notify_enabled, active, args, todo, seen, raced, unheard, refused>>

\* Seeded mistake: the second LED is forgotten.
NotifyFirstOnly(sent) ==
  /\ app = "notify"
  /\ Notified(Current, mirror[Current], sent)
  /\ refused' = IF sent THEN refused ELSE refused \union {Current}
  /\ todo' = {}
  /\ app' = "idle"
  /\ args' = [d \in Leds |-> Skip]
  /\ UNCHANGED <<level, mirror, notify_enabled, active, raced, excused>>

\* Check the flag and notify the central of what the mirror now holds.
Notify(sent) ==
  /\ app = "notify"
  /\ Notified(Current, mirror[Current], sent)
  /\ refused' = IF sent THEN refused ELSE refused \union {Current}
  /\ todo' = todo \ {Current}
  /\ app' = IF todo = {Current} THEN "idle" ELSE "set"
  /\ args' = IF todo = {Current} THEN [d \in Leds |-> Skip] ELSE args
  /\ UNCHANGED <<level, mirror, notify_enabled, active, raced, excused>>

-----------------------------------------------------------------------------
Central ==
  \/ Connect \/ Disconnect
  \/ \E d \in Leds : Read(d)
  \/ \E d \in Leds, enabled \in BOOLEAN : CccChanged(d, enabled)
  \/ \E d \in Leds, v \in Levels, works, sent \in BOOLEAN : Write(d, v, works, sent)

Report == GetActive \/ SetMirror \/ \E sent \in BOOLEAN : Notify(sent)

Next ==
  \/ Central
  \/ \E new \in [Leds -> Levels \union {Skip}] : Button(new)
  \/ Report

\* The report has no wait in it.
Spec     == Init /\ [][Next]_vars
FairSpec == Spec /\ WF_vars(Report)

-----------------------------------------------------------------------------
\* Every variable keeps its range; a report in progress has LEDs left and
\* arguments for them.
TypeOK ==
  /\ level \in [Leds -> Levels]
  /\ mirror \in [Leds -> Levels]
  /\ notify_enabled \subseteq Leds
  /\ active \in BOOLEAN
  /\ app \in {"idle", "called", "set", "notify"}
  /\ args \in [Leds -> Levels \union {Skip}]
  /\ todo \subseteq Leds
  /\ app = "idle" <=> todo = {}
  /\ \A d \in todo : args[d] # Skip
  /\ seen \in [Leds -> Levels \union {Skip}]
  /\ raced \subseteq Leds
  /\ excused \subseteq Leds
  /\ unheard \subseteq notify_enabled
  /\ refused \subseteq Leds
  /\ notify_enabled # {} => active

\* What a read returns is the state of the LED, but for three kinds of change
\* the mirror misses: one reported without a connection, one the GPIO refused,
\* and one that a write of the central overtook before it was recorded.
MirrorUnlessExcused ==
  \A d \in Leds \ (excused \union todo) : mirror[d] = level[d]

\* What a subscribed central has learnt about a LED is what a read would
\* return, whoever changed it last, once a change in progress is reported, but
\* for a LED whose last notification failed: nothing tells the central then
\* until the LED is notified again or read.
SubscriberInSync ==
  \A d \in notify_enabled \ unheard :
    (seen[d] # Skip /\ ~(app = "notify" /\ d = Current)) => seen[d] = mirror[d]

\* A change the application reports reaches a central that stays subscribed,
\* unless bt_gatt_notify fails in this very report.
ReportReachesSubscriber ==
  \A d \in Leds :
    (app = "set" /\ d \in todo)
      ~> (d \notin notify_enabled \/ seen[d] = mirror[d] \/ d \in refused)
=============================================================================

----------------------------- MODULE EventDemo -----------------------------
(***************************************************************************)
(* package_event: a thread waits until both sensors have posted their bit. *)
(* k_event_wait_all with reset = TRUE clears the events when the wait      *)
(* BEGINS, so what is posted while the thread works is not counted.        *)
(***************************************************************************)
EXTENDS Program

EVENT_ALL_SENSORS_READY == {"temperature", "humidity"}

Init ==
  /\ mem = [sensor_event |-> {}]
  /\ pc = [waiter |-> "wait"]
  /\ seen = [round |-> {},       \* bits posted since the wait began
             meanwhile |-> {}]   \* bits posted while the waiter last worked

\* Enters the wait with these bits in the event object.
WaitWith(bits) ==
  /\ mem' = [sensor_event |-> bits]
  /\ Go("waiter", "wait", IF bits = EVENT_ALL_SENSORS_READY THEN "work" ELSE "blocked")
  /\ seen' = [round |-> {}, meanwhile |-> IF bits = EVENT_ALL_SENSORS_READY THEN {} ELSE seen.meanwhile]

Wait == WaitWith({})

Work == Go("waiter", "work", "wait") /\ UNCHANGED <<mem, seen>>

Post(bit) ==
  LET bits  == mem.sensor_event \union {bit}
      wakes == pc.waiter = "blocked" /\ bits = EVENT_ALL_SENSORS_READY IN
  /\ mem' = [sensor_event |-> bits]
  /\ seen' = [round |-> seen.round \union {bit},
              meanwhile |-> IF wakes THEN {}
                            ELSE seen.meanwhile \union (IF pc.waiter = "work" THEN {bit} ELSE {})]
  /\ pc' = IF wakes THEN [pc EXCEPT !.waiter = "work"] ELSE pc

Step(t) ==
  \/ t = "waiter" /\ (Wait \/ Work)
  \/ t \in EVENT_ALL_SENSORS_READY /\ Post(t)

TypeOK ==
  /\ mem.sensor_event \subseteq EVENT_ALL_SENSORS_READY
  /\ pc.waiter \in {"wait", "blocked", "work"}
  /\ seen.round \union seen.meanwhile \subseteq EVENT_ALL_SENSORS_READY

\* The waiter works on readings both of which were posted after it began to
\* wait, and does not sleep on when both are there.
BothFresh ==
  /\ pc.waiter = "work" => seen.round = EVENT_ALL_SENSORS_READY
  /\ pc.waiter = "blocked" => mem.sensor_event = seen.round /\ seen.round # EVENT_ALL_SENSORS_READY

\* The comment over the call (lines 58-60): the bits are cleared right before
\* the wait returns, so a reading posted while the waiter works is still
\* there when it sleeps again, and counts for the next round.
PostsCount == pc.waiter = "blocked" => seen.meanwhile \subseteq mem.sensor_event

\* The wait comes to an end.
Due(k) == k = 1 /\ pc.waiter = "blocked"
=============================================================================

------------------------------ MODULE LvglDemo ------------------------------
(***************************************************************************)
(* lvgl_demo of the pendant, with package_display: a thread waits for the  *)
(* display, runs LVGL and counts the seconds since the start by adding up  *)
(* the sleeps it is about to take, each at most Refresh long.              *)
(***************************************************************************)
EXTENDS Program, Integers

CONSTANTS
  Second,      (* LVGL_DEMO_COUNTER_PERIOD_MS                                *)
  Refresh,     (* CONFIG_PACKAGE_LVGL_DEMO_REFRESH_MS                        *)
  MaxElapsed   (* bound: time in a behaviour                                 *)

TimeAssumption == {Second, Refresh} \subseteq Nat \ {0} /\ Refresh < Second /\ MaxElapsed \in Nat

Init ==
  /\ mem = [display_ready |-> FALSE, blanked |-> TRUE, counter_due_ms |-> 0, sleep_ms |-> 0,
            uptime_s |-> 0, counter_label |-> 0]
  /\ pc = [init |-> "display", demo |-> "poll"]
  /\ seen = 0   \* time since the demo started to count

\* display_init; threads start after the SYS_INIT functions.
DisplayInit ==
  /\ Go("init", "display", "done")
  /\ \E ok \in BOOLEAN : mem' = [mem EXCEPT !.display_ready = ok]
  /\ UNCHANGED seen

\* The thread polls display_is_ready, for ever if display_init failed; then
\* display_power_on unblanks, and a failure of it is only logged.
PowerOn ==
  /\ pc.init = "done"
  /\ mem.display_ready
  /\ Go("demo", "poll", "handle")
  /\ \E ok \in BOOLEAN : mem' = [mem EXCEPT !.blanked = ~ok]
  /\ UNCHANGED seen

\* lv_timer_handler tells when it wants to be called again.
Handle ==
  \E lvgl_sleep_ms \in 0 .. Refresh + 1 :
    LET sleep == IF lvgl_sleep_ms < Refresh THEN lvgl_sleep_ms ELSE Refresh
        due   == mem.counter_due_ms - sleep
    IN /\ Go("demo", "handle", "sleep")
       /\ mem' = IF due > 0
                 THEN [mem EXCEPT !.sleep_ms = sleep, !.counter_due_ms = due]
                 ELSE [mem EXCEPT !.sleep_ms = sleep, !.counter_due_ms = Second,
                                  !.counter_label = mem.uptime_s, !.uptime_s = @ + 1]
       /\ UNCHANGED seen

\* A sleep lasts as long as asked, or longer.
Sleep ==
  \E late \in 0 .. 1 :
    /\ seen + mem.sleep_ms + late <= MaxElapsed
    /\ Go("demo", "sleep", "handle")
    /\ seen' = seen + mem.sleep_ms + late
    /\ UNCHANGED mem

Step(t) ==
  \/ t = "init" /\ DisplayInit
  \/ t = "demo" /\ (PowerOn \/ Handle \/ Sleep)

TypeOK ==
  /\ {mem.display_ready, mem.blanked} \subseteq BOOLEAN
  /\ mem.counter_due_ms \in 0 .. Second
  /\ mem.sleep_ms \in 0 .. Refresh
  /\ {mem.uptime_s, mem.counter_label} \subseteq 0 .. MaxElapsed + 1
  /\ pc.init \in {"display", "done"} /\ pc.demo \in {"poll", "handle", "sleep"}

\* However LVGL cuts the time, what the thread has counted, whole seconds and
\* the part of the next one, never exceeds the time that has passed and the
\* sleep it has just counted in advance.
Counted == IF mem.uptime_s = 0 THEN 0
           ELSE mem.counter_label * Second + Second - mem.counter_due_ms
NoUpdateLost == Counted <= seen + (IF pc.demo = "sleep" THEN mem.sleep_ms ELSE 0)

\* With a display that came up the demo starts.
Due(k) == k = 1 /\ pc.demo = "poll" /\ (pc.init = "done" => mem.display_ready)
=============================================================================

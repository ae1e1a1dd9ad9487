----------------------------- MODULE LcdDisplay -----------------------------
(***************************************************************************)
(* The display of package_lcd_ui with its asynchronous flush, and the      *)
(* frame counter of package_sys_monitor.                                   *)
(*                                                                         *)
(* The UI thread renders frames; each dirty area is flushed by three       *)
(* blocking commands and a DMA transfer on the same SPI bus, whose         *)
(* completion runs in an interrupt.  The monitor thread has a lower        *)
(* priority (10 against 7): the UI thread can run between any two of its   *)
(* steps, but not it between two of a UI thread that does not wait.        *)
(*                                                                         *)
(* LVGL is external: it waits for lv_disp_flush_ready before it flushes    *)
(* again, and calls monitor_cb at the end of a frame in which something    *)
(* was drawn.                                                              *)
(***************************************************************************)
EXTENDS Naturals

CONSTANTS
  MaxAreas,    (* dirty areas in a frame, at most                           *)
  MaxDrawn     (* bound: frames drawn in a behaviour                        *)

ASSUME BoundAssumption == MaxAreas \in Nat /\ MaxDrawn \in Nat

VARIABLES
  ui,               \* the UI thread
  areas,            \* areas left to flush in this frame
  drawn,            \* something was drawn in this frame
  switched,         \* display_blanking_off and lcd_backlight_on were called
  installed,        \* flush_cb is lcd_async_flush_cb
  flushing,         \* LVGL waits for lv_disp_flush_ready
  dma,              \* a pixel transfer is in flight
  idle_sem,         \* async_flush_idle_sem
  monitor,          \* the monitor thread
  hooked,           \* monitor_cb is sys_monitor_lv_refr_cb
  s_frame_count,
  frames,           \* the monitor's local copy
  refreshed,        \* history: frames since the hook
  reported          \* history: sum of the frames reported

uiVars      == <<ui, areas, drawn, switched, installed>>
flushVars   == <<flushing, dma, idle_sem>>
monitorVars == <<monitor, hooked, s_frame_count, frames, refreshed, reported>>
vars        == <<uiVars, flushVars, monitorVars>>

Init ==
  /\ ui = "start"
  /\ areas = 0
  /\ drawn = FALSE
  /\ switched = FALSE
  /\ installed = FALSE
  /\ flushing = FALSE
  /\ dma = FALSE
  /\ idle_sem = 1
  /\ monitor = "hook"
  /\ hooked = FALSE
  /\ s_frame_count = 0
  /\ frames = 0
  /\ refreshed = 0
  /\ reported = 0

-----------------------------------------------------------------------------
(* The UI thread                                                             *)

\* No display device: the thread ends.
NoDisplay ==
  /\ ui = "start"
  /\ ui' = "ended"
  /\ UNCHANGED <<areas, drawn, switched, installed, flushVars, monitorVars>>

\* Correct MADCTL, install the flush callback (which may fail: the blocking
\* one of the driver stays) and create the widgets.
Start ==
  /\ ui = "start"
  /\ installed' \in BOOLEAN
  /\ ui' = "frame"
  /\ UNCHANGED <<areas, drawn, switched, flushVars, monitorVars>>

\* lv_task_handler finds n dirty areas; the first frame draws the screen.
BeginFrame(n) ==
  /\ ui = "frame"
  /\ ~switched => n > 0
  /\ refreshed < MaxDrawn \/ n = 0
  /\ areas' = n
  /\ drawn' = (n > 0)
  /\ ui' = "area"
  /\ UNCHANGED <<switched, installed, flushVars, monitorVars>>

\* LVGL waits until it may flush and calls flush_cb for the next area (the
\* driver's own returns when the area is out).
NextArea ==
  /\ ui = "area"
  /\ areas > 0
  /\ ~flushing
  /\ flushing' = installed
  /\ areas' = areas - 1
  /\ ui' = IF installed THEN "caset" ELSE "area"
  /\ UNCHANGED <<drawn, switched, installed, dma, idle_sem, monitorVars>>

\* The end of a frame: sys_monitor_lv_refr_cb, then, after the first one, the
\* wait for the bus.
EndFrame ==
  /\ ui = "area"
  /\ areas = 0
  /\ IF drawn /\ hooked
     THEN s_frame_count' = s_frame_count + 1 /\ refreshed' = refreshed + 1
     ELSE UNCHANGED <<s_frame_count, refreshed>>
  /\ ui' = IF switched THEN "frame" ELSE "wait_idle"
  /\ UNCHANGED <<areas, drawn, switched, installed, flushVars, monitor, hooked, frames, reported>>

\* Seeded mistake: display_blanking_off without the wait.
NoWaitIdle ==
  /\ ui = "wait_idle"
  /\ ui' = "unblank"
  /\ UNCHANGED <<areas, drawn, switched, installed, flushVars, monitorVars>>

\* lcd_async_flush_wait_idle: take and give back.
WaitIdle ==
  /\ ui = "wait_idle"
  /\ idle_sem = 1
  /\ ui' = "unblank"
  /\ UNCHANGED <<areas, drawn, switched, installed, flushVars, monitorVars>>

\* display_blanking_off (a blocking command) and lcd_backlight_on.  Either may
\* fail: nobody looks at the results and neither is tried again.
Unblank ==
  /\ ui = "unblank"
  /\ switched' = TRUE
  /\ ui' = "frame"
  /\ UNCHANGED <<areas, drawn, installed, flushVars, monitorVars>>

-----------------------------------------------------------------------------
(* lcd_async_flush_cb                                                        *)

\* The three blocking commands: each is sent, or fails.
Command ==
  /\ \/ ui = "caset" /\ ui' \in {"paset", "fail"}
     \/ ui = "paset" /\ ui' \in {"ramwr", "fail"}
     \/ ui = "ramwr" /\ ui' \in {"take", "fail"}
  /\ UNCHANGED <<areas, drawn, switched, installed, flushVars, monitorVars>>

Take ==
  /\ ui = "take"
  /\ idle_sem = 1
  /\ idle_sem' = 0
  /\ ui' = "transfer"
  /\ UNCHANGED <<areas, drawn, switched, installed, flushing, dma, monitorVars>>

\* spi_transceive_cb starts the transfer and flush_cb returns ...
Transfer ==
  /\ ui = "transfer"
  /\ dma' = TRUE
  /\ ui' = "area"
  /\ UNCHANGED <<areas, drawn, switched, installed, flushing, idle_sem, monitorVars>>

\* Seeded mistake: a transfer that does not start leaves the bus marked busy.
TransferFailedKeepsBusy ==
  /\ ui = "transfer"
  /\ ui' = "fail"
  /\ UNCHANGED <<areas, drawn, switched, installed, flushing, dma, idle_sem, monitorVars>>

\* ... or refuses it: the bus is free again.
TransferFailed ==
  /\ ui = "transfer"
  /\ idle_sem' = 1
  /\ ui' = "fail"
  /\ UNCHANGED <<areas, drawn, switched, installed, flushing, dma, monitorVars>>

\* Seeded mistakes: every failure gives the semaphore, which has no upper
\* limit to hide it; a flush that failed is not reported to LVGL.
FailGivesAgain ==
  /\ ui = "fail"
  /\ idle_sem' = idle_sem + 1
  /\ flushing' = FALSE
  /\ ui' = "area"
  /\ UNCHANGED <<areas, drawn, switched, installed, dma, monitorVars>>

FailSilently ==
  /\ ui = "fail"
  /\ ui' = "area"
  /\ UNCHANGED <<areas, drawn, switched, installed, flushVars, monitorVars>>

\* A flush that failed is reported as done, so that LVGL goes on.
Fail ==
  /\ ui = "fail"
  /\ flushing' = FALSE
  /\ ui' = "area"
  /\ UNCHANGED <<areas, drawn, switched, installed, dma, idle_sem, monitorVars>>

\* lcd_async_flush_done, in the interrupt that ends the transfer.
Done ==
  /\ dma
  /\ dma' = FALSE
  /\ idle_sem' = 1
  /\ flushing' = FALSE
  /\ UNCHANGED <<uiVars, monitorVars>>

-----------------------------------------------------------------------------
(* The monitor thread                                                        *)

\* sys_monitor_hook_display, once the display is there.
Hook ==
  /\ monitor = "hook"
  /\ hooked' = TRUE
  /\ monitor' = "read"
  /\ UNCHANGED <<uiVars, flushVars, s_frame_count, frames, refreshed, reported>>

\* Seeded mistake: the counter is not reset.
ReadOnly ==
  /\ monitor = "read"
  /\ frames' = s_frame_count
  /\ reported' = reported + s_frame_count
  /\ UNCHANGED <<uiVars, flushVars, monitor, hooked, s_frame_count, refreshed>>

\* After the period: read the counter ...
Read ==
  /\ monitor = "read"
  /\ frames' = s_frame_count
  /\ reported' = reported + s_frame_count
  /\ monitor' = "reset"
  /\ UNCHANGED <<uiVars, flushVars, hooked, s_frame_count, refreshed>>

\* ... and reset it; the report follows.
Reset ==
  /\ monitor = "reset"
  /\ s_frame_count' = 0
  /\ frames' = 0
  /\ monitor' = "read"
  /\ UNCHANGED <<uiVars, flushVars, hooked, refreshed, reported>>

-----------------------------------------------------------------------------
Flush   == Command \/ Take \/ Transfer \/ TransferFailed \/ Fail
Ui      == NoDisplay \/ Start \/ (\E n \in 0 .. MaxAreas : BeginFrame(n)) \/ NextArea
           \/ EndFrame \/ WaitIdle \/ Unblank \/ Flush
Monitor == Hook \/ Read \/ Reset

Next == Ui \/ Done \/ Monitor

(***************************************************************************)
(* The UI thread runs when it can, and a transfer that started ends.       *)
(***************************************************************************)
Spec     == Init /\ [][Next]_vars
FairSpec == Spec /\ WF_vars(Ui) /\ WF_vars(Done)

-----------------------------------------------------------------------------
Commands  == {"caset", "paset", "ramwr"}
InFlushCb == Commands \union {"take", "transfer", "fail"}

\* Every variable keeps its range.
TypeOK ==
  /\ ui \in {"start", "ended", "frame", "area", "wait_idle", "unblank"} \union InFlushCb
  /\ areas \in 0 .. MaxAreas
  /\ drawn \in BOOLEAN /\ switched \in BOOLEAN /\ installed \in BOOLEAN
  /\ flushing \in BOOLEAN /\ dma \in BOOLEAN /\ hooked \in BOOLEAN
  /\ idle_sem \in {0, 1}
  /\ monitor \in {"hook", "read", "reset"}
  /\ s_frame_count \in Nat /\ frames \in Nat /\ refreshed \in Nat /\ reported \in Nat

\* No blocking command goes out on the SPI bus while a pixel transfer is in
\* flight on it, neither of the next flush nor of display_blanking_off.
BusExclusive == ui \in Commands \union {"unblank"} => ~dma

\* LVGL's wait for a flush and the busy mark of the bus end exactly when the
\* flush does, on every path out of it: one lv_disp_flush_ready and one give
\* per flush.
FlushBookkeeping ==
  /\ flushing = (ui \in InFlushCb \/ dma)
  /\ idle_sem = IF ui = "transfer" \/ dma THEN 0 ELSE 1

\* The monitor may lose frames drawn between its read and its reset, but it
\* never reports one twice.
NeverOverReported == reported + s_frame_count <= refreshed + frames

\* Whatever fails in a flush, the UI thread comes to switch the screen on and
\* gets back to LVGL's task handler again and again, unless there is no display.
\* Whether panel and backlight obey is not known to it.
UiGoesOn ==
  \/ <>(ui = "ended")
  \/ <>switched /\ []<>(ui = "frame")
=============================================================================

------------------------- MODULE LcdDisplay_proofs -------------------------
(***************************************************************************)
(* Proofs about the display, its asynchronous flush and the frame counter, *)
(* for every number of dirty areas and of frames.                          *)
(***************************************************************************)
EXTENDS LcdDisplay, TLAPS

USE BoundAssumption

-----------------------------------------------------------------------------
(* Type correctness                                                          *)

\* Every variable keeps its range, on every path through the flush callback.
THEOREM TypeCorrect == Spec => []TypeOK
<1>. USE DEF TypeOK, InFlushCb, Commands
<1>1. Init => TypeOK
  <2>. SUFFICES ASSUME Init PROVE TypeOK
    OBVIOUS
  <2>1. areas \in 0 .. MaxAreas /\ idle_sem \in {0, 1}
    BY DEF Init
  <2>2. s_frame_count \in Nat /\ frames \in Nat /\ refreshed \in Nat /\ reported \in Nat
    BY DEF Init
  <2>. QED  BY <2>1, <2>2, Zenon DEF Init
<1>2. TypeOK /\ [Next]_vars => TypeOK'
  <2>. SUFFICES ASSUME TypeOK, [Next]_vars
                PROVE  TypeOK'
    OBVIOUS
  <2>. USE DEF uiVars, flushVars, monitorVars
  <2>1. CASE NoDisplay \/ Start
    BY <2>1 DEF NoDisplay, Start
  <2>2. ASSUME NEW n \in 0 .. MaxAreas, BeginFrame(n)
        PROVE  TypeOK'
    BY <2>2 DEF BeginFrame
  <2>3. CASE NextArea
    BY <2>3 DEF NextArea
  <2>4. CASE EndFrame
    BY <2>4 DEF EndFrame
  <2>5. CASE WaitIdle \/ Unblank
    BY <2>5 DEF WaitIdle, Unblank
  <2>6. CASE Command
    BY <2>6 DEF Command
  <2>7. CASE Take \/ Transfer \/ TransferFailed \/ Fail
    BY <2>7 DEF Take, Transfer, TransferFailed, Fail
  <2>8. CASE Done
    BY <2>8 DEF Done
  <2>9. CASE Hook \/ Read \/ Reset
    <3>1. /\ s_frame_count' \in Nat /\ frames' \in Nat
          /\ refreshed' \in Nat /\ reported' \in Nat
      BY <2>9 DEF Hook, Read, Reset
    <3>2. monitor' \in {"hook", "read", "reset"} /\ hooked' \in BOOLEAN
      BY <2>9 DEF Hook, Read, Reset
    <3>3. UNCHANGED <<uiVars, flushVars>>
      BY <2>9 DEF Hook, Read, Reset
    <3>. QED  BY <3>1, <3>2, <3>3
  <2>10. CASE UNCHANGED vars
    BY <2>10 DEF vars
  <2>. QED
    BY <2>1, <2>2, <2>3, <2>4, <2>5, <2>6, <2>7, <2>8, <2>9, <2>10 DEF Next, Ui, Flush, Monitor
<1>. QED  BY <1>1, <1>2, PTL DEF Spec

-----------------------------------------------------------------------------
(* The flush.  BusExclusive speaks of commands only; what carries it from    *)
(* one to the next is that the whole flush callback runs without a transfer  *)
(* in flight, and that LVGL's wait and the busy mark tell the two apart.     *)

FlushInv ==
  /\ ui \in InFlushCb \union {"unblank"} => ~dma
  /\ FlushBookkeeping

LEMMA FlushInvariant == Spec => []FlushInv
<1>. USE DEF FlushInv, FlushBookkeeping, InFlushCb, Commands
<1>1. Init => FlushInv
  BY DEF Init
<1>2. TypeOK /\ FlushInv /\ [Next]_vars => FlushInv'
  <2>. SUFFICES ASSUME TypeOK, FlushInv, [Next]_vars
                PROVE  FlushInv'
    OBVIOUS
  <2>0. flushing \in BOOLEAN /\ dma \in BOOLEAN /\ installed \in BOOLEAN
    BY DEF TypeOK
  <2>. USE DEF uiVars, flushVars, monitorVars
  <2>1. CASE NoDisplay \/ Start
    BY <2>0, <2>1 DEF NoDisplay, Start
  <2>2. ASSUME NEW n \in 0 .. MaxAreas, BeginFrame(n)
        PROVE  FlushInv'
    BY <2>0, <2>2 DEF BeginFrame
  <2>3. CASE NextArea
    BY <2>0, <2>3 DEF NextArea
  <2>4. CASE EndFrame
    BY <2>0, <2>4 DEF EndFrame
  <2>5. CASE WaitIdle \/ Unblank
    BY <2>0, <2>5 DEF WaitIdle, Unblank
  <2>6. CASE Command
    BY <2>0, <2>6 DEF Command
  <2>7. CASE Take
    BY <2>0, <2>7 DEF Take
  <2>8. CASE Transfer \/ TransferFailed
    BY <2>0, <2>8 DEF Transfer, TransferFailed
  <2>9. CASE Fail
    BY <2>0, <2>9 DEF Fail
  <2>10. CASE Done
    BY <2>0, <2>10 DEF Done
  <2>11. CASE Hook \/ Read \/ Reset
    BY <2>0, <2>11 DEF Hook, Read, Reset
  <2>12. CASE UNCHANGED vars
    BY <2>0, <2>12 DEF vars
  <2>. QED
    BY <2>1, <2>2, <2>3, <2>4, <2>5, <2>6, <2>7, <2>8, <2>9, <2>10, <2>11, <2>12
       DEF Next, Ui, Flush, Monitor
<1>. QED  BY <1>1, <1>2, TypeCorrect, PTL DEF Spec

\* No blocking command is sent while a pixel transfer is in flight on the bus.
THEOREM BusExclusiveHolds == Spec => []BusExclusive
<1>1. FlushInv => BusExclusive
  BY DEF FlushInv, BusExclusive, InFlushCb
<1>. QED  BY <1>1, FlushInvariant, PTL

\* LVGL's wait and the busy mark of the bus end with the flush, on every path
\* out of it.
THEOREM FlushBookkeepingHolds == Spec => []FlushBookkeeping
BY FlushInvariant, PTL DEF FlushInv

-----------------------------------------------------------------------------
(* The frame counter.  Outside the window between its read and its reset the *)
(* monitor has nothing in hand, and what it reported was drawn.              *)

CountInv ==
  /\ NeverOverReported
  /\ monitor # "reset" => frames = 0
  /\ reported <= refreshed

\* The monitor never reports a frame twice.
THEOREM NeverOverReportedHolds == Spec => []NeverOverReported
<1>. USE DEF CountInv, NeverOverReported
<1>1. Init => CountInv
  BY DEF Init
<1>2. TypeOK /\ CountInv /\ [Next]_vars => CountInv'
  <2>. SUFFICES ASSUME TypeOK, CountInv, [Next]_vars
                PROVE  CountInv'
    OBVIOUS
  <2>0. s_frame_count \in Nat /\ frames \in Nat /\ refreshed \in Nat /\ reported \in Nat
    BY DEF TypeOK
  <2>1. CASE UNCHANGED monitorVars
    BY <2>1 DEF monitorVars
  <2>2. CASE EndFrame
    BY <2>0, <2>2 DEF EndFrame
  <2>3. CASE Hook
    BY <2>0, <2>3 DEF Hook
  <2>4. CASE Read
    BY <2>0, <2>4 DEF Read
  <2>5. CASE Reset
    BY <2>0, <2>5 DEF Reset
  <2>6. EndFrame \/ Hook \/ Read \/ Reset \/ UNCHANGED monitorVars
    BY DEF Next, Ui, Flush, Monitor, vars, NoDisplay, Start, BeginFrame, NextArea, WaitIdle,
           Unblank, Command, Take, Transfer, TransferFailed, Fail, Done
  <2>. QED  BY <2>1, <2>2, <2>3, <2>4, <2>5, <2>6
<1>3. CountInv => NeverOverReported
  OBVIOUS
<1>. QED  BY <1>1, <1>2, <1>3, TypeCorrect, PTL DEF Spec
=============================================================================

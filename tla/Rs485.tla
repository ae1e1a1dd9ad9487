------------------------------- MODULE Rs485 -------------------------------
(***************************************************************************)
(* Sending on the half-duplex RS485 bus (package_rs485).  rs485_send       *)
(* stages a frame under tx_lock, drives the transceiver into transmit      *)
(* mode, lets the interrupt handler feed the UART and waits, with a        *)
(* timeout, for the handler to report that the line has drained.           *)
(*                                                                         *)
(* Each call that stages a frame gets a number; byte i of frame f is       *)
(* <<f, i>>.  The UART (FIFO and shift register) is external: it holds up  *)
(* to HwFifo bytes and shifts them out one by one, in its own time, onto   *)
(* the bus when the transceiver is in transmit mode and to nowhere when it *)
(* is not.                                                                 *)
(***************************************************************************)
EXTENDS Naturals, Sequences

CONSTANTS
  Senders,    (* threads that call rs485_send                               *)
  SendLens,   (* the lengths they pass, 0 included                          *)
  TxBuffer,   (* CONFIG_PACKAGE_RS485_TX_BUFFER_SIZE                        *)
  HwFifo,     (* bytes the UART holds                                       *)
  MaxFrames   (* bound: frames staged in a behaviour                        *)

ASSUME SizeAssumption ==
  /\ SendLens \subseteq Nat
  /\ TxBuffer \in Nat \ {0}
  /\ HwFifo \in Nat \ {0}
  /\ MaxFrames \in Nat

ASSUME NameAssumption == "free" \notin Senders

VARIABLES
  booted,       \* rs485_init has run
  rs485_ready,
  pc,           \* where each sender is in rs485_send
  frame,        \* the frame its last call staged, 0 if none
  err,          \* the result of its last call; its local err during a call
  frames,       \* number of the last frame staged
  tx_lock,
  tx_buf,       \* the frame the staging buffer holds
  tx_len,
  tx_pos,
  tx_done_sem,
  tx_irq,       \* the TX interrupt is enabled
  de,           \* the transceiver is in transmit mode
  isr,          \* rs485_uart_isr is running
  hw,           \* bytes in the UART, oldest first
  bus           \* history: bytes that reached the bus

callVars  == <<pc, frame, err, frames>>
stageVars == <<tx_buf, tx_len, tx_pos>>
initVars  == <<booted, rs485_ready>>
drvVars   == <<initVars, callVars, tx_lock, stageVars, tx_done_sem, tx_irq, de, hw, bus>>
vars      == <<drvVars, isr>>

Least(a, b) == IF a <= b THEN a ELSE b

Init ==
  /\ booted = FALSE
  /\ rs485_ready = FALSE
  /\ pc = [s \in Senders |-> "idle"]
  /\ frame = [s \in Senders |-> 0]
  /\ err = [s \in Senders |-> "ok"]
  /\ frames = 0
  /\ tx_lock = "free"
  /\ tx_buf = 0
  /\ tx_len = 0
  /\ tx_pos = 0
  /\ tx_done_sem = 0
  /\ tx_irq = FALSE
  /\ de = FALSE
  /\ isr = FALSE
  /\ hw = <<>>
  /\ bus = <<>>

Goto(s, label) == pc' = [pc EXCEPT ![s] = label]

\* rs485_init, run by SYS_INIT before any thread.  Any of its checks may fail;
\* then rs485_ready stays FALSE.
InitDriver ==
  /\ ~booted
  /\ booted' = TRUE
  /\ rs485_ready' \in BOOLEAN
  /\ UNCHANGED <<callVars, tx_lock, stageVars, tx_done_sem, tx_irq, de, hw, bus, isr>>

-----------------------------------------------------------------------------
(* rs485_send                                                                *)

\* A call that returns before it takes the lock.
SendRejected(s, n) ==
  /\ booted
  /\ pc[s] = "idle"
  /\ \/ ~rs485_ready                            /\ err' = [err EXCEPT ![s] = "EAGAIN"]
     \/ rs485_ready /\ n > 0                    /\ err' = [err EXCEPT ![s] = "EINVAL"]
     \/ rs485_ready /\ n = 0                    /\ err' = [err EXCEPT ![s] = "ok"]
     \/ rs485_ready /\ n > TxBuffer             /\ err' = [err EXCEPT ![s] = "EMSGSIZE"]
  /\ frame' = [frame EXCEPT ![s] = 0]
  /\ UNCHANGED <<initVars, pc, frames, tx_lock, stageVars, tx_done_sem, tx_irq, de, hw, bus>>

\* Seeded mistake: a completion left over from a timed-out call is kept.
StageKeepDone(s, n) ==
  /\ rs485_ready
  /\ pc[s] = "idle"
  /\ n \in 1 .. TxBuffer
  /\ frames < MaxFrames
  /\ tx_lock = "free"
  /\ tx_lock' = s
  /\ frames' = frames + 1
  /\ frame' = [frame EXCEPT ![s] = frames + 1]
  /\ tx_buf' = frames + 1
  /\ tx_len' = n
  /\ tx_pos' = 0
  /\ Goto(s, "staged")
  /\ UNCHANGED <<initVars, err, tx_done_sem, tx_irq, de, hw, bus>>

\* Take tx_lock, copy the frame, reset the completion.  One step: the TX
\* interrupt is off and the others wait for the lock.
Stage(s, n) ==
  /\ rs485_ready
  /\ pc[s] = "idle"
  /\ n \in 1 .. TxBuffer
  /\ frames < MaxFrames
  /\ tx_lock = "free"
  /\ tx_lock' = s
  /\ frames' = frames + 1
  /\ frame' = [frame EXCEPT ![s] = frames + 1]
  /\ tx_buf' = frames + 1
  /\ tx_len' = n
  /\ tx_pos' = 0
  /\ tx_done_sem' = 0
  /\ Goto(s, "staged")
  /\ UNCHANGED <<initVars, err, tx_irq, de, hw, bus>>

DriveTx(s) ==
  /\ pc[s] = "staged"
  /\ de' = TRUE
  /\ Goto(s, "driving")
  /\ UNCHANGED <<initVars, frame, err, frames, tx_lock, stageVars, tx_done_sem, tx_irq, hw, bus>>

EnableTxIrq(s) ==
  /\ pc[s] = "driving"
  /\ tx_irq' = TRUE
  /\ Goto(s, "waiting")
  /\ UNCHANGED <<initVars, frame, err, frames, tx_lock, stageVars, tx_done_sem, de, hw, bus>>

\* k_sem_take(&tx_done_sem, timeout) gets the completion ...
TakeDone(s) ==
  /\ pc[s] = "waiting"
  /\ tx_done_sem = 1
  /\ tx_done_sem' = 0
  /\ err' = [err EXCEPT ![s] = "ok"]
  /\ Goto(s, "release")
  /\ UNCHANGED <<initVars, frame, frames, tx_lock, stageVars, tx_irq, de, hw, bus>>

\* Seeded mistake: the wait has no timeout (K_FOREVER).
TakeForever(s) == FALSE /\ UNCHANGED drvVars

\* ... or gives up: the kernel's -EAGAIN becomes the result.
TakeTimeout(s) ==
  /\ pc[s] = "waiting"
  /\ tx_done_sem = 0
  /\ err' = [err EXCEPT ![s] = "EAGAIN"]
  /\ Goto(s, "timedout")
  /\ UNCHANGED <<initVars, frame, frames, tx_lock, stageVars, tx_done_sem, tx_irq, de, hw, bus>>

\* Seeded mistake: after a timeout the TX interrupt stays enabled.
AbandonTxKeepIrq(s) ==
  /\ pc[s] = "timedout"
  /\ Goto(s, "release")
  /\ UNCHANGED <<initVars, frame, err, frames, tx_lock, stageVars, tx_done_sem, tx_irq, de, hw, bus>>

AbandonTx(s) ==
  /\ pc[s] = "timedout"
  /\ tx_irq' = FALSE
  /\ Goto(s, "release")
  /\ UNCHANGED <<initVars, frame, err, frames, tx_lock, stageVars, tx_done_sem, de, hw, bus>>

DriveRx(s) ==
  /\ pc[s] = "release"
  /\ de' = FALSE
  /\ Goto(s, "unlock")
  /\ UNCHANGED <<initVars, frame, err, frames, tx_lock, stageVars, tx_done_sem, tx_irq, hw, bus>>

Unlock(s) ==
  /\ pc[s] = "unlock"
  /\ tx_lock' = "free"
  /\ Goto(s, "idle")
  /\ UNCHANGED <<initVars, frame, err, frames, stageVars, tx_done_sem, tx_irq, de, hw, bus>>

-----------------------------------------------------------------------------
(* The UART and rs485_uart_isr.  On a single core no thread runs, and no     *)
(* timeout ends, before the handler returns; its loop goes round as long as  *)
(* the interrupt is pending.                                                 *)

\* uart_irq_tx_ready: the interrupt is enabled and the UART has room.
TxReady == tx_irq /\ Len(hw) < HwFifo

EnterIsr ==
  /\ ~isr
  /\ TxReady
  /\ isr' = TRUE
  /\ UNCHANGED drvVars

\* uart_irq_is_pending says no.
LeaveIsr ==
  /\ isr
  /\ ~TxReady
  /\ isr' = FALSE
  /\ UNCHANGED drvVars

\* Seeded mistake: the UART is filled up without looking at what is left.
FillPastFrame ==
  LET sent == HwFifo - Len(hw)
  IN  /\ TxReady
      /\ tx_pos < tx_len
      /\ hw' = hw \o [i \in 1 .. sent |-> <<tx_buf, tx_pos + i>>]
      /\ tx_pos' = tx_pos + sent
      /\ UNCHANGED <<initVars, callVars, tx_lock, tx_buf, tx_len, tx_done_sem, tx_irq, de, bus>>

\* Seeded mistake: what the UART took is counted one short.
FillCountedShort ==
  LET sent == Least(HwFifo - Len(hw), tx_len - tx_pos)
  IN  /\ TxReady
      /\ tx_pos < tx_len
      /\ hw' = hw \o [i \in 1 .. sent |-> <<tx_buf, tx_pos + i>>]
      /\ tx_pos' = tx_pos + sent - 1
      /\ UNCHANGED <<initVars, callVars, tx_lock, tx_buf, tx_len, tx_done_sem, tx_irq, de, bus>>

\* rs485_handle_tx: feed the UART ...
FillFifo ==
  LET sent == Least(HwFifo - Len(hw), tx_len - tx_pos)
  IN  /\ TxReady
      /\ tx_pos < tx_len
      /\ hw' = hw \o [i \in 1 .. sent |-> <<tx_buf, tx_pos + i>>]
      /\ tx_pos' = tx_pos + sent
      /\ UNCHANGED <<initVars, callVars, tx_lock, tx_buf, tx_len, tx_done_sem, tx_irq, de, bus>>

\* ... signal completion once everything is out (uart_irq_tx_complete) ...
SignalDone ==
  /\ TxReady
  /\ tx_pos = tx_len
  /\ hw = <<>>
  /\ tx_irq' = FALSE
  /\ tx_done_sem' = 1
  /\ UNCHANGED <<initVars, callVars, tx_lock, stageVars, de, hw, bus>>

\* ... or, with bytes still on their way out, do nothing and leave the interrupt
\* on: the loop of the handler goes round.
NotDrained ==
  /\ TxReady
  /\ tx_pos = tx_len
  /\ hw # <<>>
  /\ UNCHANGED drvVars

\* The UART, also while the handler runs.
ShiftOut ==
  /\ hw # <<>>
  /\ hw' = Tail(hw)
  /\ bus' = IF de THEN Append(bus, Head(hw)) ELSE bus
  /\ UNCHANGED <<initVars, callVars, tx_lock, stageVars, tx_done_sem, tx_irq, de>>

-----------------------------------------------------------------------------
\* A step of a thread.
StartCall(s, n) ==
  /\ ~isr
  /\ SendRejected(s, n) \/ Stage(s, n)
  /\ UNCHANGED isr

InCall(s) ==
  /\ ~isr
  /\ \/ DriveTx(s) \/ EnableTxIrq(s)
     \/ TakeDone(s) \/ TakeTimeout(s) \/ AbandonTx(s)
     \/ DriveRx(s) \/ Unlock(s)
  /\ UNCHANGED isr

\* One round of the handler's loop.
HandleTx ==
  /\ isr
  /\ FillFifo \/ SignalDone \/ NotDrained
  /\ UNCHANGED isr

Next ==
  \/ InitDriver
  \/ \E s \in Senders, n \in SendLens : StartCall(s, n)
  \/ \E s \in Senders : InCall(s)
  \/ EnterIsr \/ HandleTx \/ LeaveIsr
  \/ ShiftOut /\ UNCHANGED isr

(***************************************************************************)
(* A thread inside rs485_send is ready to run or waits with a timeout, so  *)
(* it keeps going when the handler lets it; the handler keeps going.  The  *)
(* UART may be stuck: no fairness for it.                                  *)
(***************************************************************************)
Spec     == Init /\ [][Next]_vars
FairSpec ==
  /\ Spec
  /\ \A s \in Senders : WF_vars(InCall(s))
  /\ WF_vars(HandleTx \/ LeaveIsr)

-----------------------------------------------------------------------------
FrameBytes(f) == {i \in 1 .. TxBuffer : \E k \in 1 .. Len(bus) : bus[k] = <<f, i>>}

\* Every variable keeps the range its C declaration and its uses give it; the
\* UART never holds more than it can.
TypeOK ==
  /\ booted \in BOOLEAN
  /\ rs485_ready \in BOOLEAN
  /\ pc \in [Senders -> {"idle", "staged", "driving", "waiting", "timedout", "release", "unlock"}]
  /\ frame \in [Senders -> 0 .. MaxFrames]
  /\ err \in [Senders -> {"ok", "EAGAIN", "EINVAL", "EMSGSIZE"}]
  /\ frames \in 0 .. MaxFrames
  /\ tx_lock \in Senders \union {"free"}
  /\ tx_buf \in 0 .. MaxFrames
  /\ tx_len \in 0 .. TxBuffer
  /\ tx_pos \in 0 .. tx_len
  /\ tx_done_sem \in {0, 1}
  /\ tx_irq \in BOOLEAN
  /\ de \in BOOLEAN
  /\ isr \in BOOLEAN
  /\ hw \in Seq((1 .. MaxFrames) \X (1 .. TxBuffer))
  /\ Len(hw) <= HwFifo
  /\ bus \in Seq((1 .. MaxFrames) \X (1 .. TxBuffer))

\* When no call is in progress the bus is released for the other nodes: the
\* transceiver receives and the TX interrupt cannot touch the staging buffer,
\* also after a timeout that raced with the completion.
BusReleased == tx_lock = "free" => ~de /\ ~tx_irq

\* rs485_send returns 0 only when every byte of its frame reached the bus
\* while the transceiver was in transmit mode, however earlier calls ended.
SuccessMeansSent ==
  \A s \in Senders :
    (pc[s] \in {"release", "unlock"} /\ err[s] = "ok") => FrameBytes(frame[s]) = 1 .. tx_len

\* Bytes reach the bus in the order of the calls and of the bytes of a frame:
\* what a timed-out call left in the UART comes before the next frame, never
\* inside it or after it.
BusInOrder ==
  \A i \in 1 .. Len(bus) - 1 :
    \/ bus[i][1] < bus[i + 1][1]
    \/ bus[i][1] = bus[i + 1][1] /\ bus[i][2] < bus[i + 1][2]

\* The handler goes round its loop without doing anything: all bytes are handed
\* over, the UART has room for more and has not drained.
Spinning == isr /\ TxReady /\ tx_pos = tx_len /\ hw # <<>>

\* Every call comes back, also when the UART is stuck with a full FIFO (the wait
\* has a timeout), unless the UART is stuck with room in it: then the interrupt
\* handler spins for ever and keeps the timeout away.
SendReturns ==
  []<>~Spinning => (\A s \in Senders : pc[s] = "staged" ~> pc[s] = "idle")
=============================================================================

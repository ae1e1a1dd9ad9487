---------------------------- MODULE Rs485_proofs ----------------------------
(***************************************************************************)
(* Proofs about sending on the RS485 bus, for every number of senders,     *)
(* every length of frames, and every size of the staging buffer and of the *)
(* UART.                                                                   *)
(***************************************************************************)
EXTENDS Rs485, SequenceTheorems, TLAPS

USE SizeAssumption, NameAssumption

Byte == (1 .. MaxFrames) \X (1 .. TxBuffer)

-----------------------------------------------------------------------------
(* Facts about the sequences of the model.                                   *)

\* What rs485_handle_tx puts into the UART comes after what is there.
LEMMA FillProperties ==
  ASSUME NEW q \in Seq(Byte), NEW new \in Seq(Byte)
  PROVE  /\ q \o new \in Seq(Byte)
         /\ Len(q \o new) = Len(q) + Len(new)
         /\ \A k \in 1 .. Len(q) : (q \o new)[k] = q[k]
         /\ \A k \in Len(q) + 1 .. Len(q) + Len(new) : (q \o new)[k] = new[k - Len(q)]
<1>1. /\ q \o new \in Seq(Byte)
      /\ Len(q \o new) = Len(q) + Len(new)
      /\ \A i \in 1 .. Len(q) + Len(new) :
           (q \o new)[i] = IF i <= Len(q) THEN q[i] ELSE new[i - Len(q)]
  BY ConcatProperties
<1>2. Len(q) \in Nat /\ Len(new) \in Nat
  BY LenProperties
<1>3. \A k \in 1 .. Len(q) : (q \o new)[k] = q[k]
  BY <1>1, <1>2
<1>4. ASSUME NEW k \in Len(q) + 1 .. Len(q) + Len(new)
      PROVE  (q \o new)[k] = new[k - Len(q)]
  <2>1. k \in 1 .. Len(q) + Len(new) /\ ~(k <= Len(q))
    BY <1>2
  <2>. QED  BY <1>1, <2>1
<1>. QED  BY <1>1, <1>3, <1>4

-----------------------------------------------------------------------------
(* Apart from coming and going, the handler is its rounds: what changes the  *)
(* driver is a step of a thread, of a round or of the UART.                  *)

Uart == FillFifo \/ SignalDone \/ ShiftOut

LEMMA NextSteps ==
  [Next]_vars =>
    \/ InitDriver \/ Uart \/ UNCHANGED drvVars
    \/ \E s \in Senders, n \in SendLens : SendRejected(s, n) \/ Stage(s, n)
    \/ \E s \in Senders : InCall(s)
BY DEF Next, vars, StartCall, EnterIsr, LeaveIsr, HandleTx, NotDrained, Uart

LEMMA IsrStep == isr \in BOOLEAN /\ [Next]_vars => isr' \in BOOLEAN
BY DEF Next, vars, InitDriver, StartCall, InCall, EnterIsr, LeaveIsr, HandleTx

-----------------------------------------------------------------------------
(* The lock.  Its holder is the one sender inside rs485_send, and what it    *)
(* does to the transceiver and to the interrupt follows where it is.         *)

LockInv ==
  \A s \in Senders : pc[s] # "idle" <=> tx_lock = s

OwnerAt(labels) == tx_lock # "free" /\ pc[tx_lock] \in labels

DriverInv ==
  /\ de => OwnerAt({"driving", "waiting", "timedout", "release"})
  /\ OwnerAt({"driving", "waiting", "timedout", "release"}) => de
  /\ tx_irq => OwnerAt({"waiting", "timedout"})
  /\ OwnerAt({"staged", "driving"}) => tx_done_sem = 0
  /\ OwnerAt({"waiting"}) => ~(tx_irq /\ tx_done_sem = 1)

\* The staging buffer holds the frame of the last call that staged one, which
\* is the lock's holder.
StagedInv ==
  /\ tx_buf = frames
  /\ tx_buf = 0 => tx_len = 0
  /\ tx_lock # "free" => frame[tx_lock] = tx_buf /\ tx_buf # 0


\* A step of a call is a step of the lock's holder.
LEMMA HolderSteps ==
  ASSUME LockInv, NEW s \in Senders, InCall(s)
  PROVE  tx_lock = s /\ s # "free" /\ pc[s] # "idle"
BY DEF LockInv, InCall, DriveTx, EnableTxIrq, TakeDone, TakeTimeout, AbandonTx, DriveRx, Unlock

LEMMA LockStep == TypeOK /\ LockInv /\ [Next]_vars => LockInv'
<1>. SUFFICES ASSUME TypeOK, LockInv, [Next]_vars
              PROVE  LockInv'
  OBVIOUS
<1>. USE DEF LockInv, Goto, callVars, initVars, stageVars
<1>0. pc \in [Senders -> {"idle", "staged", "driving", "waiting", "timedout", "release", "unlock"}]
  BY DEF TypeOK
<1>1. ASSUME UNCHANGED <<pc, tx_lock>>
      PROVE  LockInv'
  BY <1>1
<1>2. ASSUME NEW s \in Senders, NEW n \in SendLens, Stage(s, n)
      PROVE  LockInv'
  <2>1. tx_lock = "free" /\ tx_lock' = s /\ pc' = [pc EXCEPT ![s] = "staged"]
    BY <1>2 DEF Stage
  <2>. QED  BY <1>0, <2>1
<1>3. ASSUME NEW s \in Senders, InCall(s)
      PROVE  LockInv'
  <2>1. tx_lock = s
    BY <1>3, HolderSteps
  <2>2. CASE Unlock(s)
    BY <1>0, <2>1, <2>2 DEF Unlock
  <2>3. CASE ~Unlock(s)
    <3>1. tx_lock' = tx_lock /\ \E label : label # "idle" /\ pc' = [pc EXCEPT ![s] = label]
      BY <1>3, <2>3 DEF InCall, DriveTx, EnableTxIrq, TakeDone, TakeTimeout, AbandonTx, DriveRx
    <3>. QED  BY <1>0, <2>1, <3>1
  <2>. QED  BY <2>2, <2>3
<1>4. CASE InitDriver \/ Uart \/ \E s \in Senders, n \in SendLens : SendRejected(s, n)
  BY <1>1, <1>4 DEF InitDriver, Uart, FillFifo, SignalDone, ShiftOut, SendRejected
<1>5. CASE UNCHANGED drvVars
  BY <1>1, <1>5 DEF drvVars
<1>. QED  BY <1>2, <1>3, <1>4, <1>5, NextSteps

LEMMA StagedStep == TypeOK /\ LockInv /\ StagedInv /\ [Next]_vars => StagedInv'
<1>. SUFFICES ASSUME TypeOK, LockInv, StagedInv, [Next]_vars
              PROVE  StagedInv'
  OBVIOUS
<1>. USE DEF StagedInv, callVars, initVars, stageVars
<1>0. /\ frame \in [Senders -> 0 .. MaxFrames] /\ tx_lock \in Senders \union {"free"}
      /\ frames \in 0 .. MaxFrames
  BY DEF TypeOK
<1>1. ASSUME NEW s \in Senders, NEW n \in SendLens, SendRejected(s, n)
      PROVE  StagedInv'
  <2>1. tx_lock # s
    BY <1>1 DEF SendRejected, LockInv
  <2>. QED  BY <1>0, <1>1, <2>1 DEF SendRejected
<1>2. ASSUME NEW s \in Senders, NEW n \in SendLens, Stage(s, n)
      PROVE  StagedInv'
  BY <1>0, <1>2 DEF Stage
<1>3. ASSUME NEW s \in Senders, InCall(s)
      PROVE  StagedInv'
  BY <1>3 DEF InCall, DriveTx, EnableTxIrq, TakeDone, TakeTimeout, AbandonTx, DriveRx, Unlock
<1>4. CASE InitDriver \/ Uart
  BY <1>4 DEF InitDriver, Uart, FillFifo, SignalDone, ShiftOut
<1>5. CASE UNCHANGED drvVars
  BY <1>5 DEF drvVars
<1>. QED  BY <1>1, <1>2, <1>3, <1>4, <1>5, NextSteps

-----------------------------------------------------------------------------
(* Type correctness: the handler never reads past the frame and never puts   *)
(* more into the UART than it holds.                                         *)

\* What FillFifo does, with the number of bytes named.
LEMMA FillFifoProperties ==
  ASSUME TypeOK, StagedInv, FillFifo
  PROVE  \E n \in Nat \ {0} :
           /\ tx_pos + n <= tx_len /\ tx_pos' = tx_pos + n
           /\ hw' \in Seq(Byte) /\ Len(hw') = Len(hw) + n /\ Len(hw') <= HwFifo
           /\ \A k \in 1 .. Len(hw) : hw'[k] = hw[k]
           /\ \A k \in Len(hw) + 1 .. Len(hw) + n : hw'[k] = <<tx_buf, tx_pos + (k - Len(hw))>>
<1>. DEFINE n == Least(HwFifo - Len(hw), tx_len - tx_pos)
<1>1. /\ hw \in Seq(Byte) /\ Len(hw) \in Nat /\ tx_len \in 0 .. TxBuffer
      /\ tx_pos \in 0 .. tx_len /\ tx_buf \in 0 .. MaxFrames
  BY LenProperties DEF TypeOK, Byte
<1>2. /\ Len(hw) < HwFifo /\ tx_pos < tx_len
      /\ hw' = hw \o [i \in 1 .. n |-> <<tx_buf, tx_pos + i>>] /\ tx_pos' = tx_pos + n
  BY DEF FillFifo, TxReady
<1>3. HwFifo - Len(hw) \in Nat \ {0} /\ tx_len - tx_pos \in Nat \ {0}
  BY <1>1, <1>2
<1>4. n \in Nat \ {0} /\ n <= HwFifo - Len(hw) /\ n <= tx_len - tx_pos
  BY <1>3 DEF Least
<1>. HIDE DEF n
<1>5. tx_buf \in 1 .. MaxFrames /\ tx_pos \in Nat /\ tx_pos + n <= TxBuffer
  BY <1>1, <1>2, <1>4 DEF StagedInv
<1>6. /\ hw' \in Seq(Byte) /\ Len(hw') = Len(hw) + n
      /\ \A k \in 1 .. Len(hw) : hw'[k] = hw[k]
      /\ \A k \in Len(hw) + 1 .. Len(hw) + n : hw'[k] = <<tx_buf, tx_pos + (k - Len(hw))>>
  <2>. DEFINE new == [i \in 1 .. n |-> <<tx_buf, tx_pos + i>>]
  <2>1. /\ new \in Seq(Byte) /\ Len(new) = n
        /\ \A i \in 1 .. n : new[i] = <<tx_buf, tx_pos + i>>
    <3>1. \A i \in 1 .. n : <<tx_buf, tx_pos + i>> \in Byte
      BY <1>4, <1>5 DEF Byte
    <3>2. Len(new) = n /\ DOMAIN new = 1 .. n /\ \A i \in 1 .. n : new[i] = <<tx_buf, tx_pos + i>>
      BY <1>4
    <3>3. new \in [1 .. n -> Byte]
      BY <3>1
    <3>4. new \in Seq(Byte)
      BY <1>4, <3>3
    <3>. QED  BY <3>2, <3>4
  <2>2. hw' = hw \o new
    BY <1>2
  <2>. HIDE DEF new
  <2>3. /\ hw' \in Seq(Byte) /\ Len(hw') = Len(hw) + n
        /\ \A k \in 1 .. Len(hw) : hw'[k] = hw[k]
        /\ \A k \in Len(hw) + 1 .. Len(hw) + n : hw'[k] = new[k - Len(hw)]
    BY <1>1, <2>1, <2>2, FillProperties
  <2>4. \A k \in Len(hw) + 1 .. Len(hw) + n : k - Len(hw) \in 1 .. n
    BY <1>1, <1>4
  <2>. QED  BY <2>1, <2>3, <2>4
<1>7. tx_pos + n <= tx_len /\ Len(hw') <= HwFifo
  BY <1>1, <1>4, <1>6
<1>. QED  BY <1>2, <1>4, <1>6, <1>7

\* What ShiftOut does.
LEMMA ShiftOutProperties ==
  ASSUME TypeOK, ShiftOut
  PROVE  /\ hw' \in Seq(Byte) /\ Len(hw') = Len(hw) - 1 /\ Len(hw) \in Nat \ {0}
         /\ \A k \in 1 .. Len(hw') : hw'[k] = hw[k + 1]
         /\ bus' \in Seq(Byte)
         /\ \/ ~de /\ bus' = bus
            \/ de /\ Len(bus') = Len(bus) + 1 /\ bus'[Len(bus) + 1] = hw[1]
                  /\ \A k \in 1 .. Len(bus) : bus'[k] = bus[k]
<1>1. hw \in Seq(Byte) /\ hw # <<>> /\ hw' = Tail(hw) /\ bus \in Seq(Byte)
      /\ bus' = IF de THEN Append(bus, Head(hw)) ELSE bus
  BY DEF TypeOK, ShiftOut, Byte
<1>2. /\ Head(hw) \in Byte /\ Head(hw) = hw[1] /\ Len(hw) \in Nat \ {0}
      /\ Tail(hw) \in Seq(Byte) /\ Len(Tail(hw)) = Len(hw) - 1
      /\ \A k \in 1 .. Len(Tail(hw)) : Tail(hw)[k] = hw[k + 1]
  BY <1>1, HeadTailProperties, EmptySeq
<1>3. CASE de
  BY <1>1, <1>2, <1>3, AppendProperties
<1>4. CASE ~de
  BY <1>1, <1>2, <1>4
<1>. QED  BY <1>3, <1>4

LEMMA TypeStep == TypeOK /\ StagedInv /\ [Next]_vars => TypeOK'
<1>. SUFFICES ASSUME TypeOK, StagedInv, [Next]_vars
              PROVE  TypeOK'
  OBVIOUS
<1>0. /\ hw \in Seq(Byte) /\ bus \in Seq(Byte) /\ Len(hw) <= HwFifo
  BY DEF TypeOK, Byte
<1>9. isr' \in BOOLEAN
  BY IsrStep DEF TypeOK
<1>. USE DEF Goto, callVars, initVars, stageVars
<1>1. ASSUME NEW s \in Senders, NEW n \in SendLens, SendRejected(s, n)
      PROVE  TypeOK'
  <2>0. \E e \in {"ok", "EAGAIN", "EINVAL", "EMSGSIZE"} : err' = [err EXCEPT ![s] = e]
    BY <1>1 DEF SendRejected
  <2>1. err' \in [Senders -> {"ok", "EAGAIN", "EINVAL", "EMSGSIZE"}] /\ frame' \in [Senders -> 0 .. MaxFrames]
    BY <1>1, <2>0 DEF SendRejected, TypeOK
  <2>2. UNCHANGED <<initVars, pc, frames, tx_lock, stageVars, tx_done_sem, tx_irq, de, hw, bus>>
    BY <1>1 DEF SendRejected
  <2>. QED  BY <1>9, <2>1, <2>2 DEF TypeOK
<1>2. ASSUME NEW s \in Senders, NEW n \in SendLens, Stage(s, n)
      PROVE  TypeOK'
  <2>1. /\ n \in 1 .. TxBuffer /\ frames + 1 \in 0 .. MaxFrames
        /\ frames' = frames + 1 /\ frame' = [frame EXCEPT ![s] = frames + 1]
        /\ tx_buf' = frames + 1 /\ tx_len' = n /\ tx_pos' = 0 /\ tx_done_sem' = 0
        /\ pc' = [pc EXCEPT ![s] = "staged"] /\ tx_lock' = s
        /\ UNCHANGED <<initVars, err, tx_irq, de, hw, bus>>
    BY <1>2 DEF Stage, TypeOK
  <2>. QED  BY <1>9, <2>1 DEF TypeOK
<1>3. ASSUME NEW s \in Senders, InCall(s)
      PROVE  TypeOK'
  <2>1. pc' \in [Senders -> {"idle", "staged", "driving", "waiting", "timedout", "release", "unlock"}]
    BY <1>3 DEF InCall, DriveTx, EnableTxIrq, TakeDone, TakeTimeout, AbandonTx, DriveRx, Unlock, TypeOK
  <2>2. err' \in [Senders -> {"ok", "EAGAIN", "EINVAL", "EMSGSIZE"}]
    BY <1>3 DEF InCall, DriveTx, EnableTxIrq, TakeDone, TakeTimeout, AbandonTx, DriveRx, Unlock, TypeOK
  <2>3. tx_lock' \in Senders \union {"free"} /\ tx_done_sem' \in {0, 1}
    BY <1>3 DEF InCall, DriveTx, EnableTxIrq, TakeDone, TakeTimeout, AbandonTx, DriveRx, Unlock, TypeOK
  <2>4. tx_irq' \in BOOLEAN /\ de' \in BOOLEAN
    BY <1>3 DEF InCall, DriveTx, EnableTxIrq, TakeDone, TakeTimeout, AbandonTx, DriveRx, Unlock, TypeOK
  <2>5. UNCHANGED <<initVars, frame, frames, stageVars, hw, bus>>
    BY <1>3 DEF InCall, DriveTx, EnableTxIrq, TakeDone, TakeTimeout, AbandonTx, DriveRx, Unlock
  <2>. QED  BY <1>9, <2>1, <2>2, <2>3, <2>4, <2>5 DEF TypeOK
<1>4. CASE InitDriver
  BY <1>4, <1>9 DEF InitDriver, TypeOK
<1>5. CASE FillFifo
  <2>1. /\ tx_pos' \in 0 .. tx_len /\ hw' \in Seq(Byte) /\ Len(hw') <= HwFifo
    BY <1>5, FillFifoProperties DEF TypeOK
  <2>2. UNCHANGED <<initVars, callVars, tx_lock, tx_buf, tx_len, tx_done_sem, tx_irq, de, bus>>
    BY <1>5 DEF FillFifo
  <2>. QED  BY <1>9, <2>1, <2>2 DEF TypeOK, Byte
<1>6. CASE SignalDone
  BY <1>6, <1>9 DEF SignalDone, TypeOK
<1>7. CASE ShiftOut
  <2>1. hw' \in Seq(Byte) /\ bus' \in Seq(Byte) /\ Len(hw') <= HwFifo
    BY <1>0, <1>7, ShiftOutProperties
  <2>2. UNCHANGED <<initVars, callVars, tx_lock, stageVars, tx_done_sem, tx_irq, de>>
    BY <1>7 DEF ShiftOut
  <2>. QED  BY <1>9, <2>1, <2>2 DEF TypeOK, Byte
<1>8. CASE UNCHANGED drvVars
  BY <1>8, <1>9 DEF drvVars, TypeOK
<1>. QED  BY <1>1, <1>2, <1>3, <1>4, <1>5, <1>6, <1>7, <1>8, NextSteps DEF Uart

TypeInv == TypeOK /\ LockInv /\ StagedInv

LEMMA TypeInvHolds == Spec => []TypeInv
<1>1. Init => TypeInv
  <2>. SUFFICES ASSUME Init PROVE TypeInv
    OBVIOUS
  <2>1. LockInv /\ StagedInv
    BY DEF Init, LockInv, StagedInv
  <2>2. /\ frames \in 0 .. MaxFrames /\ tx_buf \in 0 .. MaxFrames /\ tx_len \in 0 .. TxBuffer
        /\ tx_pos \in 0 .. tx_len /\ frame \in [Senders -> 0 .. MaxFrames]
    BY DEF Init
  <2>3. hw \in Seq(Byte) /\ bus \in Seq(Byte) /\ Len(hw) <= HwFifo
    BY EmptySeq DEF Init
  <2>4. /\ pc \in [Senders -> {"idle", "staged", "driving", "waiting", "timedout", "release", "unlock"}]
        /\ err \in [Senders -> {"ok", "EAGAIN", "EINVAL", "EMSGSIZE"}]
    BY DEF Init
  <2>5. booted \in BOOLEAN /\ rs485_ready \in BOOLEAN /\ tx_irq \in BOOLEAN /\ de \in BOOLEAN /\ isr \in BOOLEAN
    BY DEF Init
  <2>6. tx_lock \in Senders \union {"free"} /\ tx_done_sem \in {0, 1}
    BY DEF Init
  <2>. QED  BY <2>1, <2>2, <2>3, <2>4, <2>5, <2>6, Zenon DEF TypeInv, TypeOK, Byte
<1>2. TypeInv /\ [Next]_vars => TypeInv'
  BY LockStep, StagedStep, TypeStep DEF TypeInv
<1>. QED  BY <1>1, <1>2, PTL DEF Spec

\* Every variable keeps its range: the handler never reads past the frame and
\* never puts more into the UART than it holds.
THEOREM TypeCorrect == Spec => []TypeOK
BY TypeInvHolds, PTL DEF TypeInv

-----------------------------------------------------------------------------
(* Releasing the bus.                                                        *)

LEMMA DriverStep == TypeInv /\ DriverInv /\ [Next]_vars => DriverInv'
<1>. SUFFICES ASSUME TypeInv, DriverInv, [Next]_vars
              PROVE  DriverInv'
  OBVIOUS
<1>. USE DEF DriverInv, OwnerAt, Goto, callVars, initVars, stageVars
<1>0. /\ pc \in [Senders -> {"idle", "staged", "driving", "waiting", "timedout", "release", "unlock"}]
      /\ TypeOK /\ LockInv
  BY DEF TypeInv, TypeOK
<1>1. ASSUME UNCHANGED <<pc, tx_lock, de, tx_irq, tx_done_sem>>
      PROVE  DriverInv'
  BY <1>1
<1>2. ASSUME NEW s \in Senders, NEW n \in SendLens, Stage(s, n)
      PROVE  DriverInv'
  <2>1. /\ tx_lock = "free" /\ tx_lock' = s /\ pc' = [pc EXCEPT ![s] = "staged"]
        /\ tx_done_sem' = 0 /\ UNCHANGED <<tx_irq, de>>
    BY <1>2 DEF Stage
  <2>2. pc'[s] = "staged" /\ s # "free"
    BY <1>0, <2>1
  <2>. QED  BY <2>1, <2>2
<1>3. ASSUME NEW s \in Senders, InCall(s)
      PROVE  DriverInv'
  <2>0. tx_lock = s /\ s # "free"
    BY <1>0, <1>3, HolderSteps
  <2>1. CASE DriveTx(s)
    BY <1>0, <2>0, <2>1 DEF DriveTx
  <2>2. CASE EnableTxIrq(s)
    BY <1>0, <2>0, <2>2 DEF EnableTxIrq
  <2>3. CASE TakeDone(s)
    <3>1. /\ pc[s] = "waiting" /\ pc' = [pc EXCEPT ![s] = "release"]
          /\ tx_done_sem = 1 /\ UNCHANGED <<tx_lock, tx_irq, de>>
      BY <2>3 DEF TakeDone
    <3>2. pc'[s] = "release" /\ tx_lock' = s /\ ~tx_irq
      BY <1>0, <2>0, <3>1
    <3>. QED  BY <2>0, <3>1, <3>2
  <2>4. CASE TakeTimeout(s)
    BY <1>0, <2>0, <2>4 DEF TakeTimeout
  <2>5. CASE AbandonTx(s)
    BY <1>0, <2>0, <2>5 DEF AbandonTx
  <2>6. CASE DriveRx(s)
    BY <1>0, <2>0, <2>6 DEF DriveRx
  <2>7. CASE Unlock(s)
    BY <1>0, <2>0, <2>7 DEF Unlock
  <2>. QED  BY <1>3, <2>1, <2>2, <2>3, <2>4, <2>5, <2>6, <2>7 DEF InCall
<1>4. CASE InitDriver \/ FillFifo \/ ShiftOut \/ \E s \in Senders, n \in SendLens : SendRejected(s, n)
  BY <1>1, <1>4 DEF InitDriver, FillFifo, ShiftOut, SendRejected
<1>6. CASE SignalDone
  BY <1>6 DEF SignalDone, TxReady
<1>5. CASE UNCHANGED drvVars
  BY <1>1, <1>5 DEF drvVars
<1>. QED  BY <1>2, <1>3, <1>4, <1>5, <1>6, NextSteps DEF Uart

LEMMA DriverInvHolds == Spec => [](TypeInv /\ DriverInv)
<1>1. Init => DriverInv
  BY DEF Init, DriverInv, OwnerAt
<1>. QED  BY <1>1, DriverStep, TypeInvHolds, PTL DEF Spec

\* The bus is released whenever no call is in progress: the transceiver
\* receives and the TX interrupt is off, also after a timed-out call.
THEOREM BusReleasedHolds == Spec => []BusReleased
<1>1. DriverInv => BusReleased
  BY DEF DriverInv, OwnerAt, BusReleased
<1>. QED  BY <1>1, DriverInvHolds, PTL

-----------------------------------------------------------------------------
(* The line: what is in the UART follows what is on the bus, in order, and   *)
(* neither is ahead of the staging buffer.                                   *)

Before(p, q) == p[1] < q[1] \/ (p[1] = q[1] /\ p[2] < q[2])
Taken(p)     == p[1] < tx_buf \/ (p[1] = tx_buf /\ p[2] <= tx_pos)

LineInv ==
  /\ \A i \in 1 .. Len(hw) : Taken(hw[i])
  /\ \A i \in 1 .. Len(bus) : Taken(bus[i])
  /\ \A i, j \in 1 .. Len(hw) : i < j => Before(hw[i], hw[j])
  /\ \A i, j \in 1 .. Len(bus) : i < j => Before(bus[i], bus[j])
  /\ \A i \in 1 .. Len(bus), j \in 1 .. Len(hw) : Before(bus[i], hw[j])

LEMMA LineStep == TypeInv /\ LineInv /\ [Next]_vars => LineInv'
<1>. SUFFICES ASSUME TypeInv, LineInv, [Next]_vars
              PROVE  LineInv'
  OBVIOUS
<1>. USE DEF callVars, initVars, stageVars
<1>0. /\ TypeOK /\ StagedInv
      /\ hw \in Seq(Byte) /\ bus \in Seq(Byte) /\ Len(hw) \in Nat /\ Len(bus) \in Nat
      /\ tx_buf \in 0 .. MaxFrames /\ tx_pos \in Nat
  BY LenProperties DEF TypeInv, TypeOK, Byte
<1>. DEFINE TakenNext(p) == p[1] < tx_buf' \/ (p[1] = tx_buf' /\ p[2] <= tx_pos')
<1>1. ASSUME UNCHANGED <<hw, bus, tx_buf, tx_pos>>
      PROVE  LineInv'
  BY <1>1 DEF LineInv, Taken, Before
<1>2. ASSUME NEW s \in Senders, NEW n \in SendLens, Stage(s, n)
      PROVE  LineInv'
  <2>1. tx_buf' = tx_buf + 1 /\ UNCHANGED <<hw, bus>>
    BY <1>0, <1>2 DEF Stage, StagedInv
  <2>2. ASSUME NEW p \in Byte, Taken(p)
        PROVE  TakenNext(p)
    BY <1>0, <2>1, <2>2 DEF Taken, Byte
  <2>3. (\A i \in 1 .. Len(hw) : hw[i] \in Byte) /\ (\A i \in 1 .. Len(bus) : bus[i] \in Byte)
    BY <1>0, ElementOfSeq
  <2>4. /\ \A i \in 1 .. Len(hw') : TakenNext(hw'[i])
        /\ \A i \in 1 .. Len(bus') : TakenNext(bus'[i])
    BY <2>1, <2>2, <2>3 DEF LineInv
  <2>. QED  BY <2>1, <2>4 DEF LineInv, Taken, Before
<1>3. CASE FillFifo
  <2>1. PICK n \in Nat \ {0} :
           /\ tx_pos + n <= tx_len /\ tx_pos' = tx_pos + n
           /\ hw' \in Seq(Byte) /\ Len(hw') = Len(hw) + n /\ Len(hw') <= HwFifo
           /\ \A k \in 1 .. Len(hw) : hw'[k] = hw[k]
           /\ \A k \in Len(hw) + 1 .. Len(hw) + n : hw'[k] = <<tx_buf, tx_pos + (k - Len(hw))>>
    BY <1>0, <1>3, FillFifoProperties
  <2>2. UNCHANGED <<bus, tx_buf>>
    BY <1>3 DEF FillFifo
  <2>3. (\A i \in 1 .. Len(hw) : hw[i] \in Byte) /\ (\A i \in 1 .. Len(bus) : bus[i] \in Byte)
    BY <1>0, ElementOfSeq
  <2>4. ASSUME NEW p \in Byte, Taken(p)
        PROVE  TakenNext(p)
    BY <1>0, <2>1, <2>2, <2>4 DEF Taken, Byte
  <2>5. ASSUME NEW k \in 1 .. Len(hw'), ~(k \in 1 .. Len(hw))
        PROVE  /\ k \in Len(hw) + 1 .. Len(hw) + n
               /\ hw'[k] = <<tx_buf, tx_pos + (k - Len(hw))>>
    BY <1>0, <2>1, <2>5
  <2>6. ASSUME NEW p \in Byte, Taken(p), NEW k \in 1 .. Len(hw'), ~(k \in 1 .. Len(hw))
        PROVE  Before(p, hw'[k])
    BY <1>0, <2>5, <2>6 DEF Taken, Before, Byte
  <2>7. \A i \in 1 .. Len(hw') : TakenNext(hw'[i])
    <3>. SUFFICES ASSUME NEW i \in 1 .. Len(hw') PROVE TakenNext(hw'[i])
      OBVIOUS
    <3>1. CASE i \in 1 .. Len(hw)
      <4>1. Taken(hw[i]) /\ hw[i] \in Byte /\ hw'[i] = hw[i]
        BY <2>1, <2>3, <3>1 DEF LineInv
      <4>. QED  BY <2>4, <4>1
    <3>2. CASE ~(i \in 1 .. Len(hw))
      <4>. DEFINE k == i - Len(hw)
                  x == tx_pos + k
      <4>1. hw'[i] = <<tx_buf, x>> /\ k \in Int /\ k <= n
        BY <1>0, <2>1, <2>5, <3>2
      <4>2. x <= tx_pos'
        BY <1>0, <2>1, <4>1
      <4>. HIDE DEF k, x
      <4>. QED  BY <2>2, <4>1, <4>2
    <3>. QED  BY <3>1, <3>2
  <2>8. \A i \in 1 .. Len(bus') : TakenNext(bus'[i])
    BY <2>2, <2>3, <2>4 DEF LineInv
  <2>9. \A i, j \in 1 .. Len(hw') : i < j => Before(hw'[i], hw'[j])
    <3>. SUFFICES ASSUME NEW i \in 1 .. Len(hw'), NEW j \in 1 .. Len(hw'), i < j
                  PROVE  Before(hw'[i], hw'[j])
      OBVIOUS
    <3>1. CASE j \in 1 .. Len(hw)
      <4>1. i \in 1 .. Len(hw)
        BY <1>0, <3>1
      <4>. QED  BY <2>1, <3>1, <4>1 DEF LineInv
    <3>2. CASE ~(j \in 1 .. Len(hw)) /\ i \in 1 .. Len(hw)
      <4>1. Taken(hw[i]) /\ hw[i] \in Byte /\ hw'[i] = hw[i]
        BY <2>1, <2>3, <3>2 DEF LineInv
      <4>. QED  BY <2>6, <3>2, <4>1
    <3>3. CASE ~(j \in 1 .. Len(hw)) /\ ~(i \in 1 .. Len(hw))
      BY <1>0, <2>5, <3>3 DEF Before
    <3>. QED  BY <3>1, <3>2, <3>3
  <2>10. \A i \in 1 .. Len(bus'), j \in 1 .. Len(hw') : Before(bus'[i], hw'[j])
    <3>. SUFFICES ASSUME NEW i \in 1 .. Len(bus), NEW j \in 1 .. Len(hw')
                  PROVE  Before(bus[i], hw'[j])
      BY <2>2
    <3>1. CASE j \in 1 .. Len(hw)
      BY <2>1, <3>1 DEF LineInv
    <3>2. CASE ~(j \in 1 .. Len(hw))
      <4>1. Taken(bus[i]) /\ bus[i] \in Byte
        BY <2>3 DEF LineInv
      <4>. QED  BY <2>6, <3>2, <4>1
    <3>. QED  BY <3>1, <3>2
  <2>11. \A i, j \in 1 .. Len(bus') : i < j => Before(bus'[i], bus'[j])
    BY <2>2 DEF LineInv
  <2>. QED  BY <2>7, <2>8, <2>9, <2>10, <2>11 DEF LineInv, Taken, Before
<1>4. CASE ShiftOut
  <2>1. /\ Len(hw') = Len(hw) - 1 /\ Len(hw) \in Nat \ {0}
        /\ \A k \in 1 .. Len(hw') : hw'[k] = hw[k + 1]
        /\ \/ bus' = bus
           \/ /\ Len(bus') = Len(bus) + 1 /\ bus'[Len(bus) + 1] = hw[1]
              /\ \A k \in 1 .. Len(bus) : bus'[k] = bus[k]
    BY <1>0, <1>4, ShiftOutProperties
  <2>2. UNCHANGED <<tx_buf, tx_pos>>
    BY <1>4 DEF ShiftOut
  <2>3. ASSUME NEW k \in 1 .. Len(hw')
        PROVE  k + 1 \in 1 .. Len(hw) /\ hw'[k] = hw[k + 1] /\ 1 < k + 1 /\ 1 \in 1 .. Len(hw)
    BY <1>0, <2>1
  <2>4. \A i \in 1 .. Len(hw') : Taken(hw'[i])
    BY <2>3 DEF LineInv
  <2>5. \A i, j \in 1 .. Len(hw') : i < j => Before(hw'[i], hw'[j])
    <3>. SUFFICES ASSUME NEW i \in 1 .. Len(hw'), NEW j \in 1 .. Len(hw'), i < j
                  PROVE  Before(hw'[i], hw'[j])
      OBVIOUS
    <3>1. i + 1 < j + 1
      BY <1>0, <2>1
    <3>. QED  BY <2>3, <3>1 DEF LineInv
  <2>6. CASE bus' = bus
    <3>1. \A i \in 1 .. Len(bus'), j \in 1 .. Len(hw') : Before(bus'[i], hw'[j])
      BY <2>3, <2>6 DEF LineInv
    <3>2. /\ \A i \in 1 .. Len(bus') : Taken(bus'[i])
          /\ \A i, j \in 1 .. Len(bus') : i < j => Before(bus'[i], bus'[j])
      BY <2>6 DEF LineInv
    <3>. QED  BY <2>2, <2>4, <2>5, <3>1, <3>2 DEF LineInv, Taken, Before
  <2>7. CASE /\ Len(bus') = Len(bus) + 1 /\ bus'[Len(bus) + 1] = hw[1]
             /\ \A k \in 1 .. Len(bus) : bus'[k] = bus[k]
    <3>0. 1 \in 1 .. Len(hw)
      BY <2>1
    <3>1. ASSUME NEW i \in 1 .. Len(bus')
          PROVE  (i \in 1 .. Len(bus) /\ bus'[i] = bus[i]) \/ (i = Len(bus) + 1 /\ bus'[i] = hw[1])
      BY <1>0, <2>7
    <3>2. \A i \in 1 .. Len(bus') : Taken(bus'[i])
      BY <3>0, <3>1 DEF LineInv
    <3>3. \A i \in 1 .. Len(bus'), j \in 1 .. Len(hw') : Before(bus'[i], hw'[j])
      <4>. SUFFICES ASSUME NEW i \in 1 .. Len(bus'), NEW j \in 1 .. Len(hw')
                    PROVE  Before(bus'[i], hw[j + 1])
        BY <2>3
      <4>. QED  BY <2>3, <3>1 DEF LineInv
    <3>4. \A i, j \in 1 .. Len(bus') : i < j => Before(bus'[i], bus'[j])
      <4>. SUFFICES ASSUME NEW i \in 1 .. Len(bus'), NEW j \in 1 .. Len(bus'), i < j
                    PROVE  Before(bus'[i], bus'[j])
        OBVIOUS
      <4>1. i \in 1 .. Len(bus) /\ bus'[i] = bus[i]
        BY <1>0, <2>7, <3>1
      <4>. QED  BY <3>0, <3>1, <4>1 DEF LineInv
    <3>. QED  BY <2>2, <2>4, <2>5, <3>2, <3>3, <3>4 DEF LineInv, Taken, Before
  <2>. QED  BY <2>1, <2>6, <2>7
<1>5. ASSUME NEW s \in Senders, InCall(s)
      PROVE  LineInv'
  BY <1>1, <1>5 DEF InCall, DriveTx, EnableTxIrq, TakeDone, TakeTimeout, AbandonTx, DriveRx, Unlock
<1>6. CASE InitDriver \/ SignalDone \/ \E s \in Senders, n \in SendLens : SendRejected(s, n)
  BY <1>1, <1>6 DEF InitDriver, SignalDone, SendRejected
<1>7. CASE UNCHANGED drvVars
  BY <1>1, <1>7 DEF drvVars
<1>. QED  BY <1>2, <1>3, <1>4, <1>5, <1>6, <1>7, NextSteps DEF Uart

LEMMA LineInvHolds == Spec => [](TypeInv /\ LineInv)
<1>1. Init => LineInv
  <2>. SUFFICES ASSUME Init PROVE LineInv
    OBVIOUS
  <2>1. Len(hw) = 0 /\ Len(bus) = 0
    BY EmptySeq DEF Init
  <2>. QED  BY <2>1 DEF LineInv
<1>. QED  BY <1>1, LineStep, TypeInvHolds, PTL DEF Spec

\* Bytes reach the bus in the order of the calls and of the bytes of a frame.
THEOREM BusInOrderHolds == Spec => []BusInOrder
<1>1. TypeInv /\ LineInv => BusInOrder
  <2>. SUFFICES ASSUME TypeInv, LineInv, NEW i \in 1 .. Len(bus) - 1
                PROVE  Before(bus[i], bus[i + 1])
    BY DEF BusInOrder, Before
  <2>1. Len(bus) \in Nat
    BY LenProperties DEF TypeInv, TypeOK
  <2>2. i \in 1 .. Len(bus) /\ i + 1 \in 1 .. Len(bus) /\ i < i + 1
    BY <2>1
  <2>. QED  BY <2>2 DEF LineInv
<1>. QED  BY <1>1, LineInvHolds, PTL

-----------------------------------------------------------------------------
(* The completion: a call that returns 0 has its whole frame on the bus.     *)

OnBus(p)  == \E k \in 1 .. Len(bus) : bus[k] = p
InUart(p) == \E k \in 1 .. Len(hw) : hw[k] = p

\* Until the holder releases the transceiver, no byte of its frame that the
\* UART took is lost.
Transit ==
  /\ OwnerAt({"staged"}) => tx_pos = 0
  /\ OwnerAt({"staged", "driving", "waiting", "timedout", "release"}) =>
       \A i \in 1 .. tx_pos : OnBus(<<tx_buf, i>>) \/ InUart(<<tx_buf, i>>)

\* A completion found after the wait began is of this frame.
DoneInv == OwnerAt({"waiting"}) /\ tx_done_sem = 1 => hw = <<>> /\ tx_pos = tx_len

\* A call that is about to return 0 leaves the UART empty and its whole frame
\* on the bus.
SentInv ==
  \A s \in Senders :
    /\ pc[s] = "timedout" => err[s] # "ok"
    /\ pc[s] \in {"release", "unlock"} /\ err[s] = "ok" =>
         hw = <<>> /\ tx_pos = tx_len /\ \A i \in 1 .. tx_len : OnBus(<<tx_buf, i>>)

Sending == TypeInv /\ DriverInv /\ LineInv /\ Transit /\ DoneInv /\ SentInv

\* Staging a frame starts it with nothing taken and no completion.
LEMMA StageSends ==
  ASSUME Sending, NEW s \in Senders, NEW n \in SendLens, Stage(s, n)
  PROVE  (Transit /\ DoneInv /\ SentInv)'
<1>1. /\ tx_lock = "free" /\ tx_lock' = s /\ pc' = [pc EXCEPT ![s] = "staged"]
      /\ tx_pos' = 0
  BY DEF Stage, Goto
<1>2. /\ LockInv /\ pc \in [Senders -> {"idle", "staged", "driving", "waiting", "timedout", "release", "unlock"}]
  BY DEF Sending, TypeInv, TypeOK
<1>3. \A t \in Senders : pc'[t] \in {"idle", "staged"}
  BY <1>1, <1>2, NameAssumption DEF LockInv
<1>4. Transit'
  BY <1>1 DEF Transit
<1>5. DoneInv'
  BY <1>1, <1>3 DEF DoneInv, OwnerAt
<1>6. SentInv'
  BY <1>3 DEF SentInv
<1>. QED  BY <1>4, <1>5, <1>6

\* A step of the holder: only the one that takes the completion claims success.
LEMMA CallSends ==
  ASSUME Sending, NEW s \in Senders, InCall(s)
  PROVE  (Transit /\ DoneInv /\ SentInv)'
<1>0. /\ LockInv /\ pc \in [Senders -> {"idle", "staged", "driving", "waiting", "timedout", "release", "unlock"}]
      /\ err \in [Senders -> {"ok", "EAGAIN", "EINVAL", "EMSGSIZE"}]
      /\ tx_lock = s /\ s # "free"
  BY HolderSteps DEF Sending, TypeInv, TypeOK
<1>1. UNCHANGED <<tx_buf, tx_len, tx_pos, hw, bus>>
  BY DEF InCall, DriveTx, EnableTxIrq, TakeDone, TakeTimeout, AbandonTx, DriveRx, Unlock, stageVars
<1>2. \A t \in Senders \ {s} : pc[t] = "idle" /\ pc'[t] = "idle"
  BY <1>0 DEF LockInv, InCall, DriveTx, EnableTxIrq, TakeDone, TakeTimeout, AbandonTx, DriveRx, Unlock, Goto
<1>3. Transit'
  <2>1. CASE Unlock(s)
    BY <2>1 DEF Unlock, Transit, OwnerAt
  <2>2. CASE DriveRx(s)
    <3>1. pc'[s] = "unlock" /\ tx_lock' = s
      BY <1>0, <2>2 DEF DriveRx, Goto
    <3>. QED  BY <3>1 DEF Transit, OwnerAt
  <2>3. CASE ~Unlock(s) /\ ~DriveRx(s)
    <3>1. OwnerAt({"staged", "driving", "waiting", "timedout", "release"})
      BY <1>0, <2>3 DEF OwnerAt, InCall, DriveTx, EnableTxIrq, TakeDone, TakeTimeout, AbandonTx
    <3>2. pc'[s] # "staged" /\ tx_lock' = s
      BY <1>0, <2>3 DEF InCall, DriveTx, EnableTxIrq, TakeDone, TakeTimeout, AbandonTx, Goto
    <3>. QED  BY <1>1, <3>1, <3>2 DEF Sending, Transit, OnBus, InUart, OwnerAt
  <2>. QED  BY <2>1, <2>2, <2>3
<1>4. DoneInv'
  <2>1. CASE EnableTxIrq(s)
    <3>1. tx_done_sem' = tx_done_sem /\ pc[s] = "driving"
      BY <2>1 DEF EnableTxIrq
    <3>. QED  BY <1>0, <3>1 DEF Sending, DriverInv, OwnerAt, DoneInv
  <2>2. CASE ~EnableTxIrq(s)
    <3>1. tx_lock' = "free" \/ (tx_lock' = s /\ pc'[s] # "waiting")
      BY <1>0, <2>2 DEF InCall, DriveTx, TakeDone, TakeTimeout, AbandonTx, DriveRx, Unlock, Goto
    <3>. QED  BY <3>1 DEF DoneInv, OwnerAt
  <2>. QED  BY <2>1, <2>2
<1>5. SentInv'
  <2>0. pc'[s] = "timedout" => err'[s] # "ok"
    BY <1>0 DEF InCall, DriveTx, EnableTxIrq, TakeDone, TakeTimeout, AbandonTx, DriveRx, Unlock, Goto
  <2>. SUFFICES ASSUME pc'[s] \in {"release", "unlock"}, err'[s] = "ok"
                PROVE  hw = <<>> /\ tx_pos = tx_len /\ \A i \in 1 .. tx_len : OnBus(<<tx_buf, i>>)
    BY <1>1, <1>2, <2>0 DEF SentInv, OnBus
  <2>1. CASE TakeDone(s)
    <3>1. OwnerAt({"waiting"}) /\ tx_done_sem = 1
      BY <1>0, <2>1 DEF OwnerAt, TakeDone
    <3>2. hw = <<>> /\ tx_pos = tx_len
      BY <3>1 DEF Sending, DoneInv
    <3>3. Len(hw) = 0
      BY <3>2, EmptySeq
    <3>4. OwnerAt({"staged", "driving", "waiting", "timedout", "release"})
      BY <3>1 DEF OwnerAt
    <3>5. \A i \in 1 .. tx_len : OnBus(<<tx_buf, i>>)
      BY <3>2, <3>3, <3>4 DEF Sending, Transit, InUart
    <3>. QED  BY <3>2, <3>5
  <2>2. CASE DriveRx(s)
    <3>1. pc[s] = "release" /\ err[s] = "ok"
      BY <2>2 DEF DriveRx
    <3>. QED  BY <3>1 DEF Sending, SentInv
  <2>3. CASE AbandonTx(s)
    \* the call timed out: its result is not 0
    <3>1. pc[s] = "timedout" /\ err[s] = "ok"
      BY <2>3 DEF AbandonTx
    <3>. QED  BY <3>1 DEF Sending, SentInv
  <2>4. CASE DriveTx(s) \/ EnableTxIrq(s) \/ TakeTimeout(s) \/ Unlock(s)
    <3>1. pc'[s] \in {"driving", "waiting", "timedout", "idle"}
      BY <1>0, <2>4 DEF DriveTx, EnableTxIrq, TakeTimeout, Unlock, Goto
    <3>. QED  BY <3>1
  <2>. QED  BY <2>1, <2>2, <2>3, <2>4 DEF InCall
<1>. QED  BY <1>3, <1>4, <1>5

\* Feeding the UART happens while the holder waits, before any completion.
LEMMA FillSends ==
  ASSUME Sending, FillFifo
  PROVE  (Transit /\ DoneInv /\ SentInv)'
<1>0. /\ LockInv /\ Len(hw) \in Nat /\ tx_pos \in Nat
      /\ tx_lock # "free" /\ pc[tx_lock] \in {"waiting", "timedout"}
  BY LenProperties DEF Sending, TypeInv, TypeOK, DriverInv, OwnerAt, FillFifo, TxReady
<1>1. PICK n \in Nat \ {0} :
         /\ tx_pos' = tx_pos + n
         /\ Len(hw') = Len(hw) + n
         /\ \A k \in 1 .. Len(hw) : hw'[k] = hw[k]
         /\ \A k \in Len(hw) + 1 .. Len(hw) + n : hw'[k] = <<tx_buf, tx_pos + (k - Len(hw))>>
  BY FillFifoProperties DEF Sending, TypeInv
<1>2. UNCHANGED <<pc, err, tx_lock, tx_buf, tx_len, tx_done_sem, tx_irq, bus>>
  BY DEF FillFifo, callVars
<1>3. Transit'
  <2>. SUFFICES ASSUME NEW i \in 1 .. tx_pos'
                PROVE  OnBus(<<tx_buf, i>>) \/ \E k \in 1 .. Len(hw') : hw'[k] = <<tx_buf, i>>
    BY <1>0, <1>2 DEF Transit, OwnerAt, OnBus, InUart
  <2>1. CASE i \in 1 .. tx_pos
    <3>1. OnBus(<<tx_buf, i>>) \/ InUart(<<tx_buf, i>>)
      BY <1>0, <2>1 DEF Sending, Transit, OwnerAt
    <3>2. ASSUME NEW k \in 1 .. Len(hw), hw[k] = <<tx_buf, i>>
          PROVE  k \in 1 .. Len(hw') /\ hw'[k] = <<tx_buf, i>>
      BY <1>0, <1>1, <3>2
    <3>. QED  BY <3>1, <3>2 DEF InUart
  <2>2. CASE ~(i \in 1 .. tx_pos)
    <3>. DEFINE k == Len(hw) + (i - tx_pos)
    <3>1. k \in Len(hw) + 1 .. Len(hw) + n /\ k \in 1 .. Len(hw') /\ tx_pos + (k - Len(hw)) = i
      BY <1>0, <1>1, <2>2
    <3>. HIDE DEF k
    <3>. QED  BY <1>1, <3>1
  <2>. QED  BY <2>1, <2>2
<1>4. DoneInv'
  BY <1>2 DEF Sending, DriverInv, DoneInv, OwnerAt, FillFifo, TxReady
<1>5. SentInv'
  <2>1. \A t \in Senders : pc[t] \in {"idle", "waiting", "timedout"}
    BY <1>0 DEF LockInv
  <2>. QED  BY <1>2, <2>1 DEF Sending, SentInv
<1>. QED  BY <1>3, <1>4, <1>5

\* Shifting a byte out moves it to the bus while the transceiver transmits.
LEMMA ShiftSends ==
  ASSUME Sending, ShiftOut
  PROVE  (Transit /\ DoneInv /\ SentInv)'
<1>1. /\ hw # <<>> /\ Len(hw') = Len(hw) - 1 /\ Len(hw) \in Nat \ {0} /\ Len(bus) \in Nat
      /\ \A k \in 1 .. Len(hw') : hw'[k] = hw[k + 1]
      /\ \/ ~de /\ bus' = bus
         \/ de /\ Len(bus') = Len(bus) + 1 /\ bus'[Len(bus) + 1] = hw[1]
               /\ \A k \in 1 .. Len(bus) : bus'[k] = bus[k]
  BY ShiftOutProperties, LenProperties DEF Sending, TypeInv, TypeOK, ShiftOut
<1>2. UNCHANGED <<pc, err, tx_lock, tx_buf, tx_len, tx_pos, tx_done_sem>>
  BY DEF ShiftOut, callVars, stageVars
<1>3. Transit'
  <2>1. CASE OwnerAt({"staged"})
    BY <1>2, <2>1 DEF Sending, TypeInv, TypeOK, Transit, OwnerAt
  <2>2. CASE OwnerAt({"driving", "waiting", "timedout", "release"})
    <3>1. de
      BY <2>2 DEF Sending, DriverInv
    <3>. SUFFICES ASSUME NEW i \in 1 .. tx_pos
                  PROVE  OnBus(<<tx_buf, i>>)' \/ InUart(<<tx_buf, i>>)'
      BY <1>2, <2>2 DEF Transit, OwnerAt
    <3>2. OnBus(<<tx_buf, i>>) \/ InUart(<<tx_buf, i>>)
      BY <2>2 DEF Sending, Transit, OwnerAt
    <3>3. ASSUME NEW k \in 1 .. Len(bus), bus[k] = <<tx_buf, i>>
          PROVE  k \in 1 .. Len(bus') /\ bus'[k] = <<tx_buf, i>>
      BY <1>1, <3>1, <3>3
    <3>4. ASSUME NEW k \in 1 .. Len(hw), hw[k] = <<tx_buf, i>>
          PROVE  OnBus(<<tx_buf, i>>)' \/ InUart(<<tx_buf, i>>)'
      <4>1. CASE k = 1
        <5>1. Len(bus) + 1 \in 1 .. Len(bus') /\ bus'[Len(bus) + 1] = <<tx_buf, i>>
          BY <1>1, <3>1, <3>4, <4>1
        <5>. QED  BY <1>2, <5>1 DEF OnBus
      <4>2. CASE k # 1
        <5>1. k - 1 \in 1 .. Len(hw') /\ hw'[k - 1] = hw[(k - 1) + 1] /\ (k - 1) + 1 = k
          BY <1>1, <4>2
        <5>. QED  BY <1>2, <3>4, <5>1 DEF InUart
      <4>. QED  BY <4>1, <4>2
    <3>. QED  BY <1>2, <3>2, <3>3, <3>4 DEF OnBus, InUart
  <2>3. CASE ~OwnerAt({"staged", "driving", "waiting", "timedout", "release"})
    BY <1>2, <2>3 DEF Transit, OwnerAt
  <2>. QED  BY <2>1, <2>2, <2>3 DEF OwnerAt
<1>4. DoneInv'
  BY <1>1, <1>2 DEF Sending, DoneInv, OwnerAt
<1>5. SentInv'
  BY <1>1, <1>2 DEF Sending, SentInv
<1>. QED  BY <1>3, <1>4, <1>5

LEMMA SendingStep == Sending /\ [Next]_vars => Sending'
<1>. SUFFICES ASSUME Sending, [Next]_vars
              PROVE  (Transit /\ DoneInv /\ SentInv)'
  BY LockStep, StagedStep, TypeStep, DriverStep, LineStep DEF Sending, TypeInv
<1>1. ASSUME UNCHANGED <<pc, err, tx_lock, tx_buf, tx_len, tx_pos, tx_done_sem, hw, bus>>
      PROVE  (Transit /\ DoneInv /\ SentInv)'
  BY <1>1 DEF Sending, Transit, DoneInv, SentInv, OwnerAt, OnBus, InUart
<1>2. ASSUME NEW s \in Senders, NEW n \in SendLens, SendRejected(s, n)
      PROVE  (Transit /\ DoneInv /\ SentInv)'
  <2>1. /\ UNCHANGED <<pc, tx_lock, tx_buf, tx_len, tx_pos, tx_done_sem, hw, bus>>
        /\ \A t \in Senders : pc[t] # "idle" => err'[t] = err[t]
    BY <1>2 DEF SendRejected, stageVars, Sending, TypeInv, TypeOK
  <2>2. Transit' /\ DoneInv'
    BY <2>1 DEF Sending, Transit, DoneInv, OwnerAt, OnBus, InUart
  <2>3. SentInv'
    BY <2>1 DEF Sending, SentInv, OnBus
  <2>. QED  BY <2>2, <2>3
<1>3. CASE SignalDone
  <2>1. hw = <<>> /\ tx_pos = tx_len /\ UNCHANGED <<pc, err, tx_lock, tx_buf, tx_len, tx_pos, hw, bus>>
    BY <1>3 DEF SignalDone, callVars, stageVars
  <2>. QED  BY <2>1 DEF Sending, Transit, DoneInv, SentInv, OwnerAt, OnBus, InUart
<1>4. CASE InitDriver \/ UNCHANGED drvVars
  BY <1>1, <1>4 DEF InitDriver, drvVars, callVars, stageVars
<1>. QED  BY <1>2, <1>3, <1>4, StageSends, CallSends, FillSends, ShiftSends, NextSteps DEF Uart

LEMMA SendingHolds == Spec => []Sending
<1>1. Init => Transit /\ DoneInv /\ SentInv
  BY DEF Init, Transit, DoneInv, SentInv, OwnerAt
<1>2. Init /\ TypeInv /\ DriverInv /\ LineInv => Sending
  BY <1>1 DEF Sending
<1>. QED  BY <1>2, SendingStep, DriverInvHolds, LineInvHolds, PTL DEF Spec

\* rs485_send returns 0 only when every byte of its frame, and no byte that is
\* not in it, reached the bus while the transceiver was in transmit mode.
THEOREM SuccessMeansSentHolds == Spec => []SuccessMeansSent
<1>1. Sending => SuccessMeansSent
  <2>. SUFFICES ASSUME Sending, NEW s \in Senders, pc[s] \in {"release", "unlock"}, err[s] = "ok"
                PROVE  FrameBytes(frame[s]) = 1 .. tx_len
    BY DEF SuccessMeansSent
  <2>1. /\ frame[s] = tx_buf /\ tx_len \in 0 .. TxBuffer /\ tx_buf \in 0 .. MaxFrames
        /\ tx_pos \in 0 .. tx_len
    BY DEF Sending, TypeInv, TypeOK, LockInv, StagedInv
  <2>2. tx_pos = tx_len /\ \A i \in 1 .. tx_len : OnBus(<<tx_buf, i>>)
    BY DEF Sending, SentInv
  <2>3. ASSUME NEW i \in 1 .. TxBuffer, NEW k \in 1 .. Len(bus), bus[k] = <<tx_buf, i>>
        PROVE  i \in 1 .. tx_len
    <3>1. Taken(bus[k])
      BY DEF Sending, LineInv
    <3>. QED  BY <2>1, <2>2, <2>3, <3>1 DEF Taken
  <2>4. ASSUME NEW i \in 1 .. tx_len
        PROVE  i \in 1 .. TxBuffer
    BY <2>1
  <2>. QED  BY <2>1, <2>2, <2>3, <2>4 DEF FrameBytes, OnBus
<1>. QED  BY <1>1, SendingHolds, PTL
=============================================================================

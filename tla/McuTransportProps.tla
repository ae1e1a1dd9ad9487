-------------------------- MODULE McuTransportProps --------------------------
(***************************************************************************)
(* What must hold of the MCU transport.                                    *)
(***************************************************************************)
EXTENDS McuTransport

-----------------------------------------------------------------------------
(* Every variable keeps the range its C declaration and its uses give it;    *)
(* in particular the ring never holds more than RingSize bytes.              *)
Handlers == Callbacks \union {NULL}

RingTypeOK ==
  /\ rx_ring_buf \in Seq(Nat)
  /\ Len(rx_ring_buf) <= RingSize
  /\ rx_data_sem \in 0 .. SemLimit
  /\ rx_dropped_bytes \in Nat

CallbackTypeOK ==
  /\ rx_callback \in Handlers
  /\ rx_callback_user_data \in {UserData(c) : c \in Handlers}
  /\ cb_lock \in Registrars \union {"free", "rx"}
  /\ regpc \in [Registrars -> {"idle", "setcb", "setdata"}]
  /\ regarg \in [Registrars -> Handlers]

RxTypeOK ==
  /\ rxpc \in {"notstarted", "wait", "get", "lock", "copycb", "copydata", "call", "report", "fault"}
  /\ chunk \in Seq(Nat)
  /\ Len(chunk) <= PullChunk
  /\ cb \in Handlers
  /\ cb_user_data \in {UserData(c) : c \in Handlers}

TxTypeOK ==
  /\ tx_lock \in Senders \union {"free"}
  /\ txlen \in [Senders -> Nat]
  /\ txpos \in [Senders -> Nat]
  /\ wire \in Seq(Senders \X Nat \X Nat)

HistoryTypeOK ==
  /\ arrived \in Nat
  /\ delivered \in Seq(Nat)
  /\ discarded \in Nat
  /\ reported \in Nat
  /\ stale \in 0 .. 2

TypeOK ==
  /\ transport_ready \in BOOLEAN
  /\ semInit \in BOOLEAN
  /\ RingTypeOK
  /\ CallbackTypeOK
  /\ RxTypeOK
  /\ TxTypeOK
  /\ HistoryTypeOK

(* No lost wakeup: the RX thread never sleeps on the semaphore while the     *)
(* interrupt handler has left bytes in the ring, or dropped bytes that are   *)
(* not reported yet, unless the semaphore holds a count that wakes it.       *)
NoLostWakeup ==
  (rxpc = "wait" /\ (rx_ring_buf # <<>> \/ rx_dropped_bytes > 0)) => rx_data_sem > 0

(* A callback is only ever called with the user_data it was registered       *)
(* with, although both are replaced by other threads one after the other.    *)
NoTornCallback ==
  rxpc = "call" => cb_user_data = UserData(cb)

(* Every byte the UART received is in exactly one place: handed over, let    *)
(* go without a callback, in the thread's chunk, in the ring, or counted as  *)
(* dropped, and a drop is reported once.                                     *)
BytesAccounted ==
  arrived = Len(delivered) + discarded + Len(chunk) + Len(rx_ring_buf)
              + rx_dropped_bytes + reported

(* After mcu_transport_register_rx_callback has returned, the callback it    *)
(* replaced is called at most once more (the call whose copy was taken       *)
(* before).                                                                  *)
OneStaleCall == stale <= 1

(* Frames sent by different threads never interleave on the line: a byte     *)
(* that does not end its frame is followed by the next byte of that frame.   *)
FramesContiguous ==
  \A i \in 1 .. Len(wire) - 1 :
    wire[i][2] < wire[i][3] => wire[i + 1] = <<wire[i][1], wire[i][2] + 1, wire[i][3]>>

(* A drop is eventually reported, whatever the RX thread was doing when it   *)
(* happened.                                                                 *)
DropsGetReported == rx_dropped_bytes > 0 ~> rx_dropped_bytes = 0

-----------------------------------------------------------------------------
(* The ring and the thread's chunk together implement one FIFO channel that  *)
(* loses bytes only at the end of a burst and only when the ring is full.    *)
Channel ==
  INSTANCE ByteChannel WITH
    Capacity <- RingSize,  MaxBurst <- FifoChunk,  MaxPiece <- PullChunk,
    next     <- arrived,   queue    <- chunk \o rx_ring_buf,
    received <- delivered, unwanted <- discarded,
    lost     <- rx_dropped_bytes + reported

ChannelSpec == Channel!Spec

(* The part of it that says what may happen, without what must.              *)
ChannelSteps == Channel!Init /\ [][Channel!Next]_Channel!chanVars
=============================================================================

---------------------------- MODULE McuTransport ----------------------------
(***************************************************************************)
(* The UART byte-stream transport between the BLE side and the MCU         *)
(* (package_mcu_transport): an interrupt handler fills a ring buffer, the  *)
(* RX thread drains it and hands chunks to a replaceable callback, and any *)
(* thread sends frames by polling the bytes out under tx_lock.             *)
(*                                                                         *)
(* Received bytes are numbered 1, 2, 3, ... in the order of their arrival. *)
(* One iteration of the interrupt handler is one step: on the single-core  *)
(* nRF52833 no thread runs inside it.                                      *)
(***************************************************************************)
EXTENDS Naturals, Sequences

CONSTANTS
  RingSize,     (* CONFIG_PACKAGE_MCU_TRANSPORT_RX_RING_BUFFER_SIZE            *)
  FifoChunk,    (* most bytes one uart_fifo_read returns: sizeof(fifo_data)    *)
  PullChunk,    (* most bytes one ring_buf_get returns: sizeof(chunk)          *)
  SemLimit,     (* K_SEM_MAX_LIMIT                                             *)
  MaxTraffic,   (* bound: bytes received and sent in a behaviour               *)
  Registrars,   (* threads that call mcu_transport_register_rx_callback        *)
  Callbacks,    (* the callbacks they register, other than NULL                *)
  Senders,      (* threads that call mcu_transport_send                        *)
  SendLens,     (* the lengths they send                                       *)
  NULL

ASSUME SizeAssumption ==
  /\ RingSize \in Nat \ {0}
  /\ FifoChunk \in Nat \ {0}
  /\ PullChunk \in Nat \ {0}
  /\ SemLimit \in Nat \ {0}
  /\ MaxTraffic \in Nat
  /\ SendLens \subseteq Nat

ASSUME NameAssumption ==
  /\ "rx" \notin Registrars
  /\ "free" \notin Registrars \union Senders
  /\ NULL \notin Callbacks

VARIABLES
  transport_ready,
  semInit,           \* k_sem_init and k_mutex_init have run
  rx_ring_buf,       \* the bytes in the ring, oldest first
  rx_data_sem,       \* count of the semaphore
  rx_dropped_bytes,
  rx_callback,
  rx_callback_user_data,
  cb_lock,           \* owner of the mutex: "free", "rx" or a registrar
  rxpc,              \* where the RX thread is
  chunk,             \* its local buffer: the bytes pulled and not yet handed over
  cb,                \* its local copy of rx_callback ...
  cb_user_data,      \* ... and of rx_callback_user_data
  regpc,             \* where each registrar is
  regarg,            \* the callback it registers
  tx_lock,           \* owner of the mutex: "free" or a sender
  txlen,             \* length of the frame a sender is sending, 0 if none
  txpos,             \* bytes of it already polled out
  wire,              \* history: bytes on the TX line, as <<sender, index, length>>
  arrived,           \* history: bytes received by the UART
  delivered,         \* history: bytes handed to a callback, in order
  discarded,         \* history: bytes pulled while no callback was registered
  reported,          \* history: dropped bytes already reported
  stale              \* history: calls of an already replaced callback since
                     \* the last registration (counted up to 2)

initVars == <<transport_ready, semInit>>
ringVars == <<rx_ring_buf, rx_data_sem, rx_dropped_bytes>>
cbVars   == <<rx_callback, rx_callback_user_data, cb_lock>>
rxVars   == <<rxpc, chunk, cb, cb_user_data>>
regVars  == <<regpc, regarg>>
txVars   == <<tx_lock, txlen, txpos, wire>>
histVars == <<arrived, delivered, discarded, reported, stale>>
vars     == <<initVars, ringVars, cbVars, rxVars, regVars, txVars, histVars>>

Least(a, b) == IF a <= b THEN a ELSE b

\* The first k elements of a sequence, and what follows them.
Front(s, k) == SubSeq(s, 1, k)
After(s, k) == SubSeq(s, k + 1, Len(s))

\* k_sem_give: the count saturates at the limit.
Give(sem) == Least(sem + 1, SemLimit)

\* The user_data registered together with a callback.
UserData(c) == <<"data", c>>

\* The bound on the traffic leaves room for n bytes more.
WithinTraffic(n) == arrived + Len(wire) + n <= MaxTraffic

Init ==
  /\ transport_ready = FALSE
  /\ semInit = FALSE
  /\ rx_ring_buf = <<>>
  /\ rx_data_sem = 0
  /\ rx_dropped_bytes = 0
  /\ rx_callback = NULL
  /\ rx_callback_user_data = UserData(NULL)
  /\ cb_lock = "free"
  /\ rxpc = "notstarted"
  /\ chunk = <<>>
  /\ cb = NULL
  /\ cb_user_data = UserData(NULL)
  /\ regpc = [r \in Registrars |-> "idle"]
  /\ regarg = [r \in Registrars |-> NULL]
  /\ tx_lock = "free"
  /\ txlen = [s \in Senders |-> 0]
  /\ txpos = [s \in Senders |-> 0]
  /\ wire = <<>>
  /\ arrived = 0
  /\ delivered = <<>>
  /\ discarded = 0
  /\ reported = 0
  /\ stale = 0

-----------------------------------------------------------------------------
(* mcu_transport_init, run by SYS_INIT before the static threads start.      *)

\* device_is_ready fails: -ENODEV before anything is initialised.
InitNoDevice ==
  /\ rxpc = "notstarted"
  /\ rxpc' = "wait"
  /\ UNCHANGED <<initVars, ringVars, cbVars, chunk, cb, cb_user_data, regVars, txVars, histVars>>

\* uart_irq_callback_user_data_set fails after the kernel objects are set up.
InitNoIrq ==
  /\ rxpc = "notstarted"
  /\ rxpc' = "wait"
  /\ semInit' = TRUE
  /\ UNCHANGED <<transport_ready, ringVars, cbVars, chunk, cb, cb_user_data, regVars, txVars, histVars>>

InitOk ==
  /\ rxpc = "notstarted"
  /\ rxpc' = "wait"
  /\ semInit' = TRUE
  /\ transport_ready' = TRUE
  /\ UNCHANGED <<ringVars, cbVars, chunk, cb, cb_user_data, regVars, txVars, histVars>>

-----------------------------------------------------------------------------
(* mcu_transport_uart_isr: one iteration of its loop, n bytes read.          *)

\* Seeded mistakes: the put ignores the free space; a burst that does not fit
\* is refused as a whole.
StoredUnbounded(n) == n
StoredWhole(n)     == IF n <= RingSize - Len(rx_ring_buf) THEN n ELSE 0

\* ring_buf_put: how many of n bytes fit.
Stored(n) == Least(n, RingSize - Len(rx_ring_buf))

\* Seeded mistake: the whole burst is counted as dropped, not the excess.
ExcessWhole(n) == IF Stored(n) < n THEN n ELSE 0

\* What atomic_add adds to the drop counter.
Excess(n) == n - Stored(n)

\* ring_buf_put accepts what fits; the excess is counted as dropped; the
\* semaphore is given whether or not anything was stored.
UartIsr(n) ==
  LET written == Stored(n)
  IN  /\ transport_ready
      /\ WithinTraffic(n)
      /\ arrived' = arrived + n
      /\ rx_ring_buf' = rx_ring_buf \o [i \in 1 .. written |-> arrived + i]
      /\ rx_dropped_bytes' = rx_dropped_bytes + Excess(n)
      /\ rx_data_sem' = Give(rx_data_sem)
      /\ UNCHANGED <<initVars, cbVars, rxVars, regVars, txVars,
                     delivered, discarded, reported, stale>>

-----------------------------------------------------------------------------
(* mcu_transport_rx_thread.                                                  *)

RxTake ==
  /\ rxpc = "wait"
  /\ semInit
  /\ rx_data_sem > 0
  /\ rx_data_sem' = rx_data_sem - 1
  /\ rxpc' = "get"
  /\ UNCHANGED <<initVars, rx_ring_buf, rx_dropped_bytes, cbVars, chunk, cb, cb_user_data,
                 regVars, txVars, histVars>>

\* k_sem_take on a semaphore that k_sem_init never set up: its wait queue is
\* a zeroed list, so pending on it faults and the kernel halts the thread.
RxTakeUninitialised ==
  /\ rxpc = "wait"
  /\ ~semInit
  /\ rxpc' = "fault"
  /\ UNCHANGED <<initVars, ringVars, cbVars, chunk, cb, cb_user_data, regVars, txVars, histVars>>

\* Seeded mistakes: leaving the inner loop skips the report; the callback is
\* copied once and not for every chunk.
RxGetNoReport ==
  LET pulled == Least(PullChunk, Len(rx_ring_buf))
  IN  /\ rxpc = "get"
      /\ chunk' = Front(rx_ring_buf, pulled)
      /\ rx_ring_buf' = After(rx_ring_buf, pulled)
      /\ rxpc' = IF pulled = 0 THEN "wait" ELSE "lock"
      /\ UNCHANGED <<initVars, rx_data_sem, rx_dropped_bytes, cbVars, cb, cb_user_data,
                     regVars, txVars, histVars>>

RxGetCopiedOnce ==
  LET pulled == Least(PullChunk, Len(rx_ring_buf))
  IN  /\ rxpc = "get"
      /\ chunk' = Front(rx_ring_buf, pulled)
      /\ rx_ring_buf' = After(rx_ring_buf, pulled)
      /\ rxpc' = IF pulled = 0 THEN "report" ELSE IF cb = NULL THEN "lock" ELSE "call"
      /\ UNCHANGED <<initVars, rx_data_sem, rx_dropped_bytes, cbVars, cb, cb_user_data,
                     regVars, txVars, histVars>>

\* ring_buf_get under rx_ring_lock; leave the inner loop when it returns 0.
RxGet ==
  LET pulled == Least(PullChunk, Len(rx_ring_buf))
  IN  /\ rxpc = "get"
      /\ chunk' = Front(rx_ring_buf, pulled)
      /\ rx_ring_buf' = After(rx_ring_buf, pulled)
      /\ rxpc' = IF pulled = 0 THEN "report" ELSE "lock"
      /\ UNCHANGED <<initVars, rx_data_sem, rx_dropped_bytes, cbVars, cb, cb_user_data,
                     regVars, txVars, histVars>>

\* Seeded mistake: the copies are taken without the mutex.
RxLockMissing ==
  /\ rxpc = "lock"
  /\ rxpc' = "copycb"
  /\ UNCHANGED <<initVars, ringVars, cbVars, chunk, cb, cb_user_data, regVars, txVars, histVars>>

RxLock ==
  /\ rxpc = "lock"
  /\ cb_lock = "free"
  /\ cb_lock' = "rx"
  /\ rxpc' = "copycb"
  /\ UNCHANGED <<initVars, ringVars, rx_callback, rx_callback_user_data, chunk, cb, cb_user_data,
                 regVars, txVars, histVars>>

RxCopyCallback ==
  /\ rxpc = "copycb"
  /\ cb' = rx_callback
  /\ rxpc' = "copydata"
  /\ UNCHANGED <<initVars, ringVars, cbVars, chunk, cb_user_data, regVars, txVars, histVars>>

RxCopyUserData ==
  /\ rxpc = "copydata"
  /\ cb_user_data' = rx_callback_user_data
  /\ cb_lock' = "free"
  /\ rxpc' = "call"
  /\ UNCHANGED <<initVars, ringVars, rx_callback, rx_callback_user_data, chunk, cb,
                 regVars, txVars, histVars>>

\* Hand the chunk over, or let it go when no callback was registered.
RxCall ==
  /\ rxpc = "call"
  /\ \/ /\ cb # NULL
        /\ delivered' = delivered \o chunk
        /\ stale' = IF cb_user_data = rx_callback_user_data THEN stale ELSE Least(stale + 1, 2)
        /\ UNCHANGED discarded
     \/ /\ cb = NULL
        /\ discarded' = discarded + Len(chunk)
        /\ UNCHANGED <<delivered, stale>>
  /\ chunk' = <<>>
  /\ rxpc' = "get"
  /\ UNCHANGED <<initVars, ringVars, cbVars, cb, cb_user_data, regVars, txVars, arrived, reported>>

\* Seeded mistake: wake-ups collected while draining are thrown away.
RxReportReset ==
  /\ rxpc = "report"
  /\ reported' = reported + rx_dropped_bytes
  /\ rx_dropped_bytes' = 0
  /\ rx_data_sem' = 0
  /\ rxpc' = "wait"
  /\ UNCHANGED <<initVars, rx_ring_buf, cbVars, chunk, cb, cb_user_data,
                 regVars, txVars, arrived, delivered, discarded, stale>>

\* atomic_set(&rx_dropped_bytes, 0) and the warning that reports the old value.
RxReport ==
  /\ rxpc = "report"
  /\ reported' = reported + rx_dropped_bytes
  /\ rx_dropped_bytes' = 0
  /\ rxpc' = "wait"
  /\ UNCHANGED <<initVars, rx_ring_buf, rx_data_sem, cbVars, chunk, cb, cb_user_data,
                 regVars, txVars, arrived, delivered, discarded, stale>>

RxThread ==
  \/ RxTake \/ RxTakeUninitialised \/ RxGet
  \/ RxLock \/ RxCopyCallback \/ RxCopyUserData \/ RxCall
  \/ RxReport

-----------------------------------------------------------------------------
(* mcu_transport_register_rx_callback; before initialisation it returns      *)
(* -EAGAIN and changes nothing.                                              *)

RegisterLock(r, c) ==
  /\ regpc[r] = "idle"
  /\ transport_ready
  /\ cb_lock = "free"
  /\ cb_lock' = r
  /\ regarg' = [regarg EXCEPT ![r] = c]
  /\ regpc' = [regpc EXCEPT ![r] = "setcb"]
  /\ UNCHANGED <<initVars, ringVars, rx_callback, rx_callback_user_data, rxVars, txVars, histVars>>

RegisterCallback(r) ==
  /\ regpc[r] = "setcb"
  /\ rx_callback' = regarg[r]
  /\ regpc' = [regpc EXCEPT ![r] = "setdata"]
  /\ UNCHANGED <<initVars, ringVars, rx_callback_user_data, cb_lock, rxVars, regarg, txVars, histVars>>

RegisterUserData(r) ==
  /\ regpc[r] = "setdata"
  /\ rx_callback_user_data' = UserData(regarg[r])
  /\ cb_lock' = "free"
  /\ regpc' = [regpc EXCEPT ![r] = "idle"]
  /\ stale' = 0
  /\ UNCHANGED <<initVars, ringVars, rx_callback, rxVars, regarg, txVars,
                 arrived, delivered, discarded, reported>>

-----------------------------------------------------------------------------
(* mcu_transport_send; before initialisation it returns -EAGAIN, for NULL    *)
(* data -EINVAL and for length 0 it returns 0: none of them changes anything.*)

\* Seeded mistake: the frame is sent without the mutex.
SendLockMissing(s, n) ==
  /\ transport_ready
  /\ txlen[s] = 0
  /\ n > 0
  /\ WithinTraffic(n)
  /\ txlen' = [txlen EXCEPT ![s] = n]
  /\ UNCHANGED <<initVars, ringVars, cbVars, rxVars, regVars, tx_lock, txpos, wire, histVars>>

SendLock(s, n) ==
  /\ transport_ready
  /\ txlen[s] = 0
  /\ n > 0
  /\ WithinTraffic(n)
  /\ tx_lock = "free"
  /\ tx_lock' = s
  /\ txlen' = [txlen EXCEPT ![s] = n]
  /\ txpos' = [txpos EXCEPT ![s] = 0]
  /\ UNCHANGED <<initVars, ringVars, cbVars, rxVars, regVars, wire, histVars>>

SendByte(s) ==
  /\ txpos[s] < txlen[s]
  /\ wire' = Append(wire, <<s, txpos[s] + 1, txlen[s]>>)
  /\ txpos' = [txpos EXCEPT ![s] = @ + 1]
  /\ UNCHANGED <<initVars, ringVars, cbVars, rxVars, regVars, tx_lock, txlen, histVars>>

SendUnlock(s) ==
  /\ txlen[s] > 0
  /\ txpos[s] = txlen[s]
  /\ tx_lock' = "free"
  /\ txlen' = [txlen EXCEPT ![s] = 0]
  /\ txpos' = [txpos EXCEPT ![s] = 0]
  /\ UNCHANGED <<initVars, ringVars, cbVars, rxVars, regVars, wire, histVars>>

-----------------------------------------------------------------------------
Register(r) ==
  \/ \E c \in Callbacks \union {NULL} : RegisterLock(r, c)
  \/ RegisterCallback(r)
  \/ RegisterUserData(r)

Send(s) ==
  \/ \E n \in SendLens : SendLock(s, n)
  \/ SendByte(s)
  \/ SendUnlock(s)

Next ==
  \/ InitNoDevice \/ InitNoIrq \/ InitOk
  \/ \E n \in 1 .. FifoChunk : UartIsr(n)
  \/ RxThread
  \/ \E r \in Registrars : Register(r)
  \/ \E s \in Senders : Send(s)

(***************************************************************************)
(* Fairness.  The RX thread runs whenever it is ready.  A registrar that   *)
(* holds cb_lock is lent the RX thread's priority (k_mutex), so it leaves  *)
(* its critical section.  k_mutex_unlock hands the mutex to the waiting    *)
(* thread, so the RX thread cannot be passed over for ever: strong         *)
(* fairness of RxLock.  Nothing obliges a byte to arrive, a callback to be *)
(* registered or a frame to be sent.                                       *)
(***************************************************************************)
Fairness ==
  /\ WF_vars(RxThread)
  /\ SF_vars(RxLock)
  /\ \A r \in Registrars : WF_vars(RegisterCallback(r) \/ RegisterUserData(r))

Spec     == Init /\ [][Next]_vars
FairSpec == Spec /\ Fairness

=============================================================================

------------------------ MODULE McuTransport_proofs ------------------------
(***************************************************************************)
(* Proofs of the safety properties of the MCU transport, for every ring    *)
(* size, chunk size, semaphore limit and set of threads.                   *)
(***************************************************************************)
EXTENDS McuTransportProps, SequenceTheorems, TLAPS

USE SizeAssumption, NameAssumption

-----------------------------------------------------------------------------
(* Facts about the helpers of the model.                                     *)

\* Giving a semaphore leaves it positive and within its limit.
LEMMA GiveProperties ==
  ASSUME NEW sem \in 0 .. SemLimit
  PROVE  Give(sem) \in 1 .. SemLimit
BY DEF Give, Least

\* Splitting a sequence of bytes keeps every element on one side or the other.
LEMMA SplitProperties ==
  ASSUME NEW s \in Seq(Nat), NEW k \in 0 .. Len(s)
  PROVE  /\ Front(s, k) \in Seq(Nat)
         /\ After(s, k) \in Seq(Nat)
         /\ Len(Front(s, k)) = k
         /\ Len(After(s, k)) = Len(s) - k
BY DEF Front, After

\* ... and putting the two sides together again gives the sequence back.
LEMMA SplitConcat ==
  ASSUME NEW s \in Seq(Nat), NEW k \in 0 .. Len(s)
  PROVE  Front(s, k) \o After(s, k) = s
<1>1. SubSeq(s, 1, k) \o SubSeq(s, k + 1, Len(s)) = SubSeq(s, 1, Len(s))
  <2>1. Len(s) \in Nat
    OBVIOUS
  <2>2. 1 \in 1 .. Len(s) + 1 /\ k \in 1 - 1 .. Len(s) /\ Len(s) \in k .. Len(s)
    BY <2>1
  <2>. QED  BY <2>2, ConcatAdjacentSubSeq, Zenon
<1>2. SubSeq(s, 1, Len(s)) = s
  BY SubSeqFull
<1>. QED  BY <1>1, <1>2 DEF Front, After

\* What is appended to the ring is appended to chunk and ring together.
LEMMA AppendBurst ==
  ASSUME chunk \in Seq(Nat), rx_ring_buf \in Seq(Nat), NEW burst \in Seq(Nat)
  PROVE  (chunk \o rx_ring_buf) \o burst = chunk \o (rx_ring_buf \o burst)
BY ConcatAssociative

\* The bytes the interrupt handler stores are numbered on from the last arrival.
LEMMA BurstProperties ==
  ASSUME NEW s \in Seq(Nat), NEW a \in Nat, NEW k \in Nat
  PROVE  /\ s \o [i \in 1 .. k |-> a + i] \in Seq(Nat)
         /\ Len(s \o [i \in 1 .. k |-> a + i]) = Len(s) + k
<1>1. [i \in 1 .. k |-> a + i] \in Seq(Nat) /\ Len([i \in 1 .. k |-> a + i]) = k
  OBVIOUS
<1>. QED  BY <1>1, ConcatProperties

-----------------------------------------------------------------------------
(* Type correctness: in particular the ring never exceeds its size and the   *)
(* semaphore never exceeds its limit.                                        *)
THEOREM TypeCorrect == Spec => []TypeOK
<1>. USE DEF initVars, ringVars, cbVars, rxVars, regVars, txVars, histVars
<1>1. Init => TypeOK
  <2>. SUFFICES ASSUME Init PROVE TypeOK
    OBVIOUS
  <2>1. RingTypeOK /\ RxTypeOK /\ CallbackTypeOK
    BY DEF Init, RingTypeOK, RxTypeOK, CallbackTypeOK, Handlers
  <2>2. TxTypeOK /\ HistoryTypeOK
    BY DEF Init, TxTypeOK, HistoryTypeOK
  <2>. QED  BY <2>1, <2>2 DEF Init, TypeOK
<1>2. TypeOK /\ [Next]_vars => TypeOK'
  <2>. SUFFICES ASSUME TypeOK, [Next]_vars
                PROVE  TypeOK'
    OBVIOUS
  <2>. /\ transport_ready \in BOOLEAN /\ semInit \in BOOLEAN
       /\ RingTypeOK /\ CallbackTypeOK /\ RxTypeOK /\ TxTypeOK /\ HistoryTypeOK
    BY DEF TypeOK
  <2>1. CASE InitNoDevice \/ InitNoIrq \/ InitOk
    <3>1. RxTypeOK' /\ transport_ready' \in BOOLEAN /\ semInit' \in BOOLEAN
      BY <2>1 DEF InitNoDevice, InitNoIrq, InitOk, RxTypeOK
    <3>2. RingTypeOK' /\ CallbackTypeOK' /\ TxTypeOK' /\ HistoryTypeOK'
      BY <2>1 DEF InitNoDevice, InitNoIrq, InitOk,
                  RingTypeOK, CallbackTypeOK, TxTypeOK, HistoryTypeOK
    <3>. QED  BY <3>1, <3>2 DEF TypeOK
  <2>2. ASSUME NEW n \in 1 .. FifoChunk, UartIsr(n)
        PROVE  TypeOK'
    <3>. DEFINE written == Stored(n)
    <3>0. n \in Nat /\ RingSize - Len(rx_ring_buf) \in Nat
      BY DEF RingTypeOK
    <3>1. written \in 0 .. n /\ written <= RingSize - Len(rx_ring_buf)
      BY <3>0 DEF Least, Stored
    <3>2. RingTypeOK'
      <4>1. /\ rx_ring_buf' = rx_ring_buf \o [i \in 1 .. written |-> arrived + i]
            /\ rx_dropped_bytes' = rx_dropped_bytes + (n - written)
            /\ rx_data_sem' = Give(rx_data_sem)
        BY <2>2 DEF UartIsr, Excess
      <4>. HIDE DEF written
      <4>2. rx_ring_buf' \in Seq(Nat) /\ Len(rx_ring_buf') = Len(rx_ring_buf) + written
        BY <3>1, <4>1, BurstProperties DEF RingTypeOK, HistoryTypeOK
      <4>. QED  BY <3>1, <4>1, <4>2, GiveProperties DEF RingTypeOK
    <3>3. HistoryTypeOK'
      BY <2>2 DEF UartIsr, HistoryTypeOK
    <3>4. CallbackTypeOK' /\ RxTypeOK' /\ TxTypeOK'
      BY <2>2 DEF UartIsr, CallbackTypeOK, RxTypeOK, TxTypeOK
    <3>. QED  BY <2>2, <3>2, <3>3, <3>4 DEF UartIsr, TypeOK
  <2>3. CASE RxTake \/ RxTakeUninitialised \/ RxLock \/ RxCopyCallback \/ RxCopyUserData
    <3>. USE DEF RxTake, RxTakeUninitialised, RxLock, RxCopyCallback, RxCopyUserData
    <3>1. RingTypeOK'
      BY <2>3 DEF RingTypeOK
    <3>2. CallbackTypeOK' /\ RxTypeOK'
      BY <2>3 DEF CallbackTypeOK, RxTypeOK
    <3>3. TxTypeOK' /\ HistoryTypeOK'
      BY <2>3 DEF TxTypeOK, HistoryTypeOK
    <3>. QED  BY <2>3, <3>1, <3>2, <3>3 DEF TypeOK
  <2>4. CASE RxGet
    <3>0. Len(rx_ring_buf) \in Nat
      BY DEF RingTypeOK
    <3>1. Least(PullChunk, Len(rx_ring_buf)) \in 0 .. Len(rx_ring_buf)
      BY <3>0 DEF Least
    <3>2. Least(PullChunk, Len(rx_ring_buf)) <= PullChunk
      BY <3>0 DEF Least
    <3>3. RingTypeOK' /\ RxTypeOK'
      BY <2>4, <3>1, <3>2, SplitProperties DEF RxGet, RingTypeOK, RxTypeOK
    <3>4. CallbackTypeOK' /\ TxTypeOK' /\ HistoryTypeOK'
      BY <2>4 DEF RxGet, CallbackTypeOK, TxTypeOK, HistoryTypeOK
    <3>. QED  BY <2>4, <3>3, <3>4 DEF RxGet, TypeOK
  <2>5. CASE RxCall
    <3>1. RxTypeOK'
      BY <2>5 DEF RxCall, RxTypeOK
    <3>2. HistoryTypeOK'
      <4>0. delivered \in Seq(Nat) /\ delivered \o chunk \in Seq(Nat)
        BY ConcatProperties DEF HistoryTypeOK, RxTypeOK
      <4>1. delivered' \in Seq(Nat)
        BY <2>5, <4>0, Zenon DEF RxCall
      <4>2. discarded' \in Nat /\ stale' \in 0 .. 2
        BY <2>5, LenProperties DEF RxCall, Least, HistoryTypeOK, RxTypeOK
      <4>. QED  BY <2>5, <4>1, <4>2 DEF RxCall, HistoryTypeOK
    <3>3. RingTypeOK' /\ CallbackTypeOK' /\ TxTypeOK'
      BY <2>5 DEF RxCall, RingTypeOK, CallbackTypeOK, TxTypeOK
    <3>. QED  BY <2>5, <3>1, <3>2, <3>3 DEF RxCall, TypeOK
  <2>6. CASE RxReport
    <3>1. RingTypeOK' /\ HistoryTypeOK'
      BY <2>6 DEF RxReport, RingTypeOK, HistoryTypeOK
    <3>2. CallbackTypeOK' /\ RxTypeOK' /\ TxTypeOK'
      BY <2>6 DEF RxReport, CallbackTypeOK, RxTypeOK, TxTypeOK
    <3>. QED  BY <2>6, <3>1, <3>2 DEF RxReport, TypeOK
  <2>7. ASSUME NEW r \in Registrars, Register(r)
        PROVE  TypeOK'
    <3>. USE DEF Register, RegisterLock, RegisterCallback, RegisterUserData
    <3>1. CallbackTypeOK'
      BY <2>7 DEF CallbackTypeOK, Handlers
    <3>2. HistoryTypeOK'
      BY <2>7 DEF HistoryTypeOK
    <3>3. RingTypeOK' /\ RxTypeOK' /\ TxTypeOK'
      BY <2>7 DEF RingTypeOK, RxTypeOK, TxTypeOK
    <3>. QED  BY <2>7, <3>1, <3>2, <3>3 DEF TypeOK
  <2>8. ASSUME NEW s \in Senders, Send(s)
        PROVE  TypeOK'
    <3>1. TxTypeOK'
      <4>1. CASE SendUnlock(s)
        BY <4>1 DEF SendUnlock, TxTypeOK
      <4>2. ASSUME NEW n \in SendLens, SendLock(s, n)
            PROVE  TxTypeOK'
        BY <4>2 DEF SendLock, TxTypeOK
      <4>3. CASE SendByte(s)
        <5>1. <<s, txpos[s] + 1, txlen[s]>> \in Senders \X Nat \X Nat
          BY DEF TxTypeOK
        <5>2. wire' \in Seq(Senders \X Nat \X Nat)
          BY <4>3, <5>1, AppendProperties DEF SendByte, TxTypeOK
        <5>3. txpos' \in [Senders -> Nat]
          BY <4>3 DEF SendByte, TxTypeOK
        <5>. QED  BY <4>3, <5>2, <5>3 DEF SendByte, TxTypeOK
      <4>. QED  BY <2>8, <4>1, <4>2, <4>3 DEF Send
    <3>2. RingTypeOK' /\ CallbackTypeOK' /\ RxTypeOK' /\ HistoryTypeOK'
      BY <2>8 DEF Send, SendLock, SendByte, SendUnlock,
                  RingTypeOK, CallbackTypeOK, RxTypeOK, HistoryTypeOK
    <3>. QED  BY <2>8, <3>1, <3>2 DEF Send, SendLock, SendByte, SendUnlock, TypeOK
  <2>9. CASE UNCHANGED vars
    BY <2>9 DEF vars, TypeOK, RingTypeOK, CallbackTypeOK, RxTypeOK, TxTypeOK, HistoryTypeOK
  <2>. QED
    BY <2>1, <2>2, <2>3, <2>4, <2>5, <2>6, <2>7, <2>8, <2>9 DEF Next, RxThread
<1>. QED  BY <1>1, <1>2, PTL DEF Spec

-----------------------------------------------------------------------------
(* No lost wakeup.  It is not inductive by itself: between taking the        *)
(* semaphore and sleeping again the thread owes a look at the ring, and      *)
(* after the ring was found empty it still owes a look at the drop counter.  *)
WillLookAtRing  == rx_data_sem > 0 \/ rxpc \in {"get", "lock", "copycb", "copydata", "call"}
WillLookAtDrops == WillLookAtRing \/ rxpc = "report"

WakeupInv ==
  /\ rx_ring_buf # <<>> => WillLookAtRing
  /\ rx_dropped_bytes > 0 => WillLookAtDrops

THEOREM NoLostWakeupHolds == Spec => []NoLostWakeup
<1>. USE DEF initVars, ringVars, cbVars, rxVars, regVars, txVars, histVars,
             WakeupInv, WillLookAtRing, WillLookAtDrops
<1>1. Init => WakeupInv
  BY DEF Init
<1>2. TypeOK /\ WakeupInv /\ [Next]_vars => WakeupInv'
  <2>. SUFFICES ASSUME TypeOK, WakeupInv, [Next]_vars
                PROVE  WakeupInv'
    OBVIOUS
  <2>. RingTypeOK /\ RxTypeOK
    BY DEF TypeOK
  <2>1. CASE InitNoDevice \/ InitNoIrq \/ InitOk
    BY <2>1 DEF InitNoDevice, InitNoIrq, InitOk
  <2>2. ASSUME NEW n \in 1 .. FifoChunk, UartIsr(n)
        PROVE  WakeupInv'
    <3>1. rx_data_sem' > 0
      BY <2>2, GiveProperties DEF UartIsr, RingTypeOK
    <3>. QED  BY <3>1
  <2>3. CASE RxGet
    <3>1. CASE rx_ring_buf = <<>>
      <4>1. Least(PullChunk, Len(rx_ring_buf)) = 0 /\ After(rx_ring_buf, 0) = <<>>
        BY <3>1 DEF Least, After
      <4>. QED  BY <2>3, <4>1 DEF RxGet
    <3>2. CASE rx_ring_buf # <<>>
      <4>1. Len(rx_ring_buf) \in Nat \ {0}
        BY <3>2, EmptySeq DEF RingTypeOK
      <4>2. Least(PullChunk, Len(rx_ring_buf)) # 0
        BY <4>1 DEF Least
      <4>. QED  BY <2>3, <4>2 DEF RxGet
    <3>. QED  BY <3>1, <3>2
  <2>4. CASE RxTake \/ RxTakeUninitialised \/ RxLock \/ RxCopyCallback \/ RxCopyUserData
             \/ RxCall
    BY <2>4 DEF RxTake, RxTakeUninitialised, RxLock, RxCopyCallback, RxCopyUserData, RxCall,
                RingTypeOK
  <2>5. CASE RxReport
    BY <2>5 DEF RxReport, RingTypeOK
  <2>6. ASSUME NEW r \in Registrars, Register(r)
        PROVE  WakeupInv'
    BY <2>6 DEF Register, RegisterLock, RegisterCallback, RegisterUserData
  <2>7. ASSUME NEW s \in Senders, Send(s)
        PROVE  WakeupInv'
    BY <2>7 DEF Send, SendLock, SendByte, SendUnlock
  <2>8. CASE UNCHANGED vars
    BY <2>8 DEF vars
  <2>. QED  BY <2>1, <2>2, <2>3, <2>4, <2>5, <2>6, <2>7, <2>8 DEF Next, RxThread
<1>3. WakeupInv => NoLostWakeup
  BY DEF NoLostWakeup
<1>. QED  BY <1>1, <1>2, <1>3, TypeCorrect, PTL DEF Spec

-----------------------------------------------------------------------------
(* The callback and its user_data.  The strengthening says who holds cb_lock *)
(* at which line, and that the two shared variables match except between a   *)
(* registrar's two assignments.                                              *)
CallbackInv ==
  /\ cb_lock = "rx" <=> rxpc \in {"copycb", "copydata"}
  /\ \A r \in Registrars : cb_lock = r <=> regpc[r] # "idle"
  /\ (\A r \in Registrars : regpc[r] # "setdata")
       => rx_callback_user_data = UserData(rx_callback)
  /\ \A r \in Registrars : regpc[r] = "setdata" => rx_callback = regarg[r]
  /\ rxpc = "copydata" => cb = rx_callback
  /\ rxpc = "call" => cb_user_data = UserData(cb)

THEOREM NoTornCallbackHolds == Spec => []NoTornCallback
<1>. USE DEF initVars, ringVars, cbVars, rxVars, regVars, txVars, histVars
<1>1. Init => CallbackInv
  BY DEF Init, CallbackInv
<1>2. TypeOK /\ CallbackInv /\ [Next]_vars => CallbackInv'
  <2>. SUFFICES ASSUME TypeOK, CallbackInv, [Next]_vars
                PROVE  CallbackInv'
    OBVIOUS
  <2>. CallbackTypeOK /\ RxTypeOK
    BY DEF TypeOK
  <2>. USE DEF CallbackInv
  <2>1. CASE InitNoDevice \/ InitNoIrq \/ InitOk
    BY <2>1 DEF InitNoDevice, InitNoIrq, InitOk
  <2>2. ASSUME NEW n \in 1 .. FifoChunk, UartIsr(n)
        PROVE  CallbackInv'
    BY <2>2 DEF UartIsr
  <2>3. CASE RxTake \/ RxTakeUninitialised \/ RxGet \/ RxCall \/ RxReport
    BY <2>3 DEF RxTake, RxTakeUninitialised, RxGet, RxCall, RxReport
  <2>4. CASE RxLock
    BY <2>4 DEF RxLock
  <2>5. CASE RxCopyCallback
    BY <2>5 DEF RxCopyCallback
  <2>6. CASE RxCopyUserData
    <3>1. \A r \in Registrars : regpc[r] = "idle"
      BY <2>6 DEF RxCopyUserData
    <3>. QED  BY <2>6, <3>1 DEF RxCopyUserData
  <2>7. ASSUME NEW q \in Registrars, NEW c \in Callbacks \union {NULL}, RegisterLock(q, c)
        PROVE  CallbackInv'
    BY <2>7 DEF RegisterLock, CallbackTypeOK
  <2>8. ASSUME NEW q \in Registrars, RegisterCallback(q)
        PROVE  CallbackInv'
    BY <2>8 DEF RegisterCallback, CallbackTypeOK
  <2>9. ASSUME NEW q \in Registrars, RegisterUserData(q)
        PROVE  CallbackInv'
    BY <2>9 DEF RegisterUserData, CallbackTypeOK
  <2>10. ASSUME NEW s \in Senders, Send(s)
         PROVE  CallbackInv'
    BY <2>10 DEF Send, SendLock, SendByte, SendUnlock
  <2>11. CASE UNCHANGED vars
    BY <2>11 DEF vars
  <2>. QED
    BY <2>1, <2>2, <2>3, <2>4, <2>5, <2>6, <2>7, <2>8, <2>9, <2>10, <2>11
       DEF Next, RxThread, Register
<1>3. CallbackInv => NoTornCallback
  BY DEF CallbackInv, NoTornCallback
<1>. QED  BY <1>1, <1>2, <1>3, TypeCorrect, PTL DEF Spec

-----------------------------------------------------------------------------
(* At most one call of a replaced callback.  A thread about to call with an  *)
(* outdated copy took the copy before the last registration ended, so no     *)
(* such call has been counted since.                                         *)
StaleInv ==
  /\ stale <= 1
  /\ (rxpc = "call" /\ cb_user_data # rx_callback_user_data) => stale = 0

THEOREM OneStaleCallHolds == Spec => []OneStaleCall
<1>. USE DEF initVars, ringVars, cbVars, rxVars, regVars, txVars, histVars, StaleInv
<1>1. Init => StaleInv
  BY DEF Init
<1>2. TypeOK /\ StaleInv /\ [Next]_vars => StaleInv'
  <2>. SUFFICES ASSUME TypeOK, StaleInv, [Next]_vars
                PROVE  StaleInv'
    OBVIOUS
  <2>1. CASE InitNoDevice \/ InitNoIrq \/ InitOk
    BY <2>1 DEF InitNoDevice, InitNoIrq, InitOk
  <2>2. ASSUME NEW n \in 1 .. FifoChunk, UartIsr(n)
        PROVE  StaleInv'
    BY <2>2 DEF UartIsr
  <2>3. CASE RxTake \/ RxTakeUninitialised \/ RxGet \/ RxLock \/ RxCopyCallback
             \/ RxCopyUserData \/ RxReport
    BY <2>3 DEF RxTake, RxTakeUninitialised, RxGet, RxLock, RxCopyCallback, RxCopyUserData,
                RxReport
  <2>4. CASE RxCall
    BY <2>4 DEF RxCall, Least
  <2>5. ASSUME NEW r \in Registrars, Register(r)
        PROVE  StaleInv'
    BY <2>5 DEF Register, RegisterLock, RegisterCallback, RegisterUserData
  <2>6. ASSUME NEW s \in Senders, Send(s)
        PROVE  StaleInv'
    BY <2>6 DEF Send, SendLock, SendByte, SendUnlock
  <2>7. CASE UNCHANGED vars
    BY <2>7 DEF vars
  <2>. QED  BY <2>1, <2>2, <2>3, <2>4, <2>5, <2>6, <2>7 DEF Next, RxThread
<1>3. StaleInv => OneStaleCall
  BY DEF OneStaleCall
<1>. QED  BY <1>1, <1>2, <1>3, TypeCorrect, PTL DEF Spec

-----------------------------------------------------------------------------
(* Conservation of bytes.  The chunk is overwritten when the ring is read,   *)
(* so the invariant also says that nothing is left in it by then.            *)
AccountInv ==
  /\ BytesAccounted
  /\ rxpc \notin {"lock", "copycb", "copydata", "call"} => chunk = <<>>

THEOREM BytesAccountedHolds == Spec => []BytesAccounted
<1>. USE DEF initVars, ringVars, cbVars, rxVars, regVars, txVars, histVars,
             AccountInv, BytesAccounted
<1>1. Init => AccountInv
  BY DEF Init
<1>2. TypeOK /\ AccountInv /\ [Next]_vars => AccountInv'
  <2>. SUFFICES ASSUME TypeOK, AccountInv, [Next]_vars
                PROVE  AccountInv'
    OBVIOUS
  <2>. RingTypeOK /\ RxTypeOK /\ HistoryTypeOK
    BY DEF TypeOK
  <2>. /\ Len(delivered) \in Nat /\ Len(chunk) \in Nat /\ Len(rx_ring_buf) \in Nat
       /\ discarded \in Nat /\ rx_dropped_bytes \in Nat /\ reported \in Nat
    BY DEF RingTypeOK, RxTypeOK, HistoryTypeOK
  <2>1. CASE InitNoDevice \/ InitNoIrq \/ InitOk
    BY <2>1 DEF InitNoDevice, InitNoIrq, InitOk
  <2>2. ASSUME NEW n \in 1 .. FifoChunk, UartIsr(n)
        PROVE  AccountInv'
    <3>. DEFINE written == Stored(n)
    <3>1. written \in 0 .. n
      BY DEF Least, Stored, RingTypeOK
    <3>2. /\ rx_ring_buf' = rx_ring_buf \o [i \in 1 .. written |-> arrived + i]
          /\ rx_dropped_bytes' = rx_dropped_bytes + (n - written)
          /\ arrived' = arrived + n
          /\ UNCHANGED <<delivered, discarded, reported, rxpc, chunk>>
      BY <2>2 DEF UartIsr, Excess
    <3>. HIDE DEF written
    <3>3. Len(rx_ring_buf') = Len(rx_ring_buf) + written
      BY <3>1, <3>2, BurstProperties DEF RingTypeOK, HistoryTypeOK
    <3>. QED  BY <3>1, <3>2, <3>3
  <2>3. CASE RxGet
    <3>. DEFINE pulled == Least(PullChunk, Len(rx_ring_buf))
    <3>1. pulled \in 0 .. Len(rx_ring_buf)
      BY DEF Least
    <3>2. /\ chunk = <<>>
          /\ chunk' = Front(rx_ring_buf, pulled)
          /\ rx_ring_buf' = After(rx_ring_buf, pulled)
          /\ rxpc' = IF pulled = 0 THEN "report" ELSE "lock"
          /\ UNCHANGED <<arrived, delivered, discarded, rx_dropped_bytes, reported>>
      BY <2>3 DEF RxGet
    <3>. HIDE DEF pulled
    <3>3. Len(chunk') = pulled /\ Len(rx_ring_buf') = Len(rx_ring_buf) - pulled
      BY <3>1, <3>2, SplitProperties DEF RingTypeOK
    <3>4. pulled = 0 => chunk' = <<>>
      BY <3>2 DEF Front
    <3>. QED  BY <3>1, <3>2, <3>3, <3>4
  <2>4. CASE RxCall
    <3>1. Len(delivered \o chunk) = Len(delivered) + Len(chunk)
      BY ConcatProperties DEF HistoryTypeOK, RxTypeOK
    <3>2. chunk' = <<>> /\ rxpc' = "get"
          /\ UNCHANGED <<arrived, rx_ring_buf, rx_dropped_bytes, reported>>
      BY <2>4 DEF RxCall
    <3>3. Len(delivered') + discarded' = Len(delivered) + discarded + Len(chunk)
      <4>1. CASE delivered' = delivered \o chunk /\ discarded' = discarded
        <5>1. Len(delivered') = Len(delivered) + Len(chunk)
          BY <3>1, <4>1, Zenon
        <5>. QED  BY <4>1, <5>1
      <4>2. CASE discarded' = discarded + Len(chunk) /\ delivered' = delivered
        BY <4>2
      <4>. QED  BY <2>4, <4>1, <4>2 DEF RxCall
    <3>4. Len(delivered') \in Nat /\ discarded' \in Nat
      BY <2>4, <3>1 DEF RxCall
    <3>. QED  BY <3>2, <3>3, <3>4
  <2>5. CASE RxReport
    BY <2>5 DEF RxReport
  <2>6. CASE RxTake \/ RxTakeUninitialised \/ RxLock \/ RxCopyCallback \/ RxCopyUserData
    BY <2>6 DEF RxTake, RxTakeUninitialised, RxLock, RxCopyCallback, RxCopyUserData
  <2>7. ASSUME NEW r \in Registrars, Register(r)
        PROVE  AccountInv'
    BY <2>7 DEF Register, RegisterLock, RegisterCallback, RegisterUserData
  <2>8. ASSUME NEW s \in Senders, Send(s)
        PROVE  AccountInv'
    BY <2>8 DEF Send, SendLock, SendByte, SendUnlock
  <2>9. CASE UNCHANGED vars
    BY <2>9 DEF vars
  <2>. QED
    BY <2>1, <2>2, <2>3, <2>4, <2>5, <2>6, <2>7, <2>8, <2>9 DEF Next, RxThread
<1>3. AccountInv => BytesAccounted
  OBVIOUS
<1>. QED  BY <1>1, <1>2, <1>3, TypeCorrect, PTL DEF Spec

-----------------------------------------------------------------------------
(* Frames do not interleave.  Only the owner of tx_lock is inside a frame,   *)
(* and the last byte on the line tells how far it got.                       *)
LastByte == wire[Len(wire)]

FrameInv ==
  /\ FramesContiguous
  /\ \A s \in Senders : txlen[s] > 0 <=> tx_lock = s
  /\ \A s \in Senders : txpos[s] <= txlen[s]
  /\ \A s \in Senders : txpos[s] > 0 => wire # <<>> /\ LastByte = <<s, txpos[s], txlen[s]>>
  /\ (wire # <<>> /\ \A s \in Senders : txpos[s] = 0) => LastByte[2] >= LastByte[3]

THEOREM FramesContiguousHolds == Spec => []FramesContiguous
<1>. USE DEF initVars, ringVars, cbVars, rxVars, regVars, txVars, histVars
<1>1. Init => FrameInv
  BY DEF Init, FrameInv, FramesContiguous
<1>2. TypeOK /\ FrameInv /\ [Next]_vars => FrameInv'
  <2>. SUFFICES ASSUME TypeOK, FrameInv, [Next]_vars
                PROVE  FrameInv'
    OBVIOUS
  <2>. TxTypeOK
    BY DEF TypeOK
  <2>. USE DEF FrameInv, LastByte
  <2>0. ASSUME UNCHANGED txVars
        PROVE  FrameInv'
    BY <2>0 DEF FramesContiguous
  <2>1. CASE InitNoDevice \/ InitNoIrq \/ InitOk
    BY <2>0, <2>1 DEF InitNoDevice, InitNoIrq, InitOk
  <2>2. ASSUME NEW n \in 1 .. FifoChunk, UartIsr(n)
        PROVE  FrameInv'
    BY <2>0, <2>2 DEF UartIsr
  <2>3. CASE RxThread
    BY <2>0, <2>3 DEF RxThread, RxTake, RxTakeUninitialised, RxGet, RxLock, RxCopyCallback,
                      RxCopyUserData, RxCall, RxReport
  <2>4. ASSUME NEW r \in Registrars, Register(r)
        PROVE  FrameInv'
    BY <2>0, <2>4 DEF Register, RegisterLock, RegisterCallback, RegisterUserData
  <2>5. ASSUME NEW s \in Senders, NEW n \in SendLens, SendLock(s, n)
        PROVE  FrameInv'
    <3>1. UNCHANGED wire /\ n \in Nat
      BY <2>5 DEF SendLock
    <3>2. txpos[s] = 0
      BY <2>5 DEF SendLock, TxTypeOK
    <3>3. UNCHANGED txpos
      BY <2>5, <3>2 DEF SendLock, TxTypeOK
    <3>4. FramesContiguous'
      BY <3>1 DEF FramesContiguous
    <3>. QED  BY <2>5, <3>1, <3>2, <3>3, <3>4 DEF SendLock, TxTypeOK
  <2>6. ASSUME NEW s \in Senders, SendByte(s)
        PROVE  FrameInv'
    <3>. DEFINE byte == <<s, txpos[s] + 1, txlen[s]>>
    <3>1. tx_lock = s /\ \A t \in Senders \ {s} : txlen[t] = 0 /\ txpos[t] = 0
      BY <2>6 DEF SendByte, TxTypeOK
    <3>2. /\ wire' = Append(wire, byte)
          /\ txpos' = [txpos EXCEPT ![s] = @ + 1]
          /\ UNCHANGED <<tx_lock, txlen>>
      BY <2>6 DEF SendByte
    <3>3. byte \in Senders \X Nat \X Nat
      <4>1. txpos[s] + 1 \in Nat /\ txlen[s] \in Nat
        BY DEF TxTypeOK
      <4>. QED  BY <4>1
    <3>4. /\ Len(wire') = Len(wire) + 1
          /\ wire'[Len(wire) + 1] = byte
          /\ \A i \in 1 .. Len(wire) : wire'[i] = wire[i]
          /\ wire' # <<>>
      <4>1. wire \in Seq(Senders \X Nat \X Nat)
        BY DEF TxTypeOK
      <4>. HIDE DEF byte, FrameInv
      <4>. QED  BY <3>2, <3>3, <4>1, AppendProperties
    <3>5. Len(wire) \in Nat /\ (wire # <<>> => Len(wire) > 0)
      BY EmptySeq DEF TxTypeOK
    <3>6. FramesContiguous'
      <4>. SUFFICES ASSUME NEW i \in 1 .. Len(wire), wire[i][2] < wire[i][3]
                    PROVE  wire'[i + 1] = <<wire[i][1], wire[i][2] + 1, wire[i][3]>>
        BY <3>4, <3>5 DEF FramesContiguous
      <4>1. CASE i < Len(wire)
        BY <4>1, <3>4, <3>5 DEF FramesContiguous
      <4>2. CASE i = Len(wire)
        <5>1. wire # <<>>
          BY <4>2, <3>5
        <5>2. wire[i] \in Senders \X Nat \X Nat
          BY DEF TxTypeOK
        <5>3. txpos[s] # 0
          BY <3>1, <4>2, <5>1, <5>2
        <5>4. wire[i] = <<s, txpos[s], txlen[s]>>
          BY <4>2, <5>3 DEF TxTypeOK
        <5>. QED  BY <3>4, <4>2, <5>4
      <4>. QED  BY <3>5, <4>1, <4>2
    <3>7. \A t \in Senders : txpos'[t] <= txlen'[t]
      BY <2>6, <3>2 DEF SendByte, TxTypeOK
    <3>8. \A t \in Senders : txpos'[t] > 0 => LastByte' = <<t, txpos'[t], txlen'[t]>>
      <4>1. LastByte' = byte
        BY <3>4, <3>5
      <4>2. txpos'[s] = txpos[s] + 1 /\ txlen'[s] = txlen[s]
        BY <3>2 DEF TxTypeOK
      <4>3. \A t \in Senders \ {s} : txpos'[t] = 0
        BY <3>1, <3>2 DEF TxTypeOK
      <4>. QED  BY <4>1, <4>2, <4>3
    <3>9. txpos'[s] # 0
      BY <3>2 DEF TxTypeOK
    <3>. QED  BY <3>2, <3>4, <3>6, <3>7, <3>8, <3>9
  <2>7. ASSUME NEW s \in Senders, SendUnlock(s)
        PROVE  FrameInv'
    <3>1. UNCHANGED wire
      BY <2>7 DEF SendUnlock
    <3>2. FramesContiguous'
      BY <3>1 DEF FramesContiguous
    <3>3. tx_lock = s /\ \A t \in Senders \ {s} : txlen[t] = 0 /\ txpos[t] = 0
      BY <2>7 DEF SendUnlock, TxTypeOK
    <3>4. wire # <<>> /\ LastByte = <<s, txlen[s], txlen[s]>>
      BY <2>7 DEF SendUnlock, TxTypeOK
    <3>5. LastByte[2] >= LastByte[3]
      BY <3>4 DEF TxTypeOK
    <3>. QED  BY <2>7, <3>1, <3>2, <3>3, <3>5 DEF SendUnlock, TxTypeOK
  <2>8. CASE UNCHANGED vars
    BY <2>0, <2>8 DEF vars
  <2>. QED  BY <2>1, <2>2, <2>3, <2>4, <2>5, <2>6, <2>7, <2>8 DEF Next, Send
<1>3. FrameInv => FramesContiguous
  BY DEF FrameInv
<1>. QED  BY <1>1, <1>2, <1>3, TypeCorrect, PTL DEF Spec

-----------------------------------------------------------------------------
(* The transport implements the FIFO byte channel: its initial state maps to *)
(* the channel's and each of its steps to a channel step or to none.  Only   *)
(* the interrupt handler and the hand-over to the callback move bytes of the *)
(* channel; the hand-over needs a chunk that is not empty.                   *)
ChunkInv ==
  /\ rxpc \notin {"lock", "copycb", "copydata", "call"} => chunk = <<>>
  /\ rxpc \in {"lock", "copycb", "copydata", "call"} => Len(chunk) \in 1 .. PullChunk

LEMMA ChunkInvariant == Spec => []ChunkInv
<1>. USE DEF initVars, ringVars, cbVars, rxVars, regVars, txVars, histVars, ChunkInv
<1>1. Init => ChunkInv
  BY DEF Init
<1>2. TypeOK /\ ChunkInv /\ [Next]_vars => ChunkInv'
  <2>. SUFFICES ASSUME TypeOK, ChunkInv, [Next]_vars
                PROVE  ChunkInv'
    OBVIOUS
  <2>1. CASE InitNoDevice \/ InitNoIrq \/ InitOk
    BY <2>1 DEF InitNoDevice, InitNoIrq, InitOk
  <2>2. ASSUME NEW n \in 1 .. FifoChunk, UartIsr(n)
        PROVE  ChunkInv'
    BY <2>2 DEF UartIsr
  <2>3. CASE RxGet
    <3>. DEFINE pulled == Least(PullChunk, Len(rx_ring_buf))
    <3>1. rx_ring_buf \in Seq(Nat) /\ pulled \in 0 .. Len(rx_ring_buf) /\ pulled <= PullChunk
      BY DEF Least, TypeOK, RingTypeOK
    <3>2. /\ chunk' = Front(rx_ring_buf, pulled)
          /\ rxpc' = IF pulled = 0 THEN "report" ELSE "lock"
      BY <2>3 DEF RxGet
    <3>. HIDE DEF pulled
    <3>3. Len(chunk') = pulled
      BY <3>1, <3>2, SplitProperties
    <3>4. pulled = 0 => chunk' = <<>>
      BY <3>2 DEF Front
    <3>. QED  BY <3>1, <3>2, <3>3, <3>4
  <2>4. CASE RxTake \/ RxTakeUninitialised \/ RxLock \/ RxCopyCallback \/ RxCopyUserData
             \/ RxCall \/ RxReport
    BY <2>4 DEF RxTake, RxTakeUninitialised, RxLock, RxCopyCallback, RxCopyUserData, RxCall,
                RxReport
  <2>5. ASSUME NEW r \in Registrars, Register(r)
        PROVE  ChunkInv'
    BY <2>5 DEF Register, RegisterLock, RegisterCallback, RegisterUserData
  <2>6. ASSUME NEW s \in Senders, Send(s)
        PROVE  ChunkInv'
    BY <2>6 DEF Send, SendLock, SendByte, SendUnlock
  <2>7. CASE UNCHANGED vars
    BY <2>7 DEF vars
  <2>. QED  BY <2>1, <2>2, <2>3, <2>4, <2>5, <2>6, <2>7 DEF Next, RxThread
<1>. QED  BY <1>1, <1>2, TypeCorrect, PTL DEF Spec

\* What an implementation step that moves no byte of the channel leaves alone.
LEMMA ChannelStutter ==
  ASSUME UNCHANGED <<chunk, rx_ring_buf, arrived, delivered, discarded,
                     rx_dropped_bytes, reported>>
  PROVE  UNCHANGED Channel!chanVars
BY DEF Channel!chanVars

THEOREM ImplementsChannel == Spec => ChannelSteps
<1>. USE DEF initVars, ringVars, cbVars, rxVars, regVars, txVars, histVars
<1>1. Init => Channel!Init
  BY DEF Init, Channel!Init
<1>2. TypeOK /\ ChunkInv /\ [Next]_vars => [Channel!Next]_Channel!chanVars
  <2>. SUFFICES ASSUME TypeOK, ChunkInv, [Next]_vars
                PROVE  Channel!Next \/ UNCHANGED Channel!chanVars
    BY DEF Channel!chanVars
  <2>0. /\ chunk \in Seq(Nat) /\ rx_ring_buf \in Seq(Nat) /\ delivered \in Seq(Nat)
        /\ Len(chunk) \in Nat /\ Len(rx_ring_buf) \in 0 .. RingSize
        /\ arrived \in Nat /\ discarded \in Nat /\ rx_dropped_bytes \in Nat /\ reported \in Nat
    BY DEF TypeOK, RingTypeOK, RxTypeOK, HistoryTypeOK
  <2>1. CASE InitNoDevice \/ InitNoIrq \/ InitOk
    BY <2>1, ChannelStutter DEF InitNoDevice, InitNoIrq, InitOk
  <2>2. ASSUME NEW n \in 1 .. FifoChunk, UartIsr(n)
        PROVE  Channel!Next
    <3>. DEFINE written == Stored(n)
    <3>1. written \in 0 .. n /\ (written < n => Len(rx_ring_buf) + written = RingSize)
      BY <2>0 DEF Least, Stored
    <3>2. /\ rx_ring_buf' = rx_ring_buf \o [i \in 1 .. written |-> arrived + i]
          /\ rx_dropped_bytes' = rx_dropped_bytes + (n - written)
          /\ arrived' = arrived + n
          /\ UNCHANGED <<delivered, discarded, reported, chunk>>
      BY <2>2 DEF UartIsr, Excess
    <3>. HIDE DEF written
    <3>3. PICK burst \in Seq(Nat) : burst = [i \in 1 .. written |-> arrived + i]
      <4>1. [i \in 1 .. written |-> arrived + i] \in Seq(Nat)
        BY <2>0, <3>1
      <4>. QED  BY <4>1, Zenon
    <3>4. chunk' \o rx_ring_buf' = (chunk \o rx_ring_buf) \o burst
      <4>0. chunk \in Seq(Nat) /\ rx_ring_buf \in Seq(Nat)
        BY <2>0
      <4>1. (chunk \o rx_ring_buf) \o burst = chunk \o (rx_ring_buf \o burst)
        BY <4>0, AppendBurst
      <4>. QED  BY <3>2, <3>3, <4>1
    <3>5. Len(chunk \o rx_ring_buf) = Len(chunk) + Len(rx_ring_buf)
      BY <2>0, ConcatProperties
    <3>6. written < n => Len(chunk \o rx_ring_buf) + written >= RingSize
      BY <2>0, <3>1, <3>5
    <3>7. rx_dropped_bytes' + reported' = (rx_dropped_bytes + reported) + (n - written)
      BY <2>0, <3>1, <3>2
    <3>8. Channel!Burst(n, written)
      BY <3>2, <3>3, <3>4, <3>6, <3>7 DEF Channel!Burst
    <3>. QED  BY <3>1, <3>8 DEF Channel!Next
  <2>3. CASE RxGet
    <3>. DEFINE pulled == Least(PullChunk, Len(rx_ring_buf))
    <3>1. pulled \in 0 .. Len(rx_ring_buf)
      BY <2>0 DEF Least
    <3>2. /\ chunk = <<>>
          /\ chunk' = Front(rx_ring_buf, pulled)
          /\ rx_ring_buf' = After(rx_ring_buf, pulled)
          /\ UNCHANGED <<arrived, delivered, discarded, rx_dropped_bytes, reported>>
      BY <2>3 DEF RxGet, ChunkInv
    <3>. HIDE DEF pulled
    <3>3. Front(rx_ring_buf, pulled) \o After(rx_ring_buf, pulled) = rx_ring_buf
      BY <2>0, <3>1, SplitConcat
    <3>4. chunk \o rx_ring_buf = rx_ring_buf
      BY <2>0, <3>2, ConcatEmptySeq
    <3>. QED  BY <3>2, <3>3, <3>4 DEF Channel!chanVars
  <2>4. CASE RxCall
    <3>. DEFINE k == Len(chunk)
                queue == chunk \o rx_ring_buf
    <3>1. k \in 1 .. PullChunk /\ chunk' = <<>> /\ rx_ring_buf' = rx_ring_buf
          /\ UNCHANGED <<arrived, rx_dropped_bytes, reported>>
      BY <2>4 DEF RxCall, ChunkInv
    <3>2. Len(queue) = k + Len(rx_ring_buf)
      BY <2>0, ConcatProperties
    <3>3. SubSeq(queue, 1, k) = chunk /\ SubSeq(queue, k + 1, Len(queue)) = rx_ring_buf
      BY <2>0, <3>2
    <3>4. chunk' \o rx_ring_buf' = SubSeq(queue, k + 1, Len(queue))
      BY <2>0, <3>1, <3>3, ConcatEmptySeq
    <3>5. CASE delivered' = delivered \o chunk /\ UNCHANGED discarded
      <4>1. Channel!Receive(k)
        BY <3>1, <3>3, <3>4, <3>5 DEF Channel!Receive
      <4>. QED  BY <2>0, <3>1, <3>2, <4>1 DEF Channel!Next, Channel!Serve
    <3>6. CASE discarded' = discarded + k /\ UNCHANGED delivered
      <4>1. Channel!Ignore(k)
        BY <3>1, <3>4, <3>6 DEF Channel!Ignore
      <4>. QED  BY <2>0, <3>1, <3>2, <4>1 DEF Channel!Next, Channel!Serve
    <3>. QED  BY <2>4, <3>5, <3>6 DEF RxCall
  <2>5. CASE RxReport
    <3>1. rx_dropped_bytes' + reported' = rx_dropped_bytes + reported
      BY <2>0, <2>5 DEF RxReport
    <3>. QED  BY <2>5, <3>1 DEF RxReport, Channel!chanVars
  <2>6. CASE RxTake \/ RxTakeUninitialised \/ RxLock \/ RxCopyCallback \/ RxCopyUserData
    BY <2>6, ChannelStutter
       DEF RxTake, RxTakeUninitialised, RxLock, RxCopyCallback, RxCopyUserData
  <2>7. ASSUME NEW r \in Registrars, Register(r)
        PROVE  UNCHANGED Channel!chanVars
    BY <2>7, ChannelStutter DEF Register, RegisterLock, RegisterCallback, RegisterUserData
  <2>8. ASSUME NEW s \in Senders, Send(s)
        PROVE  UNCHANGED Channel!chanVars
    BY <2>8, ChannelStutter DEF Send, SendLock, SendByte, SendUnlock
  <2>9. CASE UNCHANGED vars
    BY <2>9, ChannelStutter DEF vars
  <2>. QED
    BY <2>1, <2>2, <2>3, <2>4, <2>5, <2>6, <2>7, <2>8, <2>9 DEF Next, RxThread
<1>. QED  BY <1>1, <1>2, TypeCorrect, ChunkInvariant, PTL DEF Spec, ChannelSteps
=============================================================================

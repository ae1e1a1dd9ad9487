------------------------------ MODULE Rs485Rx ------------------------------
(***************************************************************************)
(* The receiving half of rs485 with its one user, rs485_demo: the          *)
(* interrupt fills a ring buffer, the RX thread drains it and hands chunks *)
(* to the callback that the demo thread registers.  Unlike mcu_transport   *)
(* it keeps no count of dropped bytes.  Bytes are numbered 1, 2, ...       *)
(***************************************************************************)
EXTENDS Program, FiniteSets

CONSTANTS
  RingSize,    (* CONFIG_PACKAGE_RS485_RX_RING_BUFFER_SIZE                   *)
  FifoChunk,   (* sizeof(fifo_data)                                          *)
  PullChunk,   (* sizeof(chunk)                                              *)
  MaxBytes     (* bound: bytes received in a behaviour                       *)

SizeAssumption == {RingSize, FifoChunk, PullChunk} \subseteq Nat \ {0} /\ MaxBytes \in Nat

Init ==
  /\ mem = [ring |-> <<>>, rx_data_sem |-> 0, chunk |-> <<>>, cb |-> FALSE,
            cb_lock |-> "free", rx_callback |-> FALSE]
  /\ pc = [rx |-> "take", demo |-> "lock"]
  /\ seen = [arrived |-> 0, delivered |-> <<>>, lost |-> {}, cut |-> 0, ignored |-> 0]

\* rs485_handle_rx, with n bytes in the FIFO.
HandleRx ==
  \E n \in 1 .. FifoChunk :
    LET room == RingSize - Len(mem.ring)
        kept == IF n < room THEN n ELSE room
    IN /\ seen.arrived + n <= MaxBytes
       /\ mem' = [mem EXCEPT !.ring = @ \o [i \in 1 .. kept |-> seen.arrived + i],
                             !.rx_data_sem = @ + 1]
       /\ seen' = [seen EXCEPT !.arrived = @ + n,
                               !.lost = @ \union (seen.arrived + kept + 1 .. seen.arrived + n),
                               !.cut = @ + (n - kept)]
       /\ UNCHANGED pc

Take ==
  /\ mem.rx_data_sem > 0
  /\ Go("rx", "take", "pull")
  /\ mem' = [mem EXCEPT !.rx_data_sem = @ - 1]
  /\ UNCHANGED seen

Pull ==
  LET n == IF Len(mem.ring) < PullChunk THEN Len(mem.ring) ELSE PullChunk IN
  /\ Go("rx", "pull", IF n = 0 THEN "take" ELSE "copy")
  /\ mem' = [mem EXCEPT !.chunk = SubSeq(mem.ring, 1, n),
                        !.ring = SubSeq(@, n + 1, Len(@))]
  /\ UNCHANGED seen

\* Under cb_lock.
Copy ==
  /\ mem.cb_lock = "free"
  /\ Go("rx", "copy", "call")
  /\ mem' = [mem EXCEPT !.cb = mem.rx_callback]
  /\ UNCHANGED seen

Call ==
  /\ Go("rx", "call", "pull")
  /\ mem' = [mem EXCEPT !.chunk = <<>>]
  /\ seen' = IF mem.cb THEN [seen EXCEPT !.delivered = @ \o mem.chunk]
             ELSE [seen EXCEPT !.lost = @ \union {mem.chunk[i] : i \in DOMAIN mem.chunk},
                               !.ignored = @ + Len(mem.chunk)]

\* rs485_register_rx_callback, called by the demo thread.
Register ==
  \/ /\ mem.cb_lock = "free"
     /\ Go("demo", "lock", "set")
     /\ mem' = [mem EXCEPT !.cb_lock = "demo"]
     /\ UNCHANGED seen
  \/ /\ Go("demo", "set", "done")
     /\ mem' = [mem EXCEPT !.rx_callback = TRUE, !.cb_lock = "free"]
     /\ UNCHANGED seen

Step(t) ==
  \/ t = "isr" /\ HandleRx
  \/ t = "rx" /\ (Take \/ Pull \/ Copy \/ Call)
  \/ t = "demo" /\ Register

TypeOK ==
  /\ Len(mem.ring) <= RingSize
  /\ Len(mem.chunk) <= PullChunk
  /\ mem.rx_data_sem \in 0 .. MaxBytes
  /\ mem.cb_lock \in {"free", "demo"}
  /\ pc.rx \in {"take", "pull", "copy", "call"} /\ pc.demo \in {"lock", "set", "done"}

\* The callback sees the bytes in their order, and each byte was delivered,
\* dropped for want of room or of a callback, or is still on its way.
InOrder ==
  LET all == seen.delivered \o mem.chunk \o mem.ring
      on  == {all[i] : i \in DOMAIN all}
  IN /\ \A i \in 1 .. Len(all) - 1 : all[i] < all[i + 1]
     /\ on \union seen.lost = 1 .. seen.arrived
     /\ on \intersect seen.lost = {}

\* The RX thread never sleeps on bytes without a permit to wake it.
NothingMissed == pc.rx = "take" /\ mem.ring # <<>> => mem.rx_data_sem > 0

Due(k) == k = 1 /\ mem.ring # <<>>
=============================================================================

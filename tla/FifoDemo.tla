------------------------------ MODULE FifoDemo ------------------------------
(***************************************************************************)
(* package_fifo: a producer fills the slots of a static pool in turn and   *)
(* links them onto a k_fifo; nothing tells it when the consumer is done    *)
(* with a slot.  That is a matter of time, so this module has a clock:     *)
(* sleeping threads count down, and a runnable consumer may be kept from   *)
(* the CPU for MaxHeld ticks before it has caught up.                      *)
(***************************************************************************)
EXTENDS Program

CONSTANTS
  PoolSize,   (* FIFO_DEMO_POOL_SIZE                                         *)
  Period,     (* ticks of the producer's sleep of 2 s                        *)
  WorkTime,   (* ticks of the consumer's sleep of 300 ms                     *)
  MaxHeld,    (* assumed: how long others keep the consumer from the CPU     *)
  Wrap        (* bound: tick is taken modulo Wrap, a multiple of PoolSize    *)

\* The note at fifo_demo.c:97-100: the consumer is done with a slot before its
\* next turn, PoolSize items later.
SlotsSuffice ==
  /\ PoolSize \in Nat \ {0} /\ Wrap \in Nat \ {0} /\ Wrap % PoolSize = 0
  /\ {Period, WorkTime, MaxHeld} \subseteq Nat
  /\ WorkTime < Period /\ MaxHeld + WorkTime < (PoolSize - 1) * Period

Init ==
  /\ mem = [item_pool |-> [s \in 0 .. PoolSize - 1 |-> 0], fifo |-> <<>>, item |-> 0,
            tick |-> 0, slot |-> 0, left |-> [producer |-> Period, consumer |-> 0], held |-> 0]
  /\ pc = [producer |-> "fill", consumer |-> "get"]
  /\ seen = 0   \* items read

\* Seeded mistake: always the first slot.
FirstSlot(tick) == 0

Slot(tick) == tick % PoolSize

Fill ==
  /\ Go("producer", "fill", "put")
  /\ mem.left.producer = 0
  /\ mem' = [mem EXCEPT !.slot = Slot(mem.tick), !.item_pool[Slot(mem.tick)] = mem.tick,
                        !.tick = (@ + 1) % Wrap]
  /\ UNCHANGED seen

Put ==
  /\ Go("producer", "put", "fill")
  /\ mem' = [mem EXCEPT !.fifo = Append(@, mem.slot), !.left.producer = Period]
  /\ UNCHANGED seen

Get ==
  /\ Go("consumer", "get", "read")
  /\ mem.left.consumer = 0
  /\ mem.fifo # <<>>
  /\ mem' = [mem EXCEPT !.item = Head(mem.fifo), !.fifo = Tail(@)]
  /\ UNCHANGED seen

\* The payload is read and the work simulated.
Read ==
  /\ Go("consumer", "read", "get")
  /\ mem' = [mem EXCEPT !.left.consumer = WorkTime]
  /\ seen' = (seen + 1) % Wrap

Less(n) == IF n = 0 THEN 0 ELSE n - 1

\* Time passes while the producer sleeps and the consumer sleeps, waits for an
\* item, or is kept from the CPU.
Tick ==
  LET waits    == pc.consumer = "get" /\ mem.left.consumer = 0 /\ mem.fifo = <<>>
      runnable == mem.left.consumer = 0 /\ ~waits
  IN /\ mem.left.producer > 0
     /\ runnable => mem.held < MaxHeld
     /\ mem' = [mem EXCEPT !.left = [producer |-> Less(@.producer), consumer |-> Less(@.consumer)],
                           !.held = IF runnable THEN @ + 1 ELSE IF waits THEN 0 ELSE @]
     /\ UNCHANGED <<pc, seen>>

Step(t) ==
  \/ t = "producer" /\ (Fill \/ Put)
  \/ t = "consumer" /\ (Get \/ Read)
  \/ t = "clock" /\ Tick

TypeOK ==
  /\ mem.item_pool \in [0 .. PoolSize - 1 -> 0 .. Wrap - 1]
  /\ Len(mem.fifo) <= PoolSize
  /\ mem.tick \in 0 .. Wrap - 1
  /\ mem.left \in [producer : 0 .. Period, consumer : 0 .. WorkTime]
  /\ mem.held \in 0 .. MaxHeld

\* No slot is linked twice or refilled before it was read: the items the
\* consumer holds or will get are the next ones, in order.
InOrder ==
  LET mine == (IF pc.consumer = "read" THEN <<mem.item>> ELSE <<>>) \o mem.fifo
  IN \A i \in DOMAIN mine : mem.item_pool[mine[i]] = (seen + i - 1) % Wrap
=============================================================================

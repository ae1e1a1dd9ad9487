---------------------------- MODULE SpinlockDemo ----------------------------
(***************************************************************************)
(* package_spinlock: a timer interrupt and a writer thread record events   *)
(* in two counters, a reader takes and resets both.  On the one core of    *)
(* the nRF52833 a spinlock masks interrupts: while a thread holds it       *)
(* nothing else runs.                                                      *)
(***************************************************************************)
EXTENDS Program

CONSTANT Wrap   (* stands for 2^32: all counters are taken modulo Wrap       *)

WrapAssumption == Wrap \in Nat \ {0, 1}

Zero == [event_count |-> 0, sum |-> 0]
Plus(a, b)  == [f \in DOMAIN Zero |-> (a[f] + b[f]) % Wrap]
Minus(a, b) == [f \in DOMAIN Zero |-> (a[f] + Wrap - b[f]) % Wrap]

Init ==
  /\ mem = [lock |-> "free", stats |-> Zero, payload |-> 0, snapshot |-> Zero]
  /\ pc = [writer |-> "lock", reader |-> "lock"]
  /\ seen = Zero   \* recorded and not yet reported

\* k_spin_lock, and before it the writer's payload++.
Lock(t) ==
  /\ mem.lock = "free"
  /\ Go(t, "lock", "first")
  /\ mem' = [mem EXCEPT !.lock = t, !.payload = IF t = "writer" THEN (@ + 1) % Wrap ELSE @]
  /\ UNCHANGED seen

WriterCount ==
  /\ Go("writer", "first", "second")
  /\ mem' = [mem EXCEPT !.stats.event_count = (@ + 1) % Wrap]
  /\ UNCHANGED seen

WriterSum ==
  /\ Go("writer", "second", "lock")
  /\ mem' = [mem EXCEPT !.stats.sum = (@ + mem.payload) % Wrap, !.lock = "free"]
  /\ seen' = Plus(seen, [event_count |-> 1, sum |-> mem.payload])

ReaderCopy ==
  /\ Go("reader", "first", "second")
  /\ mem' = [mem EXCEPT !.snapshot = mem.stats]
  /\ UNCHANGED seen

ReaderReset ==
  /\ Go("reader", "second", "log")
  /\ mem' = [mem EXCEPT !.stats = Zero, !.lock = "free"]
  /\ UNCHANGED seen

ReaderLog ==
  /\ mem.lock = "free"
  /\ Go("reader", "log", "lock")
  /\ mem' = [mem EXCEPT !.snapshot = Zero]
  /\ seen' = Minus(seen, mem.snapshot)

TimerExpiry ==
  /\ mem.lock = "free"
  /\ mem' = [mem EXCEPT !.stats = Plus(@, [event_count |-> 1, sum |-> 1])]
  /\ seen' = Plus(seen, [event_count |-> 1, sum |-> 1])
  /\ UNCHANGED pc

Step(t) ==
  \/ t = "writer" /\ (Lock("writer") \/ WriterCount \/ WriterSum)
  \/ t = "reader" /\ (Lock("reader") \/ ReaderCopy \/ ReaderReset \/ ReaderLog)
  \/ t = "timer" /\ TimerExpiry

TypeOK ==
  /\ mem.lock \in {"free", "writer", "reader"}
  /\ {mem.stats, mem.snapshot} \subseteq [DOMAIN Zero -> 0 .. Wrap - 1]
  /\ mem.payload \in 0 .. Wrap - 1
  /\ pc.writer \in {"lock", "first", "second"}
  /\ pc.reader \in {"lock", "first", "second", "log"}

\* Every recorded event is reported once, with its payload, or waits in the
\* counters; both counters tell of the same events.
NoUpdateLost ==
  mem.lock = "free" =>
    Minus(seen, mem.stats) = (IF pc.reader = "log" THEN mem.snapshot ELSE Zero)
=============================================================================

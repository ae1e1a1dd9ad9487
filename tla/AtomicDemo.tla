----------------------------- MODULE AtomicDemo -----------------------------
(***************************************************************************)
(* package_atomic: an incrementer and a decrementer share a counter and a  *)
(* bitmask without a lock; the incrementer resets the counter with a       *)
(* compare-and-swap when it stands at the high water mark.                 *)
(***************************************************************************)
EXTENDS Program, Integers

CONSTANTS
  HighWater,   (* ATOMIC_DEMO_HIGH_WATER_MARK                                *)
  MaxDrift     (* bound: how far below 0 the counter goes                    *)

MarkAssumption == HighWater \in Nat \ {0} /\ MaxDrift \in Nat

Init ==
  /\ mem = [counter |-> 0, flags |-> {}, old_val |-> 0]
  /\ pc = [incrementer |-> "inc", decrementer |-> "dec"]
  /\ seen = 0   \* increments less decrements and resets

Inc ==
  /\ Go("incrementer", "inc", "set")
  /\ mem' = [mem EXCEPT !.counter = @ + 1, !.old_val = mem.counter]
  /\ seen' = seen + 1

SetInc ==
  /\ Go("incrementer", "set", "cas")
  /\ mem' = [mem EXCEPT !.flags = @ \union {"incrementer"}]
  /\ UNCHANGED seen

\* Seeded mistake: decide on the value atomic_inc returned.
CasStale ==
  /\ Go("incrementer", "cas", "inc")
  /\ IF mem.old_val + 1 = HighWater
     THEN /\ mem' = [mem EXCEPT !.counter = 0, !.old_val = 0]
          /\ seen' = seen - HighWater
     ELSE mem' = [mem EXCEPT !.old_val = 0] /\ UNCHANGED seen

Cas ==
  /\ Go("incrementer", "cas", "inc")
  /\ IF mem.counter = HighWater
     THEN /\ mem' = [mem EXCEPT !.counter = 0, !.old_val = 0]
          /\ seen' = seen - HighWater
     ELSE mem' = [mem EXCEPT !.old_val = 0] /\ UNCHANGED seen

Dec ==
  /\ mem.counter > -MaxDrift
  /\ Go("decrementer", "dec", "set")
  /\ mem' = [mem EXCEPT !.counter = @ - 1]
  /\ seen' = seen - 1

SetDec ==
  /\ Go("decrementer", "set", "test")
  /\ mem' = [mem EXCEPT !.flags = @ \union {"decrementer"}]
  /\ UNCHANGED seen

TestBit ==
  /\ Go("decrementer", "test", IF "incrementer" \in mem.flags THEN "clear" ELSE "dec")
  /\ UNCHANGED <<mem, seen>>

ClearBit ==
  /\ Go("decrementer", "clear", "dec")
  /\ mem' = [mem EXCEPT !.flags = @ \ {"incrementer"}]
  /\ UNCHANGED seen

Step(t) ==
  \/ t = "incrementer" /\ (Inc \/ SetInc \/ Cas)
  \/ t = "decrementer" /\ (Dec \/ SetDec \/ TestBit \/ ClearBit)

TypeOK ==
  /\ mem.counter \in -MaxDrift .. HighWater + 1
  /\ mem.flags \subseteq {"incrementer", "decrementer"}
  /\ pc.incrementer \in {"inc", "set", "cas"}
  /\ pc.decrementer \in {"dec", "set", "test", "clear"}

\* The reset takes away exactly the mark, so the counter stays what the two
\* threads made it; and no race lets it pass the mark.
NoUpdateLost ==
  /\ mem.counter = seen
  /\ mem.counter <= HighWater
  /\ pc.incrementer = "inc" => mem.counter < HighWater
=============================================================================

----------------------------- MODULE KmutexDemo -----------------------------
(***************************************************************************)
(* package_kmutex: two threads increment a counter under a mutex, which an *)
(* unlock hands to the thread that waits for it.                           *)
(***************************************************************************)
EXTENDS Program

CONSTANT Wrap   (* bound: the counter is taken modulo Wrap                   *)

WrapAssumption == Wrap \in Nat \ {0, 1}

Threads  == {"A", "B"}
Other(t) == CHOOSE u \in Threads : u # t

Init ==
  /\ mem = [owner |-> "none", shared_counter |-> 0, read |-> [A |-> 0, B |-> 0]]
  /\ pc = [A |-> "lock", B |-> "lock"]
  /\ seen = 0   \* increments completed

Lock(t) ==
  \/ /\ mem.owner = "none"
     /\ Go(t, "lock", "load")
     /\ mem' = [mem EXCEPT !.owner = t]
     /\ UNCHANGED seen
  \/ /\ mem.owner # "none"
     /\ Go(t, "lock", "waiting")
     /\ UNCHANGED <<mem, seen>>

\* shared_counter++ loads and stores.
Load(t) ==
  /\ Go(t, "load", "store")
  /\ mem' = [mem EXCEPT !.read[t] = mem.shared_counter]
  /\ UNCHANGED seen

Store(t) ==
  /\ Go(t, "store", "unlock")
  /\ mem' = [mem EXCEPT !.shared_counter = (mem.read[t] + 1) % Wrap, !.read[t] = 0]
  /\ seen' = (seen + 1) % Wrap

\* After the sleep inside the critical section.
Unlock(t) ==
  /\ pc[t] = "unlock"
  /\ IF pc[Other(t)] = "waiting"
     THEN /\ pc' = [pc EXCEPT ![t] = "lock", ![Other(t)] = "load"]
          /\ mem' = [mem EXCEPT !.owner = Other(t)]
     ELSE /\ pc' = [pc EXCEPT ![t] = "lock"]
          /\ mem' = [mem EXCEPT !.owner = "none"]
  /\ UNCHANGED seen

Step(t) == t \in Threads /\ (Lock(t) \/ Load(t) \/ Store(t) \/ Unlock(t))

TypeOK ==
  /\ mem.owner \in Threads \union {"none"}
  /\ mem.shared_counter \in 0 .. Wrap - 1
  /\ pc \in [Threads -> {"lock", "waiting", "load", "store", "unlock"}]

\* No increment is lost, and nobody waits for a mutex nobody owns.
NoUpdateLost ==
  /\ mem.shared_counter = seen
  /\ \A t \in Threads : pc[t] = "waiting" => mem.owner = Other(t)

Due(k) == (k = 1 /\ pc.A = "waiting") \/ (k = 2 /\ pc.B = "waiting")
=============================================================================

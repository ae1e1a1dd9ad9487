------------------------------ MODULE SemDemo ------------------------------
(***************************************************************************)
(* package_sem: a producer gives a semaphore of limit 1, a consumer takes  *)
(* it and works; a give while one is waiting to be taken adds nothing.     *)
(***************************************************************************)
EXTENDS Program

Init ==
  /\ mem = [sem |-> 0]
  /\ pc = [consumer |-> "take"]
  /\ seen = FALSE   \* a give has not been followed by work

Take ==
  \/ /\ mem.sem > 0
     /\ Go("consumer", "take", "work")
     /\ mem' = [sem |-> 0]
     /\ seen' = FALSE
  \/ /\ mem.sem = 0
     /\ Go("consumer", "take", "blocked")
     /\ UNCHANGED <<mem, seen>>

Work == Go("consumer", "work", "take") /\ UNCHANGED <<mem, seen>>

\* k_sem_give hands the permit to a blocked thread, or keeps it.
Give ==
  \/ Go("consumer", "blocked", "work") /\ UNCHANGED <<mem, seen>>
  \/ /\ pc.consumer # "blocked"
     /\ mem' = [sem |-> 1]
     /\ seen' = TRUE
     /\ UNCHANGED pc

Step(t) ==
  \/ t = "consumer" /\ (Take \/ Work)
  \/ t = "producer" /\ Give

TypeOK == mem.sem \in 0 .. 1 /\ pc.consumer \in {"take", "blocked", "work"}

\* A give is followed by work, though several gives may share it.
Due(k) == k = 1 /\ seen
=============================================================================

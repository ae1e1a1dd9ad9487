--------------------------- MODULE WorkQueueDemo ---------------------------
(***************************************************************************)
(* package_work_queue: a trigger thread submits a one-shot item, a delayed *)
(* item schedules itself again from its handler, and a queue thread runs   *)
(* the handlers.  Submitting an item that is queued changes nothing; one   *)
(* that is running is queued again.                                        *)
(***************************************************************************)
EXTENDS Program, FiniteSets

Items == {"one_shot", "periodic"}

\* After work_queue_demo_init.
Init ==
  /\ mem = [queue |-> <<>>, running |-> "none", scheduled |-> TRUE]
  /\ pc = [demo_work_q |-> "take"]
  /\ seen = FALSE   \* one_shot_work was submitted and not begun since

Queued(w) == \E i \in DOMAIN mem.queue : mem.queue[i] = w
Submitted(w) == IF Queued(w) THEN mem.queue ELSE Append(mem.queue, w)

Trigger ==
  /\ mem' = [mem EXCEPT !.queue = Submitted("one_shot")]
  /\ seen' = TRUE
  /\ UNCHANGED pc

TimerExpires ==
  /\ mem.scheduled
  /\ mem' = [mem EXCEPT !.scheduled = FALSE, !.queue = Submitted("periodic")]
  /\ UNCHANGED <<pc, seen>>

Take ==
  /\ mem.queue # <<>>
  /\ LET w == Head(mem.queue) IN
       /\ Go("demo_work_q", "take", IF w = "periodic" THEN "schedule" ELSE "return")
       /\ mem' = [mem EXCEPT !.queue = Tail(@), !.running = w]
       /\ seen' = (seen /\ w # "one_shot")

\* periodic_work_handler schedules its own item.
Reschedule ==
  /\ Go("demo_work_q", "schedule", "return")
  /\ mem' = [mem EXCEPT !.scheduled = TRUE]
  /\ UNCHANGED seen

Return ==
  /\ Go("demo_work_q", "return", "take")
  /\ mem' = [mem EXCEPT !.running = "none"]
  /\ UNCHANGED seen

Step(t) ==
  \/ t = "demo_work_q" /\ (Take \/ Reschedule \/ Return)
  \/ t = "trigger" /\ Trigger
  \/ t = "timer" /\ TimerExpires

TypeOK ==
  /\ mem.scheduled \in BOOLEAN
  /\ mem.running \in Items \union {"none"}
  /\ Len(mem.queue) <= 2
  /\ pc.demo_work_q \in {"take", "schedule", "return"}

\* A submitted one-shot item is in the queue until its handler begins, and the
\* periodic item is on the timer, in the queue or about to be scheduled, and
\* never in two of these places.
NothingMissed ==
  /\ seen <=> Queued("one_shot")
  /\ Cardinality({p \in {"timer", "queue", "handler"} :
       \/ p = "timer" /\ mem.scheduled
       \/ p = "queue" /\ Queued("periodic")
       \/ p = "handler" /\ pc.demo_work_q = "schedule"}) = 1

\* The one-shot item is handled, and the periodic one comes round.
Due(k) == (k = 1 /\ seen) \/ (k = 2 /\ mem.running # "periodic")
=============================================================================

------------------------------ MODULE KmsqDemo ------------------------------
(***************************************************************************)
(* package_kmsq: a producer puts numbered messages into a message queue,   *)
(* waiting when it is full; a slower consumer gets them.  The queue holds  *)
(* copies: the producer rebuilds its local message while others wait.      *)
(***************************************************************************)
EXTENDS Program

CONSTANTS
  QueueSize,   (* max_msgs of K_MSGQ_DEFINE                                  *)
  Wrap         (* bound: sequence numbers are taken modulo Wrap              *)

WrapAssumption == QueueSize \in Nat \ {0} /\ Wrap > QueueSize + 1

Message(n) == [id |-> n % Wrap, value |-> 1000 + ((n % Wrap) % 100)]

Init ==
  /\ mem = [queue |-> <<>>, seq |-> 0, out |-> Message(0), in |-> Message(0)]
  /\ pc = [producer |-> "build", consumer |-> "get"]
  /\ seen = 0   \* messages received

Build ==
  /\ Go("producer", "build", "put")
  /\ mem' = [mem EXCEPT !.out = Message(mem.seq)]
  /\ UNCHANGED seen

Put ==
  /\ Go("producer", "put", "build")
  /\ Len(mem.queue) < QueueSize
  /\ mem' = [mem EXCEPT !.queue = Append(@, mem.out), !.seq = (@ + 1) % Wrap]
  /\ UNCHANGED seen

Get ==
  /\ Go("consumer", "get", "work")
  /\ mem.queue # <<>>
  /\ mem' = [mem EXCEPT !.in = Head(mem.queue), !.queue = Tail(@)]
  /\ seen' = (seen + 1) % Wrap

Work == Go("consumer", "work", "get") /\ UNCHANGED <<mem, seen>>

Step(t) ==
  \/ t = "producer" /\ (Build \/ Put)
  \/ t = "consumer" /\ (Get \/ Work)

TypeOK ==
  /\ mem.seq \in 0 .. Wrap - 1
  /\ Len(mem.queue) <= QueueSize
  /\ pc.producer \in {"build", "put"} /\ pc.consumer \in {"get", "work"}
  /\ seen \in 0 .. Wrap - 1

\* The consumer receives the messages 0, 1, 2, ... in order, none twice and
\* none left out, whatever the producer does to its local message meanwhile.
InOrder ==
  /\ \A i \in DOMAIN mem.queue : mem.queue[i] = Message(seen + i - 1)
  /\ pc.consumer = "work" => mem.in = Message(seen + Wrap - 1)
=============================================================================

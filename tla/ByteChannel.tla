----------------------------- MODULE ByteChannel -----------------------------
(***************************************************************************)
(* What the receiving side of the MCU transport promises the layer above:  *)
(* a first-in first-out channel of bytes.  A burst is cut short only when  *)
(* at least Capacity bytes are waiting, and what is cut off is its end;    *)
(* bytes are served in pieces of at most MaxPiece, in the order of their   *)
(* arrival, each once, to the consumer or to nobody; and bytes that wait   *)
(* are eventually served.                                                  *)
(***************************************************************************)
EXTENDS Naturals, Sequences

CONSTANTS Capacity, MaxBurst, MaxPiece

VARIABLES
  next,      \* number of the last byte that arrived
  queue,     \* accepted bytes not served yet
  received,  \* bytes the consumer got
  lost,      \* how many bytes were cut off
  unwanted   \* how many were served while there was no consumer

chanVars == <<next, queue, received, lost, unwanted>>

Init ==
  /\ next = 0
  /\ queue = <<>>
  /\ received = <<>>
  /\ lost = 0
  /\ unwanted = 0

\* n bytes arrive and the first k of them are accepted.
Burst(n, k) ==
  /\ k < n => Len(queue) + k >= Capacity
  /\ next' = next + n
  /\ queue' = queue \o [i \in 1 .. k |-> next + i]
  /\ lost' = lost + (n - k)
  /\ UNCHANGED <<received, unwanted>>

\* The first k bytes leave the queue, to the consumer ...
Receive(k) ==
  /\ queue' = SubSeq(queue, k + 1, Len(queue))
  /\ received' = received \o SubSeq(queue, 1, k)
  /\ UNCHANGED <<next, lost, unwanted>>

\* ... or to nobody.
Ignore(k) ==
  /\ queue' = SubSeq(queue, k + 1, Len(queue))
  /\ unwanted' = unwanted + k
  /\ UNCHANGED <<next, received, lost>>

Serve ==
  \E k \in 1 .. MaxPiece :
    /\ k <= Len(queue)
    /\ Receive(k) \/ Ignore(k)

Next ==
  \/ \E n \in 1 .. MaxBurst : \E k \in 0 .. n : Burst(n, k)
  \/ Serve

Spec == Init /\ [][Next]_chanVars /\ WF_chanVars(Serve)
=============================================================================

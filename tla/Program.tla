------------------------------ MODULE Program ------------------------------
(***************************************************************************)
(* What the small programs of this repository share: each is switched on   *)
(* by one Kconfig option, keeps its static variables and kernel objects,   *)
(* and runs in a few contexts: threads, a timer, the Bluetooth RX thread.  *)
(***************************************************************************)
EXTENDS Naturals, Sequences

VARIABLES
  mem,   \* a record: static variables, kernel objects and locals
  pc,    \* a record: where each context is
  seen   \* history, for the properties only

\* Context t goes from label a to label b; the others stay.
Go(t, a, b) == pc[t] = a /\ pc' = [pc EXCEPT ![t] = b]
=============================================================================

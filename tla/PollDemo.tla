------------------------------ MODULE PollDemo ------------------------------
(***************************************************************************)
(* package_poll: one thread waits for a semaphore or a poll signal, two    *)
(* others give and raise them.                                             *)
(***************************************************************************)
EXTENDS Program

CONSTANT Wrap   (* bound: the counter is taken modulo Wrap                   *)

WrapAssumption == Wrap \in Nat \ {0, 1}

Init ==
  /\ mem = [sem |-> 0, signaled |-> FALSE, result |-> 0, events |-> {}, shown |-> 0, counter |-> 0]
  /\ pc = [poller |-> "poll"]
  /\ seen = FALSE   \* the last signal was raised between check and reset

Ready == {e \in {"sem", "signal"} : \/ e = "sem" /\ mem.sem > 0
                                    \/ e = "signal" /\ mem.signaled}

\* k_poll_event_init and k_poll: return at once with all that is ready ...
PollReady ==
  /\ Go("poller", "poll", "sem")
  /\ Ready # {}
  /\ mem' = [mem EXCEPT !.events = Ready]
  /\ UNCHANGED seen

\* ... or block until the first event.
PollBlock ==
  /\ Go("poller", "poll", "blocked")
  /\ Ready = {}
  /\ UNCHANGED <<mem, seen>>

\* Back in the thread.
Wake == Go("poller", "woken", "sem") /\ UNCHANGED <<mem, seen>>

TakeSem ==
  /\ Go("poller", "sem", "check")
  /\ mem' = [mem EXCEPT !.sem = IF "sem" \in mem.events THEN 0 ELSE @]
  /\ UNCHANGED seen

\* Seeded mistake: the signal is reset after every wakeup.
CheckAlwaysResets ==
  /\ mem' = [mem EXCEPT !.shown = IF "signal" \in mem.events THEN mem.result ELSE @]
  /\ Go("poller", "check", "reset")
  /\ UNCHANGED seen

Check ==
  \/ /\ "signal" \in mem.events
     /\ Go("poller", "check", "reset")
     /\ mem' = [mem EXCEPT !.shown = mem.result]
     /\ UNCHANGED seen
  \/ /\ "signal" \notin mem.events
     /\ Go("poller", "check", "poll")
     /\ UNCHANGED <<mem, seen>>

Reset ==
  /\ Go("poller", "reset", "poll")
  /\ mem' = [mem EXCEPT !.signaled = FALSE]
  /\ UNCHANGED seen

\* An event wakes the poller if it is blocked; until it runs it is told of
\* every one that fires.
Fire(m, e) ==
  IF pc.poller \in {"blocked", "woken"}
  THEN /\ mem' = [m EXCEPT !.events = IF pc.poller = "blocked" THEN {e} ELSE @ \union {e}]
       /\ pc' = [pc EXCEPT !.poller = "woken"]
  ELSE mem' = m /\ UNCHANGED pc

GiveSem == Fire([mem EXCEPT !.sem = 1], "sem") /\ UNCHANGED seen

RaiseSignal ==
  LET n == (mem.counter + 1) % Wrap IN
  /\ Fire([mem EXCEPT !.counter = n, !.result = n, !.signaled = TRUE], "signal")
  /\ seen' = (pc.poller = "reset")

Step(t) ==
  \/ t = "poller" /\ (PollReady \/ PollBlock \/ Wake \/ TakeSem \/ Check \/ Reset)
  \/ t = "sem_source" /\ GiveSem
  \/ t = "signal_source" /\ RaiseSignal

TypeOK ==
  /\ mem.sem \in 0 .. 1
  /\ mem.signaled \in BOOLEAN
  /\ {mem.result, mem.shown, mem.counter} \subseteq 0 .. Wrap - 1
  /\ mem.events \subseteq {"sem", "signal"}
  /\ pc.poller \in {"poll", "blocked", "woken", "sem", "check", "reset"}

\* Every signal is reported before it is reset, but for one raised between
\* k_poll_signal_check and k_poll_signal_reset; and the poller never blocks
\* while something is ready.
NothingMissed ==
  /\ ~mem.signaled /\ ~seen => mem.shown = mem.counter
  /\ pc.poller = "blocked" => Ready = {}

\* What has to be served: a permit, a signal.
Due(k) == (k = 1 /\ mem.sem = 1) \/ (k = 2 /\ mem.signaled)
=============================================================================

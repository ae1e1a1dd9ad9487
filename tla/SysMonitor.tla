----------------------------- MODULE SysMonitor -----------------------------
(***************************************************************************)
(* The CPU load of package_sys_monitor: the difference between two         *)
(* readings of the kernel's running totals, in per cent.  The kernel is    *)
(* external; its 64-bit totals are taken modulo CycleWrap.                 *)
(***************************************************************************)
EXTENDS Program

CONSTANT CycleWrap   (* stands for 2^64                                      *)

WrapAssumption == CycleWrap \in Nat \ {0, 1, 2}

Zero == [total_cycles |-> 0, execution_cycles |-> 0]
Plus(a, b)  == [f \in DOMAIN Zero |-> (a[f] + b[f]) % CycleWrap]
Minus(a, b) == [f \in DOMAIN Zero |-> (a[f] + CycleWrap - b[f]) % CycleWrap]

Init ==
  /\ mem = [stats |-> Zero, prev |-> Zero, now |-> Zero, pct |-> 0]
  /\ pc = [monitor |-> "get"]
  /\ seen = Zero   \* sum of the windows reported

\* A cycle of some thread, or of the idle thread, which only the second total
\* counts.  Windows are shorter than 2^64 cycles.
RunCycle ==
  \E busy \in 0 .. 1 :
    /\ Minus(mem.stats, mem.prev).execution_cycles < CycleWrap - 1
    /\ mem' = [mem EXCEPT !.stats = Plus(@, [total_cycles |-> busy, execution_cycles |-> 1])]
    /\ UNCHANGED <<pc, seen>>

\* k_thread_runtime_stats_all_get; after a failure the load is reported as 0.
Get ==
  /\ \/ Go("monitor", "get", "compute") /\ mem' = [mem EXCEPT !.now = mem.stats]
     \/ Go("monitor", "get", "get") /\ mem' = [mem EXCEPT !.pct = 0]
  /\ UNCHANGED seen

Percent(d) == IF d.execution_cycles > 0 THEN (d.total_cycles * 100) \div d.execution_cycles ELSE 0

Compute ==
  LET d == Minus(mem.now, mem.prev) IN
  /\ Go("monitor", "compute", "get")
  /\ mem' = [mem EXCEPT !.pct = Percent(d), !.prev = mem.now, !.now = Zero]
  /\ seen' = Plus(seen, d)

Step(t) ==
  \/ t = "kernel" /\ RunCycle
  \/ t = "monitor" /\ (Get \/ Compute)

TypeOK ==
  /\ {mem.stats, mem.prev, mem.now} \subseteq [DOMAIN Zero -> 0 .. CycleWrap - 1]
  /\ mem.pct \in 0 .. 100
  /\ pc.monitor \in {"get", "compute"}

\* The windows follow one another without gap or overlap, across failed calls
\* too: what was reported so far is all that the kernel had counted then, and
\* what is left is a part of the time that followed.
NoUpdateLost ==
  /\ seen = mem.prev
  /\ LET left == Minus(mem.stats, mem.prev) IN left.total_cycles <= left.execution_cycles
=============================================================================

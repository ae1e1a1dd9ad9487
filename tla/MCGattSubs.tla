----------------------------- MODULE MCGattSubs -----------------------------
(* Two threads, two slots, two characteristics. *)
EXTENDS GattSubs, TLC

CONSTANTS c1, c2, h1, h2

MCCallers == {c1, c2}
MCHandles == {h1, h2}
Symmetry  == Permutations(MCCallers)
=============================================================================

----------------------------- MODULE MCBleLink -----------------------------
(***************************************************************************)
(* Three links: one to be lost while a chunk is relayed, one that takes    *)
(* its place, and one after that.  Two chunks, so that the second meets    *)
(* what the first left.                                                    *)
(***************************************************************************)
EXTENDS BleLink
=============================================================================

---------------------------- MODULE MCGattClient ----------------------------
(***************************************************************************)
(* Two callers; a discovery that ends with its first find, one that does   *)
(* not, and a read: two flags, one shared by two operations.  Four calls   *)
(* and two lost links: a call that meets a disconnection, one on the next  *)
(* link that takes its flag, and calls that come after them.               *)
(***************************************************************************)
EXTENDS GattClient

MCKinds == {"char", "desc", "read"}
=============================================================================

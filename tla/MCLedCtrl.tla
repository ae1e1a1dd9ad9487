----------------------------- MODULE MCLedCtrl -----------------------------
(***************************************************************************)
(* The service as it is: two LEDs, no bounds.                              *)
(***************************************************************************)
EXTENDS LedCtrl
=============================================================================

------------------------------ MODULE MCRs485 ------------------------------
(***************************************************************************)
(* Two senders; frames of 1 and 3 bytes, calls with 0 and with 4 bytes (the *)
(* staging buffer has 3); a UART that holds 2 bytes; three frames: enough  *)
(* for a timed-out frame to leave bytes behind, for the next frame to      *)
(* follow them and for a third to follow that one.                         *)
(***************************************************************************)
EXTENDS Rs485

MCSendLens == {0, 1, 3, 4}
=============================================================================

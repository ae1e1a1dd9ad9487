---------------------------- MODULE MCLcdDisplay ----------------------------
(***************************************************************************)
(* Up to two areas a frame, so that one flush follows another in a frame,  *)
(* and three counted frames, so that frames fall before, between and after *)
(* the monitor's read and reset.                                           *)
(***************************************************************************)
EXTENDS LcdDisplay
=============================================================================

--------------------------- MODULE MCMcuTransport ---------------------------
(***************************************************************************)
(* A small instance of the MCU transport: a ring of 3 bytes, interrupt     *)
(* reads of up to 2 bytes and thread pulls of up to 2, so that bursts      *)
(* overflow the ring, the ring takes several pulls to drain and the        *)
(* semaphore saturates; one registrar that registers and unregisters a     *)
(* callback; two senders of 2-byte frames.                                 *)
(***************************************************************************)
EXTENDS McuTransportProps

MCSendLens == {2}
=============================================================================

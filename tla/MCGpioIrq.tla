----------------------------- MODULE MCGpioIrq -----------------------------
(* One pad and two handlers.                                               *)
EXTENDS GpioIrq, TLC
=============================================================================

--------------------------- MODULE MCDualListener ---------------------------
(* DualListener for TLC.                                                   *)
EXTENDS DualListener
=============================================================================

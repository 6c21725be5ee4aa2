--------------------------- MODULE MCTermination ----------------------------
(* Termination with two chunks of output, one heartbeat and one fault (the cfg). *)
EXTENDS Termination
=============================================================================

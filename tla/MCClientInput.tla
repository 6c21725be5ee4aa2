--------------------------- MODULE MCClientInput ----------------------------
(* ClientInput for TLC.                                                    *)
EXTENDS ClientInput
=============================================================================

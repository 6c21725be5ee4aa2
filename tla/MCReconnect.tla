---------------------------- MODULE MCReconnect -----------------------------
(* Reconnect for TLC.                                                      *)
EXTENDS ReconnectInvariants, TLC

Symmetry == Permutations(Conn)
=============================================================================

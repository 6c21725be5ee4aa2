----------------------------- MODULE MCTerminal -----------------------------
(* Terminal on windows of 0 to 3 rows and TERMs at every length that matters. *)
EXTENDS Terminal

MCRows == {0, 1, 2, 3}
MCTermLens == {0, 14, 128, 129, 65533, 65534, 65536}
=============================================================================

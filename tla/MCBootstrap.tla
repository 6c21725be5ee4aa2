---------------------------- MODULE MCBootstrap ----------------------------
(* Bootstrap on every kind of host, with a few runs of goet in a row. *)
EXTENDS Bootstrap
=============================================================================

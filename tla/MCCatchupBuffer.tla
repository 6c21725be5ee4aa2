-------------------------- MODULE MCCatchupBuffer ---------------------------
(* CatchupBuffer for TLC.                                                  *)
EXTENDS CatchupBuffer

\* Payloads that fit several times, once, and not at all.
PayloadLens == {1, 2, 3, 7}
=============================================================================

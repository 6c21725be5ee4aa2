----------------------------- MODULE CatchupLog -----------------------------
(***************************************************************************)
(* What a catchup buffer promises its owner: it holds the newest numbers   *)
(* stored, an interval oldest..newest, and replays the part of it a peer   *)
(* misses.  The bytes of the payloads, which decide how many entries an    *)
(* insertion evicts, are abstracted to a choice.                           *)
(***************************************************************************)
EXTENDS CatchupOps

VARIABLES oldest, newest

Init ==
  /\ oldest = 1
  /\ newest = 0

Store ==
  /\ newest' = newest + 1
  /\ oldest' \in StoreKeeps(oldest, newest + 1)

Spec == Init /\ [][Store]_<<oldest, newest>>
=============================================================================

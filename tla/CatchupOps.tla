----------------------------- MODULE CatchupOps -----------------------------
(***************************************************************************)
(* Sequence numbers are handed out consecutively and a catchup buffer      *)
(* evicts the oldest entries first, so the numbers it holds are an         *)
(* interval oldest..newest.                                                *)
(***************************************************************************)
EXTENDS Integers, Sequences

CONSTANT CatchupSlots   \* most entries a catchup buffer keeps

ASSUME SlotsAssumption == CatchupSlots \in Nat \ {0}

Interval(lo, hi) == [i \in 1 .. (IF lo <= hi THEN hi - lo + 1 ELSE 0) |-> lo + i - 1]

\* The oldest number the buffer may hold after storing seq.
StoreKeeps(oldest, seq) == {o \in oldest .. seq : seq - o < CatchupSlots}

\* Mutant: an off-by-one, the first number the peer misses is skipped.
ReplaySkipsOne(oldest, newest, last) ==
  Interval(IF last + 2 > oldest THEN last + 2 ELSE oldest, newest)

\* The numbers a buffer holding oldest..newest replays to a peer at last.
ReplaySince(oldest, newest, last) ==
  Interval(IF last + 1 > oldest THEN last + 1 ELSE oldest, newest)
=============================================================================

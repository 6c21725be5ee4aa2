--------------------------- MODULE CatchupStream ----------------------------
(***************************************************************************)
(* What one direction of goet promises: numbered messages are delivered in *)
(* order, each at most once, and a number is skipped only if the sender's  *)
(* catchup buffer no longer had it or the receiver refused it.             *)
(***************************************************************************)
EXTENDS Integers, Sequences

CONSTANT MayRestart   \* the receiver may be replaced by a fresh one

VARIABLES
  sent,       \* numbers handed out so far
  kept,       \* the sender can still resend kept..sent
  delivered,  \* numbers delivered, in order
  refused     \* numbers the receiver took and failed to use

streamVars == <<sent, kept, delivered, refused>>

Last == IF delivered = <<>> THEN 0 ELSE delivered[Len(delivered)]

Init ==
  /\ sent = 0
  /\ kept = 1
  /\ delivered = <<>>
  /\ refused = {}

Send ==
  /\ sent' = sent + 1
  /\ kept' \in kept .. sent + 1
  /\ UNCHANGED <<delivered, refused>>

\* A run of consecutive numbers reaches the receiver.
Deliver ==
  \E lo, hi \in 1 .. sent :
    /\ Last < lo
    /\ lo <= hi
    /\ \A s \in Last + 1 .. lo - 1 : s < kept \/ s \in refused
    /\ delivered' = delivered \o [i \in 1 .. hi - lo + 1 |-> lo + i - 1]
    /\ UNCHANGED <<sent, kept, refused>>

Refuse ==
  \E s \in Last + 1 .. sent :
    /\ refused' = refused \cup {s}
    /\ UNCHANGED <<sent, kept, delivered>>

Restart ==
  /\ MayRestart
  /\ delivered' = <<>>
  /\ UNCHANGED <<sent, kept, refused>>

Next == Send \/ Deliver \/ Refuse \/ Restart

Spec == Init /\ [][Next]_streamVars
=============================================================================

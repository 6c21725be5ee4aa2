--------------------------- MODULE MCFlowControl ----------------------------
(* FlowControl with every buffer one message long (the cfg): any two may fill. *)
EXTENDS FlowControl
=============================================================================

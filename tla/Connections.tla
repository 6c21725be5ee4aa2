---------------------------- MODULE Connections ----------------------------
(***************************************************************************)
(* The transport as the client and the session of goet see it: connections *)
(* with a control and a data stream in each direction, and the queue of    *)
(* authenticated connections behind the session's dual listener.           *)
(*                                                                         *)
(* A queue stands for everything between the writer's call and the         *)
(* reader's select: socket, reader goroutine and Go channel, all FIFO.     *)
(* The streams of one connection are separate queues because nothing       *)
(* orders them: QUIC streams are independent, and the demux of the TCP     *)
(* transport hands Data and control messages to two channels.              *)
(*                                                                         *)
(* A connection that is no longer alive takes no new messages.  Its reader *)
(* may still see what is queued or may get the error at any point, which   *)
(* is the loss of an arbitrary suffix of the stream.                       *)
(*                                                                         *)
(* Connection identities are reused once neither side refers to them, so   *)
(* that a finite model has behaviours with any number of reconnections.    *)
(***************************************************************************)
EXTENDS CatchupOps

CONSTANTS
  Conn,          \* identities of connections
  NoConn,        \* the nil connection
  Transport,     \* "quic" or "tcp"
  MaxCtl,        \* bound: heartbeats are not queued beyond this many
  MaxFaults,     \* bound: network failures and timeouts in a behaviour
  MaxSeq,        \* bound: Data messages each side originates per process
  CoalThreshold  \* chunks at which a coalescer asks for a flush

ASSUME ConnectionsAssumption ==
  /\ NoConn \notin Conn
  /\ Transport \in {"quic", "tcp"}
  /\ MaxCtl \in Nat
  /\ MaxFaults \in Nat
  /\ MaxSeq \in Nat
  /\ CoalThreshold \in Nat \ {0}

VARIABLES
  alive,          \* the connection still carries messages
  acceptQ,        \* authenticated connections the session has not taken yet
  listening,      \* the session's listener is open
  lastClientSeq,  \* what the client said it received, in the dial's handshake
  upCtl, upData,     \* client to session
  downCtl, downData, \* session to client
  faults          \* failures so far

connVars == <<alive, acceptQ, listening, lastClientSeq,
              upCtl, upData, downCtl, downData, faults>>

-----------------------------------------------------------------------------
(* Messages.  The payload of a Data message is identified by its sequence  *)
(* number and, from the client, by the process that numbered it.           *)

CtlTypes == {"SequenceHeader", "TerminalInfo", "Heartbeat", "Shutdown"}

\* n: the LastReceivedSeq of a SequenceHeader; for TerminalInfo, how many Data
\* messages precede it on the connection.
CtlMsg == [type : CtlTypes, n : Nat]

Ctl(t, n) == [type |-> t, n |-> n]

UpMsg == [inc : Nat \ {0}, seq : Nat \ {0}]

-----------------------------------------------------------------------------
(* Sending: a message written to a dead connection goes nowhere.           *)

Put(q, k, m) == IF alive[k] THEN [q EXCEPT ![k] = Append(@, m)] ELSE q

PutAll(q, k, ms) == IF alive[k] THEN [q EXCEPT ![k] = @ \o ms] ELSE q

\* One fault more: a broken network path or a timeout that fires.
Fault ==
  /\ faults < MaxFaults
  /\ faults' = faults + 1

-----------------------------------------------------------------------------
ConnTypeOK ==
  /\ alive \in [Conn -> BOOLEAN]
  /\ acceptQ \in Seq(Conn)
  /\ listening \in BOOLEAN
  /\ lastClientSeq \in [Conn -> Nat]
  /\ upCtl \in [Conn -> Seq(CtlMsg)]
  /\ upData \in [Conn -> Seq(UpMsg)]
  /\ downCtl \in [Conn -> Seq(CtlMsg)]
  /\ downData \in [Conn -> Seq(Nat \ {0})]
  /\ faults \in Nat

ConnInit ==
  /\ alive = [k \in Conn |-> FALSE]
  /\ acceptQ = <<>>
  /\ listening = TRUE
  /\ lastClientSeq = [k \in Conn |-> 0]
  /\ upCtl = [k \in Conn |-> <<>>]
  /\ upData = [k \in Conn |-> <<>>]
  /\ downCtl = [k \in Conn |-> <<>>]
  /\ downData = [k \in Conn |-> <<>>]
  /\ faults = 0

\* The path between the two sides fails: both will see errors.
NetBreak(k) ==
  /\ alive[k]
  /\ Fault
  /\ alive' = [alive EXCEPT ![k] = FALSE]
  /\ UNCHANGED <<acceptQ, listening, lastClientSeq, upCtl, upData, downCtl, downData>>
=============================================================================

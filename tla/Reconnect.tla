----------------------------- MODULE Reconnect ------------------------------
(***************************************************************************)
(* A client and a session of goet over a network that breaks: the          *)
(* composition of Client and Session over the connections they share, and  *)
(* the properties of the byte streams the user relies on.                  *)
(***************************************************************************)
EXTENDS Client, Session

vars == <<connVars, clientVars, sessionVars>>

\* No side refers to connection k: a dial may use its identity.
Unused(k) ==
  /\ k # cconn
  /\ k # sconn
  /\ readers[k] = {}
  /\ \A i \in DOMAIN acceptQ : acceptQ[i] # k

Init == ConnInit /\ ClientInit /\ SessionInit

DialStep == \E k \in Conn : Unused(k) /\ Dial(k) /\ UNCHANGED sessionVars

ClientStep == ClientNext /\ UNCHANGED sessionVars

SessionStep == SessionNext /\ UNCHANGED clientVars

NetworkStep == \E k \in Conn : NetBreak(k) /\ UNCHANGED <<clientVars, sessionVars>>

\* Both processes have returned.
Finished ==
  /\ cpc \in ExitReasons
  /\ spc = "exited"
  /\ UNCHANGED vars

Next == DialStep \/ ClientStep \/ SessionStep \/ NetworkStep \/ Finished

Spec == Init /\ [][Next]_vars

TypeOK == ConnTypeOK /\ ClientTypeOK /\ SessionTypeOK

-----------------------------------------------------------------------------
(* Order.                                                                  *)

Before(a, b) == a.inc < b.inc \/ (a.inc = b.inc /\ a.seq < b.seq)

\* What one client process writes to stdout is in the order the session
\* numbered it, each message at most once, however often the connection was
\* replaced while live output, replay and coalesced data were under way
\* (client.go ioLoop, session.go handleNewConn).
StdoutInOrder ==
  \A i, j \in DOMAIN out : i < j => out[i] < out[j]

\* What the session writes to the PTY is in the order the user typed it, each
\* message at most once, even when events of a replaced connection or of a
\* killed client process are still queued (session.go handleStreamEvent).
PtyInputInOrder ==
  \A i, j \in DOMAIN ptyIn : i < j => Before(ptyIn[i], ptyIn[j])

-----------------------------------------------------------------------------
(* Completeness.                                                           *)

Printed(s) == \E i \in DOMAIN out : out[i] = s

Typed(m) == \E i \in DOMAIN ptyIn : ptyIn[i] = m

\* A message of this client process that the session will not see again: on
\* the PTY, refused by it, or evicted before it could be resent.
Settled(s) ==
  \/ s < cOldest
  \/ [inc |-> cInc, seq |-> s] \in ptyLost
  \/ Typed([inc |-> cInc, seq |-> s])

\* A number the client has acknowledged is on its stdout, unless the session's
\* catchup buffer had already evicted it (client.go:392-398, session.go:408).
StdoutComplete ==
  \A s \in 1 .. cRecvSeq : s >= sOldest => Printed(s)

\* A number the session has acknowledged to its first client process was
\* written to the PTY, unless the client's buffer had evicted it or the PTY
\* refused it (session.go:321-330, client.go:263-271).
PtyInputComplete ==
  cInc = 1 => \A s \in 1 .. sRecvSeq : Settled(s)

\* The two sides serve the same live connection, handshake and replay done.
Joined ==
  /\ cpc = "io"
  /\ spc = "loop"
  /\ cconn = sconn
  /\ alive[cconn]

\* When the two sides are joined and nothing is under way to the client,
\* everything the session numbered is on stdout or was evicted: no handover
\* between coalescer, catchup buffer and connection drops a message.
NothingMissingDown ==
  Joined /\ downData[cconn] = <<>> =>
    \A s \in 1 .. sSendSeq : s >= sOldest => Printed(s)

\* When the first client process is joined to the session and nothing is under
\* way to the session, everything the client numbered is settled: each side told
\* the other what it last received and the sender replayed from there
\* (client.go:251-274).  A process started later numbers from 1 again, against
\* the recvSeq its predecessor left in the session (session.go:367).
NothingMissingUp ==
  cInc = 1 /\ Joined /\ upData[cconn] = <<>> => \A s \in 1 .. cSendSeq : Settled(s)

\* The client exits with exitShutdown only when the session really is going
\* away, not because a connection failed (client.go:368-389, 498-509).
ShutdownIsReal ==
  cpc = "exitShutdown" => spc \in {"closing", "exited"}

-----------------------------------------------------------------------------
(* What each direction implements.                                         *)

Down == INSTANCE CatchupStream WITH
  MayRestart <- TRUE,
  sent <- sSendSeq, kept <- sOldest, delivered <- out, refused <- {}

Up == INSTANCE CatchupStream WITH
  MayRestart <- FALSE,
  sent <- cSendSeq, kept <- cOldest,
  delivered <- [i \in DOMAIN ptyIn |-> ptyIn[i].seq],
  refused <- {m.seq : m \in ptyLost}

\* Session to client, replays and client restarts included, is a catchup
\* stream (session.go handleNewConn, client.go ioLoop).
DownStream == Down!Spec

\* Client to session is a catchup stream as long as there is one client
\* process (client.go handleSequenceExchange, session.go handleStreamEvent).
UpStream == Up!Spec

-----------------------------------------------------------------------------
(* Progress.  The select of both loops chooses among the ready cases at    *)
(* random, so a case that stays ready is taken; the retry timer brings the *)
(* client back to dial.  Nothing is assumed of the user, the shell, the    *)
(* network or the timeouts.                                                *)

Fairness ==
  /\ WF_vars(DialStep)
  /\ WF_vars((SequenceExchange \/ SequenceExchangeFails) /\ UNCHANGED sessionVars)
  /\ WF_vars(StdinTimer /\ UNCHANGED sessionVars)
  /\ WF_vars(ClientConnError /\ UNCHANGED sessionVars)
  /\ WF_vars(ClientData /\ UNCHANGED sessionVars)
  /\ WF_vars((ClientControlHeartbeat \/ ClientControlShutdown) /\ UNCHANGED sessionVars)
  /\ WF_vars(PtyTimer /\ UNCHANGED clientVars)
  /\ WF_vars(Accept /\ UNCHANGED clientVars)
  /\ WF_vars((FinishHandshake \/ HandshakeFails) /\ UNCHANGED clientVars)
  /\ WF_vars(FinishShutdown /\ UNCHANGED clientVars)
  /\ \A k \in Conn :
       /\ WF_vars(StreamData(k) /\ UNCHANGED clientVars)
       /\ WF_vars((StreamControl(k) \/ StreamShutdown(k)) /\ UNCHANGED clientVars)
       /\ \A s \in Streams : WF_vars(StreamError(k, s) /\ UNCHANGED clientVars)

FairSpec == Spec /\ Fairness

Gone == cpc \in ExitReasons \/ spc \in {"closing", "exited"} \/ cInc > 1

\* Every message the client numbered reaches the PTY, unless evicted, refused,
\* or one side leaves: once failures stop, reconnecting succeeds and replays.
KeystrokesArrive ==
  \A s \in 1 .. MaxSeq : (cSendSeq >= s) ~> (Settled(s) \/ Gone)

\* Every message the session numbered reaches stdout, unless evicted or one
\* side leaves.
OutputArrives ==
  \A s \in 1 .. MaxSeq : (sSendSeq >= s) ~> (Printed(s) \/ s < sOldest \/ Gone)
=============================================================================

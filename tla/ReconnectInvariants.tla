------------------------ MODULE ReconnectInvariants -------------------------
(***************************************************************************)
(* The inductive invariants behind the properties of Reconnect.  TLC       *)
(* checks them on small instances; ReconnectProofs and UpProofs prove them *)
(* inductive.                                                              *)
(***************************************************************************)
EXTENDS Reconnect

\* Connections that wait behind the listener are distinct and untouched.
QueueInv ==
  /\ \A i, j \in DOMAIN acceptQ : acceptQ[i] = acceptQ[j] => i = j
  /\ \A i \in DOMAIN acceptQ :
       /\ acceptQ[i] # sconn
       /\ readers[acceptQ[i]] = {}
       /\ downCtl[acceptQ[i]] = <<>>
       /\ downData[acceptQ[i]] = <<>>
       /\ upData[acceptQ[i]] = <<>>

\* The only connection that can be alive is the one the client holds.
AliveInv == \A k \in Conn : alive[k] => k = cconn

\* A catchup buffer that has stored anything still has the newest entry.
BuffersInv ==
  /\ cOldest <= cSendSeq \/ (cSendSeq = 0 /\ cOldest = 1)
  /\ sOldest <= sSendSeq \/ (sSendSeq = 0 /\ sOldest = 1)

\* The session has not replayed to connection k yet.
Unreplayed(k) ==
  \/ \E i \in DOMAIN acceptQ : acceptQ[i] = k
  \/ spc = "handshake" /\ k = sconn

\* Until the session has replayed to the client's connection, the dial's
\* acknowledgement is what the client has received.  Until the client has read
\* the session's header, it has sent nothing and the header is current; once it
\* has, the connection is no longer waiting.
HandshakeInv ==
  /\ spc = "handshake" => downData[sconn] = <<>>
  /\ Attached /\ Unreplayed(cconn) => lastClientSeq[cconn] = cRecvSeq
  /\ cpc = "io" => \A i \in DOMAIN acceptQ : acceptQ[i] # cconn
  /\ cpc = "seqhdr" => upCtl[cconn] = <<>> /\ upData[cconn] = <<>>
  /\ cpc = "seqhdr" /\ cconn = sconn =>
       /\ spc = "handshake"
       /\ downCtl[cconn] # <<>> => Head(downCtl[cconn]).n = sRecvSeq

-----------------------------------------------------------------------------
(* Session to client.                                                      *)

\* Every data stream to the client is a run of consecutive numbers.
DownRuns ==
  \A k \in Conn : \A i \in DOMAIN downData[k] :
    /\ downData[k][i] = downData[k][1] + i - 1
    /\ downData[k][i] <= sSendSeq

\* The client's stream continues where its stdout ends, past evicted numbers
\* at most, and reaches up to the newest number while the connection lives.
DownContinues ==
  Attached =>
    /\ downData[cconn] # <<>> =>
         /\ downData[cconn][1] > cRecvSeq
         /\ downData[cconn][1] = cRecvSeq + 1 \/ downData[cconn][1] <= sOldest
    /\ cconn = sconn /\ spc # "handshake" /\ alive[cconn] =>
         IF downData[cconn] = <<>>
           THEN cRecvSeq = sSendSeq
           ELSE downData[cconn][Len(downData[cconn])] = sSendSeq

\* recvSeq is the last number written to stdout.
RecvIsLastOut ==
  /\ cRecvSeq <= sSendSeq
  /\ cRecvSeq = IF out = <<>> THEN 0 ELSE out[Len(out)]
  /\ \A i \in DOMAIN out : out[i] <= cRecvSeq

DownInv == DownRuns /\ DownContinues /\ RecvIsLastOut /\ StdoutInOrder /\ StdoutComplete

-----------------------------------------------------------------------------
(* Client to session.                                                      *)

\* Message m was numbered by a client process up to the present one.
Issued(m) == m.inc < cInc \/ (m.inc = cInc /\ m.seq <= cSendSeq)

\* Every data stream to the session is a run of consecutive numbers of one
\* client process.
UpRuns ==
  \A k \in Conn : \A i \in DOMAIN upData[k] :
    /\ upData[k][i].inc = upData[k][1].inc
    /\ upData[k][i].seq = upData[k][1].seq + i - 1
    /\ Issued(upData[k][i])

\* recvSeq is the number of the last message written to the PTY.
RecvIsLastIn ==
  /\ sRecvSeq = IF ptyIn = <<>> THEN 0 ELSE ptyIn[Len(ptyIn)].seq
  /\ \A i \in DOMAIN ptyIn : Issued(ptyIn[i])

\* The stream the session reads comes after all it has written to the PTY.
UpContinues ==
  sconn # NoConn /\ upData[sconn] # <<>> =>
    \A i \in DOMAIN ptyIn : Before(ptyIn[i], upData[sconn][1])

\* While the first client process runs, whatever precedes that stream is
\* settled, and the stream reaches up to the newest number while it lives.
UpCovers ==
  cInc = 1 /\ sconn # NoConn =>
    /\ \A i \in DOMAIN upData[sconn] :
         \A s \in 1 .. upData[sconn][1].seq - 1 : Settled(s)
    /\ cpc = "io" /\ cconn = sconn /\ alive[cconn] =>
         IF upData[cconn] = <<>>
           THEN \A s \in 1 .. cSendSeq : Settled(s)
           ELSE upData[cconn][Len(upData[cconn])].seq = cSendSeq

\* A client whose connection lives ends its own stream with its newest number.
UpEnds ==
  cpc = "io" /\ alive[cconn] /\ upData[cconn] # <<>> =>
    upData[cconn][Len(upData[cconn])] = [inc |-> cInc, seq |-> cSendSeq]

UpInv == UpRuns /\ RecvIsLastIn /\ UpContinues /\ UpEnds /\ PtyInputInOrder

UpCompleteInv == UpCovers /\ PtyInputComplete

-----------------------------------------------------------------------------
\* Shutdown is on its way to a client only if the session is leaving.
ShutdownInv ==
  /\ \A k \in Conn : \A i \in DOMAIN downCtl[k] :
       downCtl[k][i].type = "Shutdown" => spc \in {"closing", "exited"}
  /\ ShutdownIsReal

IInv ==
  /\ AliveInv
  /\ QueueInv
  /\ BuffersInv
  /\ HandshakeInv
  /\ DownInv
  /\ UpInv
  /\ UpCompleteInv
  /\ ShutdownInv
=============================================================================

------------------------------ MODULE Session -------------------------------
(***************************************************************************)
(* The session process: the event loop of Session.Run, the handshake it    *)
(* runs for every accepted connection, and the reader goroutines that feed *)
(* it stream events tagged with their connection.  One action per case of  *)
(* the select, except that handleNewConn is split where it blocks on the   *)
(* client's TerminalInfo.                                                  *)
(***************************************************************************)
EXTENDS Connections

VARIABLES
  spc,       \* "loop", "handshake" (in handleNewConn), "closing", "exited"
  sconn,     \* s.conn
  sSendSeq, sRecvSeq,
  sOldest,   \* s.buf holds sOldest..sSendSeq
  sCoal,     \* chunks in s.coal
  pty,       \* "none" until the first TerminalInfo; "eof" once the reader ended
  readers,   \* streams of a connection that have a reader goroutine
  ptyIn,     \* client messages written to the PTY, in order
  ptyLost    \* client messages whose write to the PTY failed

sessionVars == <<spc, sconn, sSendSeq, sRecvSeq, sOldest, sCoal, pty, readers,
                 ptyIn, ptyLost>>

Streams == {"control", "data"}

SessionTypeOK ==
  /\ spc \in {"loop", "handshake", "closing", "exited"}
  /\ sconn \in Conn \cup {NoConn}
  /\ spc = "handshake" => sconn # NoConn
  /\ spc = "exited" => sconn = NoConn
  /\ sSendSeq \in Nat
  /\ sRecvSeq \in Nat
  /\ sOldest \in Nat \ {0}
  /\ sOldest <= sSendSeq + 1
  /\ sCoal \in Nat
  /\ pty \in {"none", "open", "eof"}
  /\ readers \in [Conn -> SUBSET Streams]
  /\ ptyIn \in Seq(UpMsg)
  /\ ptyLost \in SUBSET UpMsg

SessionInit ==
  /\ spc = "loop"
  /\ sconn = NoConn
  /\ sSendSeq = 0
  /\ sRecvSeq = 0
  /\ sOldest = 1
  /\ sCoal = 0
  /\ pty = "none"
  /\ readers = [k \in Conn |-> {}]
  /\ ptyIn = <<>>
  /\ ptyLost = {}

-----------------------------------------------------------------------------
(* Effects shared by the steps below.                                      *)

\* Mutant: the coalescer is flushed once s.conn is the new connection.
StoreAndSend ==
  IF sCoal = 0
    THEN UNCHANGED <<sSendSeq, sOldest, sCoal, downData>>
    ELSE /\ sSendSeq' = sSendSeq + 1
         /\ sOldest' \in StoreKeeps(sOldest, sSendSeq + 1)
         /\ sCoal' = 0
         /\ downData' = Put(downData, Head(acceptQ), sSendSeq + 1)

\* flushCoalesced while s.conn is nil: number and store, send nothing.
StoreCoalesced ==
  /\ IF sCoal = 0
       THEN UNCHANGED <<sSendSeq, sOldest, sCoal>>
       ELSE /\ sSendSeq' = sSendSeq + 1
            /\ sOldest' \in StoreKeeps(sOldest, sSendSeq + 1)
            /\ sCoal' = 0
  /\ UNCHANGED downData

\* flushCoalesced of a non-empty coalescer; a write that fails closes the
\* connection.
FlushCoalesced ==
  /\ sSendSeq' = sSendSeq + 1
  /\ sOldest' \in StoreKeeps(sOldest, sSendSeq + 1)
  /\ IF sconn = NoConn
       THEN UNCHANGED <<downData, sconn>>
       ELSE /\ downData' = Put(downData, sconn, sSendSeq + 1)
            /\ \/ UNCHANGED sconn
               \/ ~ alive[sconn] /\ sconn' = NoConn

\* Run returns: the deferred closeConn and ln.Close, which also closes the
\* connections nobody accepted; the reader goroutines die with the process, and
\* nobody reads what is still queued.
ExitSession ==
  /\ spc' = "exited"
  /\ sconn' = NoConn
  /\ alive' = [k \in Conn |-> /\ alive[k]
                              /\ k # sconn
                              /\ \A i \in DOMAIN acceptQ : acceptQ[i] # k]
  /\ acceptQ' = <<>>
  /\ listening' = FALSE
  /\ readers' = [k \in Conn |-> {}]
  /\ upCtl' = [k \in Conn |-> <<>>]
  /\ upData' = [k \in Conn |-> <<>>]

-----------------------------------------------------------------------------
(* PTY output.                                                             *)

\* A chunk from ptyDataCh; the coalescer asks for a flush at its threshold.
PtyData ==
  /\ spc = "loop"
  /\ pty = "open"
  /\ sSendSeq < MaxSeq
  /\ IF sCoal + 1 >= CoalThreshold
       THEN sCoal' = 0 /\ FlushCoalesced
       ELSE sCoal' = sCoal + 1 /\ UNCHANGED <<sSendSeq, sOldest, downData, sconn>>
  /\ UNCHANGED <<alive, acceptQ, listening, lastClientSeq, upCtl, upData, downCtl,
                 faults, spc, sRecvSeq, pty, readers, ptyIn, ptyLost>>

\* The coalescer's deadline.
PtyTimer ==
  /\ spc = "loop"
  /\ sCoal > 0
  /\ sCoal' = 0
  /\ FlushCoalesced
  /\ UNCHANGED <<alive, acceptQ, listening, lastClientSeq, upCtl, upData, downCtl,
                 faults, spc, sRecvSeq, pty, readers, ptyIn, ptyLost>>

\* ptyDataCh is closed: flush what is pending and disable the case.
PtyClosed ==
  /\ spc = "loop"
  /\ pty = "open"
  /\ pty' = "eof"
  /\ sCoal' = 0
  /\ IF sCoal > 0 THEN FlushCoalesced ELSE UNCHANGED <<sSendSeq, sOldest, downData, sconn>>
  /\ UNCHANGED <<alive, acceptQ, listening, lastClientSeq, upCtl, upData, downCtl,
                 faults, spc, sRecvSeq, readers, ptyIn, ptyLost>>

-----------------------------------------------------------------------------
(* handleNewConn.                                                          *)

\* Mutant: the session announces what it sent.
HeaderSendSeq == sSendSeq

\* The LastReceivedSeq of the session's SequenceHeader.
HeaderSeq == sRecvSeq

\* Close the old connection, store what the coalescer holds while s.conn is
\* nil, adopt the new connection and send the SequenceHeader.
Accept ==
  /\ spc = "loop"
  /\ acceptQ # <<>>
  /\ LET k == Head(acceptQ)
     IN  /\ alive' = [j \in Conn |-> alive[j] /\ j # sconn]
         /\ sconn' = k
         /\ downCtl' = Put(downCtl, k, Ctl("SequenceHeader", HeaderSeq))
  /\ acceptQ' = Tail(acceptQ)
  /\ StoreCoalesced
  /\ spc' = "handshake"
  /\ UNCHANGED <<listening, lastClientSeq, upCtl, upData, faults,
                 sRecvSeq, pty, readers, ptyIn, ptyLost>>

\* The first message ReadControl returns is the TerminalInfo.  Over TCP the
\* demux has not started, so any Data in front of it would be returned instead.
GotTerminalInfo ==
  /\ upCtl[sconn] # <<>>
  /\ Head(upCtl[sconn]).type = "TerminalInfo"
  /\ Transport = "tcp" => Head(upCtl[sconn]).n = 0

\* Over TCP, Data the client replayed arrives where TerminalInfo is expected.
GotReplayedData ==
  /\ Transport = "tcp"
  /\ upData[sconn] # <<>>
  /\ upCtl[sconn] # <<>> => Head(upCtl[sconn]).n > 0

\* TerminalInfo arrived: spawn the PTY the first time, replay what the client
\* missed and start the readers.
FinishHandshake ==
  /\ spc = "handshake"
  /\ GotTerminalInfo
  /\ upCtl' = [upCtl EXCEPT ![sconn] = Tail(@)]
  /\ pty' = IF pty = "none" THEN "open" ELSE pty
  /\ downData' = PutAll(downData, sconn,
                   ReplaySince(sOldest, sSendSeq, lastClientSeq[sconn]))
  /\ readers' = [readers EXCEPT ![sconn] = Streams]
  /\ spc' = "loop"
  /\ UNCHANGED <<alive, acceptQ, listening, lastClientSeq, upData, downCtl, faults,
                 sconn, sSendSeq, sRecvSeq, sOldest, sCoal, ptyIn, ptyLost>>

\* The handshake fails: closeConn, and nobody will read the connection.
FailHandshake ==
  /\ alive' = [alive EXCEPT ![sconn] = FALSE]
  /\ sconn' = NoConn
  /\ spc' = "loop"
  /\ upCtl' = [upCtl EXCEPT ![sconn] = <<>>]
  /\ upData' = [upData EXCEPT ![sconn] = <<>>]
  /\ UNCHANGED <<acceptQ, listening, lastClientSeq, downCtl, downData,
                 sSendSeq, sRecvSeq, sOldest, sCoal, pty, readers, ptyIn, ptyLost>>

\* Mutant: a read error does not end the handshake.
HandshakeWaits ==
  /\ spc = "handshake"
  /\ GotReplayedData
  /\ FailHandshake
  /\ UNCHANGED faults

\* A write or read error, or a message that is not TerminalInfo.
HandshakeFails ==
  /\ spc = "handshake"
  /\ ~ alive[sconn] \/ GotReplayedData
  /\ FailHandshake
  /\ UNCHANGED faults

\* No TerminalInfo within the five seconds of the read deadline.
HandshakeTimeout ==
  /\ spc = "handshake"
  /\ Fault
  /\ FailHandshake

\* spawnPTY fails on the first connection: fatal.
SpawnFails ==
  /\ spc = "handshake"
  /\ GotTerminalInfo
  /\ pty = "none"
  /\ ExitSession
  /\ UNCHANGED <<lastClientSeq, downCtl, downData, faults,
                 sSendSeq, sRecvSeq, sOldest, sCoal, pty, ptyIn, ptyLost>>

-----------------------------------------------------------------------------
(* Stream events.  An event of a connection that is not s.conn is taken    *)
(* from the channel and dropped.                                           *)

\* Mutant: events are not told apart by their connection.
Untagged(k) == TRUE

Current(k) == k = sconn

\* Data: write the payload to the PTY, then advance recvSeq.
StreamData(k) ==
  /\ spc = "loop"
  /\ "data" \in readers[k]
  /\ upData[k] # <<>>
  /\ upData' = [upData EXCEPT ![k] = Tail(@)]
  /\ IF Current(k)
       THEN /\ ptyIn' = Append(ptyIn, Head(upData[k]))
            /\ sRecvSeq' = Head(upData[k]).seq
       ELSE UNCHANGED <<ptyIn, sRecvSeq>>
  /\ UNCHANGED <<alive, acceptQ, listening, lastClientSeq, upCtl, downCtl, downData, faults,
                 spc, sconn, sSendSeq, sOldest, sCoal, pty, readers, ptyLost>>

\* Data whose write to the PTY fails: recvSeq stays.
PtyWriteFails(k) ==
  /\ spc = "loop"
  /\ "data" \in readers[k]
  /\ upData[k] # <<>>
  /\ Current(k)
  /\ Fault
  /\ upData' = [upData EXCEPT ![k] = Tail(@)]
  /\ ptyLost' = ptyLost \cup {Head(upData[k])}
  /\ UNCHANGED <<alive, acceptQ, listening, lastClientSeq, upCtl, downCtl, downData,
                 spc, sconn, sSendSeq, sRecvSeq, sOldest, sCoal, pty, readers, ptyIn>>

\* A control message that only shows the client is there, or a stale one.
StreamControl(k) ==
  /\ spc = "loop"
  /\ "control" \in readers[k]
  /\ upCtl[k] # <<>>
  /\ ~ (Current(k) /\ Head(upCtl[k]).type = "Shutdown")
  /\ upCtl' = [upCtl EXCEPT ![k] = Tail(@)]
  /\ UNCHANGED <<alive, acceptQ, listening, lastClientSeq, upData, downCtl, downData,
                 faults, sessionVars>>

\* Shutdown from the client: Run returns.
StreamShutdown(k) ==
  /\ spc = "loop"
  /\ "control" \in readers[k]
  /\ upCtl[k] # <<>>
  /\ Current(k) /\ Head(upCtl[k]).type = "Shutdown"
  /\ ExitSession
  /\ UNCHANGED <<lastClientSeq, downCtl, downData, faults,
                 sSendSeq, sRecvSeq, sOldest, sCoal, pty, ptyIn, ptyLost>>

\* The reader's last event is its error; for the current connection it closes
\* the connection.
StreamError(k, s) ==
  /\ spc = "loop"
  /\ s \in readers[k]
  /\ ~ alive[k]
  /\ readers' = [readers EXCEPT ![k] = @ \ {s}]
  /\ upCtl' = IF s = "control" THEN [upCtl EXCEPT ![k] = <<>>] ELSE upCtl
  /\ upData' = IF s = "data" THEN [upData EXCEPT ![k] = <<>>] ELSE upData
  /\ sconn' = IF Current(k) THEN NoConn ELSE sconn
  /\ UNCHANGED <<alive, acceptQ, listening, lastClientSeq, downCtl, downData, faults,
                 spc, sSendSeq, sRecvSeq, sOldest, sCoal, pty, ptyIn, ptyLost>>

-----------------------------------------------------------------------------
(* Heartbeats.                                                             *)

SessionHeartbeat ==
  /\ spc = "loop"
  /\ sconn # NoConn
  /\ alive[sconn]
  /\ Len(downCtl[sconn]) < MaxCtl
  /\ downCtl' = Put(downCtl, sconn, Ctl("Heartbeat", 0))
  /\ UNCHANGED <<alive, acceptQ, listening, lastClientSeq, upCtl, upData, downData,
                 faults, sessionVars>>

\* The heartbeat cannot be written: closeConn.
HeartbeatFails ==
  /\ spc = "loop"
  /\ sconn # NoConn
  /\ ~ alive[sconn]
  /\ sconn' = NoConn
  /\ UNCHANGED <<connVars, spc, sSendSeq, sRecvSeq, sOldest, sCoal, pty, readers,
                 ptyIn, ptyLost>>

\* The heartbeat is written first; then nothing received for recvTimeout
\* closes the connection.
SessionTimeout ==
  /\ spc = "loop"
  /\ sconn # NoConn
  /\ Fault
  /\ downCtl' = Put(downCtl, sconn, Ctl("Heartbeat", 0))
  /\ alive' = [alive EXCEPT ![sconn] = FALSE]
  /\ sconn' = NoConn
  /\ UNCHANGED <<acceptQ, listening, lastClientSeq, upCtl, upData, downData,
                 spc, sSendSeq, sRecvSeq, sOldest, sCoal, pty, readers, ptyIn, ptyLost>>

-----------------------------------------------------------------------------
(* Leaving.                                                                *)

\* gracefulShutdown, because the shell exited or the context was cancelled:
\* flush, say Shutdown, and wait 50ms before the connection is closed.
GracefulShutdown ==
  /\ spc = "loop"
  /\ spc' = "closing"
  /\ sCoal' = 0
  /\ IF sCoal > 0 THEN FlushCoalesced ELSE UNCHANGED <<sSendSeq, sOldest, downData, sconn>>
  /\ downCtl' = IF sconn' = NoConn THEN downCtl
                ELSE Put(downCtl, sconn, Ctl("Shutdown", 0))
  /\ UNCHANGED <<alive, acceptQ, listening, lastClientSeq, upCtl, upData, faults,
                 sRecvSeq, pty, readers, ptyIn, ptyLost>>

ShellDone ==
  /\ pty # "none"
  /\ GracefulShutdown

CtxDone == GracefulShutdown

FinishShutdown ==
  /\ spc = "closing"
  /\ ExitSession
  /\ UNCHANGED <<lastClientSeq, downCtl, downData, faults,
                 sSendSeq, sRecvSeq, sOldest, sCoal, pty, ptyIn, ptyLost>>

\* The context is cancelled and the select picks the failed Accept before the
\* ctx.Done case: Run returns without gracefulShutdown.
AcceptCancelled ==
  /\ spc = "loop"
  /\ ExitSession
  /\ UNCHANGED <<lastClientSeq, downCtl, downData, faults,
                 sSendSeq, sRecvSeq, sOldest, sCoal, pty, ptyIn, ptyLost>>

SessionReads ==
  \/ PtyTimer
  \/ Accept
  \/ FinishHandshake
  \/ HandshakeFails
  \/ FinishShutdown
  \/ \E k \in Conn : StreamData(k) \/ StreamControl(k) \/ StreamShutdown(k)
  \/ \E k \in Conn, s \in Streams : StreamError(k, s)

SessionNext ==
  \/ SessionReads
  \/ PtyData
  \/ PtyClosed
  \/ HandshakeTimeout
  \/ SpawnFails
  \/ \E k \in Conn : PtyWriteFails(k)
  \/ SessionHeartbeat
  \/ HeartbeatFails
  \/ SessionTimeout
  \/ ShellDone
  \/ CtxDone
  \/ AcceptCancelled
=============================================================================

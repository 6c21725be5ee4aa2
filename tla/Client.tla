------------------------------- MODULE Client -------------------------------
(***************************************************************************)
(* The client process: Client.Run dials, exchanges sequence numbers and    *)
(* runs ioLoop until the connection fails, then dials again.  One action   *)
(* per step of Run and per case of the select in ioLoop.                   *)
(***************************************************************************)
EXTENDS Connections

CONSTANT MaxInc   \* bound: client processes started one after the other

ASSUME ClientAssumption == MaxInc \in Nat \ {0}

VARIABLES
  cpc,       \* where Run is; the exit reason once it has returned
  cconn,     \* the connection Run holds
  cSendSeq, cRecvSeq,
  cOldest,   \* c.buf holds cOldest..cSendSeq
  cCoal,     \* chunks in ioLoop's coalescer
  cInc,      \* which client process this is
  out        \* sequence numbers this process has written to stdout

clientVars == <<cpc, cconn, cSendSeq, cRecvSeq, cOldest, cCoal, cInc, out>>

ExitReasons ==
  {"exitEscape", "exitShutdown", "exitStdinEOF", "exitCancelled", "rawModeFailed"}

Attached == cpc \in {"seqhdr", "io"}

ClientTypeOK ==
  /\ cpc \in {"dial", "seqhdr", "io"} \cup ExitReasons
  /\ cconn \in Conn \cup {NoConn}
  /\ Attached <=> cconn # NoConn
  /\ cSendSeq \in Nat
  /\ cRecvSeq \in Nat
  /\ cOldest \in Nat \ {0}
  /\ cOldest <= cSendSeq + 1
  /\ cCoal \in Nat
  /\ cInc \in Nat \ {0}
  /\ out \in Seq(Nat \ {0})

ClientInit ==
  /\ cpc = "dial"
  /\ cconn = NoConn
  /\ cSendSeq = 0
  /\ cRecvSeq = 0
  /\ cOldest = 1
  /\ cCoal = 0
  /\ cInc = 1
  /\ out = <<>>

-----------------------------------------------------------------------------
(* Effects shared by the steps below.                                      *)

\* conn.Close(): nobody on this side reads the connection any more.
CloseClientEnd ==
  /\ alive' = [alive EXCEPT ![cconn] = FALSE]
  /\ downCtl' = [downCtl EXCEPT ![cconn] = <<>>]
  /\ downData' = [downData EXCEPT ![cconn] = <<>>]
  /\ cconn' = NoConn
  /\ cCoal' = 0

\* Mutant: Run dials again and forgets conn.Close().
LeaveConnOpen(pc) ==
  /\ cpc' = pc
  /\ UNCHANGED <<alive, downCtl, downData, cconn, cCoal>>

\* Run returns or goes back to dialling; ioLoop's coalescer is dropped.
LeaveConn(pc) ==
  /\ cpc' = pc
  /\ CloseClientEnd

\* flushStdinCoalesced with something to flush.
FlushStdin ==
  /\ cSendSeq' = cSendSeq + 1
  /\ cOldest' \in StoreKeeps(cOldest, cSendSeq + 1)
  /\ upData' = Put(upData, cconn, [inc |-> cInc, seq |-> cSendSeq + 1])

\* The default branch of Run's switch: tell the session we are leaving.
SendShutdown == upCtl' = Put(upCtl, cconn, Ctl("Shutdown", 0))

\* Mutant: any control message passes for a Shutdown.
AnyControlNext == downCtl[cconn] # <<>>

\* The next control message is the session's Shutdown.
ShutdownNext == downCtl[cconn] # <<>> /\ Head(downCtl[cconn]).type = "Shutdown"

-----------------------------------------------------------------------------
(* Connecting.                                                             *)

\* Mutant: the dial announces what the client sent.
DialSendSeq == cSendSeq

\* The sequence number the client passes to transport.Dial.
DialSeq == cRecvSeq

\* transport.Dial succeeded on a fresh connection: authenticated, DialSeq
\* delivered, and queued at the listener.  A dial that fails changes nothing.
Dial(k) ==
  /\ cpc = "dial"
  /\ listening
  /\ cpc' = "seqhdr"
  /\ cconn' = k
  /\ alive' = [alive EXCEPT ![k] = TRUE]
  /\ acceptQ' = Append(acceptQ, k)
  /\ lastClientSeq' = [lastClientSeq EXCEPT ![k] = DialSeq]
  /\ upCtl' = [upCtl EXCEPT ![k] = <<>>]
  /\ upData' = [upData EXCEPT ![k] = <<>>]
  /\ downCtl' = [downCtl EXCEPT ![k] = <<>>]
  /\ downData' = [downData EXCEPT ![k] = <<>>]
  /\ UNCHANGED <<listening, faults, cSendSeq, cRecvSeq, cOldest, cCoal, cInc, out>>

\* handleSequenceExchange and sendTerminalInfo: read the session's header,
\* resend what the session missed, then announce the terminal.
Exchange ==
  /\ cpc = "seqhdr"
  /\ downCtl[cconn] # <<>>
  /\ LET hdr    == Head(downCtl[cconn])
         missed == ReplaySince(cOldest, cSendSeq, hdr.n)
     IN  /\ hdr.type = "SequenceHeader"
         /\ upData' = PutAll(upData, cconn,
                        [i \in DOMAIN missed |-> [inc |-> cInc, seq |-> missed[i]]])
         /\ upCtl' = Put(upCtl, cconn, Ctl("TerminalInfo", Len(missed)))
  /\ UNCHANGED <<acceptQ, listening, lastClientSeq, faults,
                 cSendSeq, cRecvSeq, cOldest, cInc, out>>

\* The exchange is done and ioLoop starts.
SequenceExchange ==
  /\ Exchange
  /\ cpc' = "io"
  /\ downCtl' = [downCtl EXCEPT ![cconn] = Tail(@)]
  /\ UNCHANGED <<alive, downData, cconn, cCoal>>

\* The exchange is done but the terminal cannot be put in raw mode: Run
\* returns without a word to the session.
RawModeFails ==
  /\ Exchange
  /\ LeaveConn("rawModeFailed")

\* A read or write of the exchange fails: close and dial again.
SequenceExchangeFails ==
  /\ cpc = "seqhdr"
  /\ ~ alive[cconn]
  /\ LeaveConn("dial")
  /\ UNCHANGED <<acceptQ, listening, lastClientSeq, upCtl, upData, faults,
                 cSendSeq, cRecvSeq, cOldest, cInc, out>>

-----------------------------------------------------------------------------
(* ioLoop.                                                                 *)

\* A chunk from stdin; the coalescer asks for a flush at its threshold.
StdinChunk ==
  /\ cpc = "io"
  /\ cSendSeq < MaxSeq
  /\ IF cCoal + 1 >= CoalThreshold
       THEN cCoal' = 0 /\ FlushStdin
       ELSE cCoal' = cCoal + 1 /\ UNCHANGED <<cSendSeq, cOldest, upData>>
  /\ UNCHANGED <<alive, acceptQ, listening, lastClientSeq, upCtl, downCtl, downData,
                 faults, cpc, cconn, cRecvSeq, cInc, out>>

\* The coalescer's deadline.
StdinTimer ==
  /\ cpc = "io"
  /\ cCoal > 0
  /\ cCoal' = 0
  /\ FlushStdin
  /\ UNCHANGED <<alive, acceptQ, listening, lastClientSeq, upCtl, downCtl, downData,
                 faults, cpc, cconn, cRecvSeq, cInc, out>>

\* A write or read of the connection fails: exitNetwork, reconnect.
ClientConnError ==
  /\ cpc = "io"
  /\ ~ alive[cconn]
  /\ LeaveConn("dial")
  /\ UNCHANGED <<acceptQ, listening, lastClientSeq, upCtl, upData, faults,
                 cSendSeq, cRecvSeq, cOldest, cInc, out>>

\* Nothing received for recvTimeout: exitNetwork from the stdin, coalescer or
\* heartbeat case, on a connection that may still be alive.
ClientTimeout ==
  /\ cpc = "io"
  /\ Fault
  /\ LeaveConn("dial")
  /\ UNCHANGED <<acceptQ, listening, lastClientSeq, upCtl, upData,
                 cSendSeq, cRecvSeq, cOldest, cInc, out>>

ClientHeartbeat ==
  /\ cpc = "io"
  /\ alive[cconn]
  /\ Len(upCtl[cconn]) < MaxCtl
  /\ upCtl' = Put(upCtl, cconn, Ctl("Heartbeat", 0))
  /\ UNCHANGED <<alive, acceptQ, listening, lastClientSeq, upData, downCtl, downData,
                 faults, clientVars>>

\* Data from the session: stdout first, then recvSeq.
ClientData ==
  /\ cpc = "io"
  /\ downData[cconn] # <<>>
  /\ out' = Append(out, Head(downData[cconn]))
  /\ cRecvSeq' = Head(downData[cconn])
  /\ downData' = [downData EXCEPT ![cconn] = Tail(@)]
  /\ UNCHANGED <<alive, acceptQ, listening, lastClientSeq, upCtl, upData, downCtl,
                 faults, cpc, cconn, cSendSeq, cOldest, cCoal, cInc>>

ClientControlHeartbeat ==
  /\ cpc = "io"
  /\ downCtl[cconn] # <<>>
  /\ ~ ShutdownNext
  /\ downCtl' = [downCtl EXCEPT ![cconn] = Tail(@)]
  /\ UNCHANGED <<alive, acceptQ, listening, lastClientSeq, upCtl, upData, downData,
                 faults, clientVars>>

\* Shutdown from the session: drainRemainingData writes what arrives within its
\* 100ms window, j messages of it, and Run returns.
ClientControlShutdown ==
  /\ cpc = "io"
  /\ ShutdownNext
  /\ \E j \in 0 .. Len(downData[cconn]) :
       /\ out' = out \o SubSeq(downData[cconn], 1, j)
       /\ cRecvSeq' = IF j = 0 THEN cRecvSeq ELSE downData[cconn][j]
  /\ LeaveConn("exitShutdown")
  /\ UNCHANGED <<acceptQ, listening, lastClientSeq, upCtl, upData, faults,
                 cSendSeq, cOldest, cInc>>

\* A read error on the data stream, with Shutdown next on the control stream:
\* drainForShutdown looks at one control message only.
ClientDataErrorShutdown ==
  /\ cpc = "io"
  /\ ~ alive[cconn]
  /\ ShutdownNext
  /\ LeaveConn("exitShutdown")
  /\ UNCHANGED <<acceptQ, listening, lastClientSeq, upCtl, upData, faults,
                 cSendSeq, cRecvSeq, cOldest, cInc, out>>

-----------------------------------------------------------------------------
(* Leaving for good.                                                       *)

\* stdin is closed: flush, say Shutdown, close.
StdinEOF ==
  /\ cpc = "io"
  /\ IF cCoal > 0 THEN FlushStdin ELSE UNCHANGED <<cSendSeq, cOldest, upData>>
  /\ SendShutdown
  /\ LeaveConn("exitStdinEOF")
  /\ UNCHANGED <<acceptQ, listening, lastClientSeq, faults, cRecvSeq, cInc, out>>

\* stdout is broken: the Data message is consumed but neither written nor
\* acknowledged.
StdoutFails ==
  /\ cpc = "io"
  /\ downData[cconn] # <<>>
  /\ SendShutdown
  /\ LeaveConn("exitStdinEOF")
  /\ UNCHANGED <<acceptQ, listening, lastClientSeq, upData, faults,
                 cSendSeq, cRecvSeq, cOldest, cInc, out>>

\* ~. typed, or the context cancelled, while connected: no flush.
LeaveIo(reason) ==
  /\ cpc = "io"
  /\ SendShutdown
  /\ LeaveConn(reason)
  /\ UNCHANGED <<acceptQ, listening, lastClientSeq, upData, faults,
                 cSendSeq, cRecvSeq, cOldest, cInc, out>>

\* The context is cancelled while the client is dialling or waiting to retry.
CancelDial ==
  /\ cpc = "dial"
  /\ cpc' = "exitCancelled"
  /\ UNCHANGED <<connVars, cconn, cSendSeq, cRecvSeq, cOldest, cCoal, cInc, out>>

\* The client process is killed, or had exited, and a new one is started with
\* the same port and passkey: everything it knew is gone.
Restart ==
  /\ cInc < MaxInc
  /\ cInc' = cInc + 1
  /\ cpc' = "dial"
  /\ cconn' = NoConn
  /\ alive' = [k \in Conn |-> alive[k] /\ k # cconn]
  /\ downCtl' = [k \in Conn |-> IF k = cconn THEN <<>> ELSE downCtl[k]]
  /\ downData' = [k \in Conn |-> IF k = cconn THEN <<>> ELSE downData[k]]
  /\ cSendSeq' = 0
  /\ cRecvSeq' = 0
  /\ cOldest' = 1
  /\ cCoal' = 0
  /\ out' = <<>>
  /\ UNCHANGED <<acceptQ, listening, lastClientSeq, upCtl, upData, faults>>

ClientReads ==
  \/ SequenceExchange
  \/ SequenceExchangeFails
  \/ StdinTimer
  \/ ClientConnError
  \/ ClientData
  \/ ClientControlHeartbeat
  \/ ClientControlShutdown
  \/ ClientDataErrorShutdown

ClientNext ==
  \/ ClientReads
  \/ StdinChunk
  \/ ClientTimeout
  \/ ClientHeartbeat
  \/ StdinEOF
  \/ StdoutFails
  \/ LeaveIo("exitEscape")
  \/ LeaveIo("exitCancelled")
  \/ RawModeFails
  \/ CancelDial
  \/ Restart
=============================================================================

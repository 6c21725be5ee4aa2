------------------------------ MODULE UpProofs ------------------------------
(***************************************************************************)
(* Proofs for the direction from client to session: what reaches the PTY   *)
(* is in order through reconnections and client restarts, and complete     *)
(* while the first client process runs; Shutdown is only ever said by a    *)
(* session that is leaving.  And both directions implement CatchupStream,  *)
(* this one with one client process.                                       *)
(***************************************************************************)
EXTENDS UpStreams, ReconnectProofs

-----------------------------------------------------------------------------
\* Every step of the client preserves the invariants.
LEMMA UpClientStep ==
  ASSUME TypeOK, HandshakeInv, UpAll, ClientNext, UNCHANGED sessionVars
  PROVE  UpAll'
<1>a. /\ cInc \in Nat /\ cSendSeq \in Nat /\ cOldest \in Nat
      /\ cSendSeq >= cSendSeq /\ cOldest >= cOldest
      /\ alive \in [Conn -> BOOLEAN]
      /\ cpc \in {"seqhdr", "io"} => cconn \in Conn
  BY UpTypes
<1>b. UNCHANGED <<sconn, ptyIn, sRecvSeq, ptyLost>>
  BY DEF sessionVars
\* A step that sends no data and does not reach ioLoop.
<1>c. ASSUME UNCHANGED <<upData, cSendSeq, cOldest, cInc>>,
             cpc' = "io" => cpc = "io" /\ cconn' = cconn /\ alive' = alive
      PROVE  UpAll'
  BY <1>a, <1>b, <1>c, UpFrame, ZenonT(60)
<1>d. ASSUME NEW pc, LeaveConn(pc), cpc \in {"seqhdr", "io"}
      PROVE  cpc' = pc /\ \A k \in Conn : alive'[k] => alive[k]
  BY <1>a, <1>d DEF LeaveConn, CloseClientEnd
<1>1. CASE \/ SequenceExchangeFails \/ ClientConnError \/ ClientTimeout
           \/ ClientDataErrorShutdown \/ ClientControlShutdown \/ StdoutFails
           \/ LeaveIo("exitEscape") \/ LeaveIo("exitCancelled")
  BY <1>1, <1>c, ZenonT(60) DEF SequenceExchangeFails, ClientConnError, ClientTimeout,
     ClientDataErrorShutdown, ClientControlShutdown, StdoutFails, LeaveIo, LeaveConn
<1>2. CASE ClientHeartbeat \/ ClientControlHeartbeat \/ ClientData \/ CancelDial
  BY <1>2, <1>c, ZenonT(60) DEF ClientHeartbeat, ClientControlHeartbeat, ClientData,
     CancelDial,
     clientVars, connVars
<1>3. CASE SequenceExchange
  BY <1>3, <1>b, UpExchange, ZenonT(60) DEF SequenceExchange
<1>4. CASE RawModeFails
  <2>1. Exchange /\ LeaveConn("rawModeFailed") /\ cpc \in {"seqhdr", "io"}
    BY <1>4, ZenonT(60) DEF RawModeFails, Exchange
  <2>2. cpc' # "io" /\ \A k \in Conn : alive'[k] => alive[k]
    BY <1>d, <2>1
  <2> QED
    BY <1>b, <2>1, <2>2, UpExchange, ZenonT(60)
<1>5. CASE StdinChunk
  <2>1. CASE FlushStdin
    BY <1>5, <1>b, <2>1, UpFlush, ZenonT(60) DEF StdinChunk
  <2> QED
    BY <1>5, <1>c, <2>1, ZenonT(60) DEF StdinChunk
<1>6. CASE StdinTimer
  BY <1>6, <1>b, UpFlush, ZenonT(60) DEF StdinTimer
<1>7. CASE StdinEOF
  <2>1. LeaveConn("exitStdinEOF") /\ cpc = "io" /\ UNCHANGED cInc
    BY <1>7, ZenonT(60) DEF StdinEOF
  <2>2. cpc' # "io" /\ \A k \in Conn : alive'[k] => alive[k]
    BY <1>d, <2>1
  <2>3. CASE FlushStdin
    BY <1>b, <2>1, <2>2, <2>3, UpFlush, ZenonT(60)
  <2>4. CASE UNCHANGED <<cSendSeq, cOldest, upData>>
    BY <1>c, <2>1, <2>2, <2>4, ZenonT(60)
  <2> QED
    BY <1>7, <2>3, <2>4, ZenonT(60) DEF StdinEOF
<1>8. CASE Restart
  <2>1. /\ cInc' = cInc + 1 /\ cSendSeq' = 0 /\ cOldest' = 1 /\ cpc' # "io"
        /\ upData' = upData
    BY <1>8 DEF Restart
  <2>2. cInc' \in Nat /\ cInc' > cInc /\ cSendSeq' \in Nat /\ cOldest' \in Nat
    BY <1>a, <2>1
  <2> QED
    BY <1>b, <2>1, <2>2, UpFrame, ZenonT(60)
<1> QED
  BY <1>1, <1>2, <1>3, <1>4, <1>5, <1>6, <1>7, <1>8 DEF ClientNext, ClientReads

\* Every step of the session preserves the invariants.
LEMMA UpSessionStep ==
  ASSUME TypeOK, QueueInv, HandshakeInv, UpAll, SessionNext, UNCHANGED clientVars
  PROVE  UpAll'
<1>a. /\ cInc \in Nat /\ cSendSeq \in Nat /\ cOldest \in Nat
      /\ cSendSeq >= cSendSeq /\ cOldest >= cOldest
      /\ alive \in [Conn -> BOOLEAN] /\ upData \in [Conn -> Seq(UpMsg)]
      /\ cpc \in {"seqhdr", "io"} => cconn \in Conn
      /\ sconn # NoConn => sconn \in Conn
      /\ NoConn \notin Conn
  BY UpTypes
<1>b. UNCHANGED <<cpc, cconn, cInc, cSendSeq, cOldest>>
  BY DEF clientVars
\* A step that leaves the data from the client where it is.
<1>c. ASSUME UNCHANGED <<upData, ptyIn, sRecvSeq, ptyLost>>,
             \A k \in Conn : alive'[k] => alive[k],
             sconn' = sconn \/ sconn' = NoConn
      PROVE  UpAll'
  BY <1>a, <1>b, <1>c, UpFrame, ZenonT(60)
<1>d. ASSUME ExitSession, UNCHANGED <<ptyIn, sRecvSeq, ptyLost>>
      PROVE  UpAll'
  <2>1. sconn' = NoConn /\ \A k \in Conn : upData'[k] = <<>>
    BY <1>d DEF ExitSession
  <2>2. cpc' = "io" => upData'[cconn'] = <<>>
    BY <1>a, <1>b, <2>1
  <2> QED
    BY <1>a, <1>b, <1>d, <2>1, <2>2, UpFrame, ZenonT(60)
<1>e. ASSUME NEW k \in Conn, upData' = [upData EXCEPT ![k] = <<>>], ~ alive'[k],
             \A j \in Conn : alive'[j] => alive[j],
             UNCHANGED <<ptyIn, sRecvSeq, ptyLost>>, sconn' = sconn \/ sconn' = NoConn
      PROVE  UpAll'
  <2>1. \A j \in Conn : upData'[j] = upData[j] \/ (j = k /\ upData'[j] = <<>>)
    BY <1>a, <1>e
  <2>2. cpc' = "io" /\ alive'[cconn'] => /\ cpc = "io" /\ cconn' = cconn /\ alive[cconn]
                                         /\ upData'[cconn] = upData[cconn]
    BY <1>a, <1>b, <1>e, <2>1, ZenonT(60)
  <2> QED
    BY <1>a, <1>b, <1>e, <2>1, <2>2, UpFrame, ZenonT(60)
<1>1. CASE PtyData \/ PtyTimer \/ PtyClosed \/ GracefulShutdown
  <2>1. /\ UNCHANGED <<upData, ptyIn, sRecvSeq, ptyLost, alive>>
        /\ sconn' = sconn \/ sconn' = NoConn
    BY <1>1, ZenonT(60) DEF PtyData, PtyTimer, PtyClosed, GracefulShutdown, FlushCoalesced
  <2> QED
    BY <1>c, <2>1, ZenonT(60)
<1>2. CASE Accept
  <2> DEFINE k == Head(acceptQ)
  <2>1. /\ acceptQ # <<>> /\ sconn' = k /\ UNCHANGED <<upData, ptyIn, sRecvSeq, ptyLost>>
        /\ \A j \in Conn : alive'[j] => alive[j]
    BY <1>2, Zenon DEF Accept
  <2>2. 1 \in DOMAIN acceptQ /\ k = acceptQ[1] /\ k \in Conn
    BY <2>1 DEF TypeOK, ConnTypeOK
  <2> HIDE DEF k
  <2>3. upData[k] = <<>> /\ (cpc = "io" => cconn # k)
    BY <2>2, ZenonT(60) DEF QueueInv, HandshakeInv
  <2> QED
    BY <1>a, <1>b, <2>1, <2>2, <2>3, UpFrame, ZenonT(60)
<1>3. CASE FinishHandshake \/ SessionHeartbeat \/ HeartbeatFails \/ \E k \in Conn : StreamControl(k)
  BY <1>3, <1>c, ZenonT(60) DEF FinishHandshake, SessionHeartbeat, HeartbeatFails,
     StreamControl,
     sessionVars, connVars
<1>4. CASE SessionTimeout
  <2>1. /\ UNCHANGED <<upData, ptyIn, sRecvSeq, ptyLost>> /\ sconn' = NoConn
        /\ \A k \in Conn : alive'[k] => alive[k]
    BY <1>4, <1>a DEF SessionTimeout
  <2> QED
    BY <1>c, <2>1, ZenonT(60)
<1>5. CASE HandshakeFails \/ HandshakeTimeout
  <2>1. FailHandshake /\ sconn \in Conn
    BY <1>5, <1>a DEF HandshakeFails, HandshakeTimeout, TypeOK, SessionTypeOK
  <2>2. /\ upData' = [upData EXCEPT ![sconn] = <<>>] /\ ~ alive'[sconn]
        /\ \A j \in Conn : alive'[j] => alive[j]
        /\ UNCHANGED <<ptyIn, sRecvSeq, ptyLost>> /\ sconn' = NoConn
    BY <1>a, <2>1 DEF FailHandshake
  <2> QED
    BY <1>e, <2>1, <2>2, ZenonT(60)
<1>6. CASE SpawnFails \/ FinishShutdown \/ AcceptCancelled \/ \E k \in Conn : StreamShutdown(k)
  BY <1>6, <1>d, ZenonT(60) DEF SpawnFails, FinishShutdown, AcceptCancelled, StreamShutdown
<1>7. CASE \E k \in Conn : StreamData(k) \/ PtyWriteFails(k)
  <2>1. PICK k \in Conn : StreamData(k) \/ PtyWriteFails(k)
    BY <1>7
  <2>2. TakesFirst(k) /\ UNCHANGED <<alive, sconn>>
    BY <2>1, ZenonT(60) DEF StreamData, PtyWriteFails, TakesFirst, Current
  <2> QED
    BY <1>b, <2>2, UpTail, ZenonT(60)
<1>8. CASE \E k \in Conn, s \in Streams : StreamError(k, s)
  <2>1. PICK k \in Conn, s \in Streams : StreamError(k, s)
    BY <1>8
  <2>2. /\ ~ alive[k] /\ UNCHANGED <<alive, ptyIn, sRecvSeq, ptyLost>>
        /\ upData' = upData \/ upData' = [upData EXCEPT ![k] = <<>>]
        /\ sconn' = sconn \/ sconn' = NoConn
    BY <2>1, ZenonT(60) DEF StreamError
  <2> QED
    BY <1>c, <1>e, <2>2, ZenonT(60)
<1> QED
  BY <1>1, <1>2, <1>3, <1>4, <1>5, <1>6, <1>7, <1>8, ZenonT(60)
     DEF SessionNext, SessionReads, ShellDone, CtxDone

\* The invariants of this direction are inductive relative to those of the
\* connections.
LEMMA UpStep == TypeOK /\ ConnInv /\ UpAll /\ [Next]_vars => UpAll'
<1> SUFFICES ASSUME TypeOK, ConnInv, UpAll, [Next]_vars PROVE UpAll'
  BY ZenonT(60)
<1>0. QueueInv /\ HandshakeInv
  BY DEF ConnInv
<1>a. /\ cInc \in Nat /\ cSendSeq \in Nat /\ cOldest \in Nat
      /\ cSendSeq >= cSendSeq /\ cOldest >= cOldest
      /\ alive \in [Conn -> BOOLEAN] /\ upData \in [Conn -> Seq(UpMsg)]
      /\ cpc \in {"seqhdr", "io"} => cconn \in Conn
  BY UpTypes
<1>1. CASE DialStep
  <2>1. PICK k \in Conn : Unused(k) /\ Dial(k) /\ UNCHANGED sessionVars
    BY <1>1 DEF DialStep
  <2>2. /\ cpc' # "io" /\ UNCHANGED <<ptyIn, sRecvSeq, ptyLost, sconn, cInc, cSendSeq, cOldest>>
        /\ \A j \in Conn : upData'[j] = upData[j] \/ upData'[j] = <<>>
    BY <1>a, <2>1 DEF Dial, sessionVars
  <2> QED
    BY <1>a, <2>2, UpFrame, ZenonT(60)
<1>2. CASE ClientStep
  BY <1>0, <1>2, UpClientStep, ZenonT(60) DEF ClientStep
<1>3. CASE SessionStep
  BY <1>0, <1>3, UpSessionStep, ZenonT(60) DEF SessionStep
<1>4. CASE NetworkStep
  <2>1. /\ UNCHANGED <<ptyIn, sRecvSeq, ptyLost, sconn, cInc, cSendSeq, cOldest, cpc, cconn, upData>>
        /\ \A k \in Conn : alive'[k] => alive[k]
    BY <1>4, <1>a, SMTT(60) DEF NetworkStep, NetBreak, clientVars, sessionVars
  <2> QED
    BY <1>a, <2>1, UpFrame, ZenonT(60)
<1>5. CASE UNCHANGED vars
  <2>1. UNCHANGED <<ptyIn, sRecvSeq, ptyLost, sconn, cInc, cSendSeq, cOldest, cpc, cconn, upData, alive>>
    BY <1>5 DEF vars, connVars, clientVars, sessionVars
  <2> QED
    BY <1>a, <2>1, UpFrame, ZenonT(60)
<1> QED
  BY <1>1, <1>2, <1>3, <1>4, <1>5 DEF Next, Finished

-----------------------------------------------------------------------------
\* Every step preserves ShutdownInv: Shutdown is only sent by a session that is
\* leaving, and a session that is leaving never comes back.
LEMMA ShutdownStep == TypeOK /\ ShutdownInv /\ [Next]_vars => ShutdownInv'
<1> SUFFICES ASSUME TypeOK, ShutdownInv, [Next]_vars PROVE ShutdownInv'
  BY ZenonT(60)
<1> DEFINE Leaving == spc \in {"closing", "exited"}
           Clean(k) == \A i \in DOMAIN downCtl[k] : downCtl[k][i].type # "Shutdown"
<1>a. /\ downCtl \in [Conn -> Seq(CtlMsg)]
      /\ \A k \in Conn : downCtl[k] \in Seq(CtlMsg)
      /\ sconn # NoConn => sconn \in Conn
      /\ cpc \in {"seqhdr", "io"} => cconn \in Conn
      /\ NoConn \notin Conn
  BY UpTypes DEF TypeOK, ConnTypeOK
<1>b. Leaving \/ (cpc # "exitShutdown" /\ \A k \in Conn : Clean(k))
  BY ZenonT(60) DEF ShutdownInv, ShutdownIsReal
\* A session that has not begun to leave: no step but GracefulShutdown sends a
\* Shutdown, and no client has seen one.
<1>c. ASSUME Leaving' PROVE ShutdownInv'
  BY <1>c DEF ShutdownInv, ShutdownIsReal
<1>d. ASSUME cpc # "exitShutdown", \A k \in Conn : Clean(k), cpc' # "exitShutdown",
             \A k \in Conn : \/ downCtl'[k] = downCtl[k] \/ downCtl'[k] = <<>>
                             \/ downCtl[k] # <<>> /\ downCtl'[k] = Tail(downCtl[k])
                             \/ \E t \in {"SequenceHeader", "Heartbeat"}, n \in Nat :
                                  downCtl'[k] = Append(downCtl[k], Ctl(t, n))
      PROVE  ShutdownInv'
  <2>1. ASSUME NEW k \in Conn, NEW i \in DOMAIN downCtl'[k]
        PROVE  downCtl'[k][i].type # "Shutdown"
    <3>1. PICK q \in Seq(CtlMsg) : q = downCtl[k]
      BY <1>a, <2>1, ZenonT(60)
    <3>2. \A j \in DOMAIN q : q[j].type # "Shutdown"
      BY <1>d, <3>1, ZenonT(60)
    <3>3. CASE downCtl'[k] = q
      BY <2>1, <3>2, <3>3, ZenonT(60)
    <3>4. CASE downCtl'[k] = <<>>
      BY <2>1, <3>4
    <3>5. CASE q # <<>> /\ downCtl'[k] = Tail(q)
      <4>1. \A j \in DOMAIN Tail(q) : j + 1 \in DOMAIN q /\ Tail(q)[j] = q[j + 1]
        BY <3>5
      <4>2. i \in DOMAIN Tail(q) /\ downCtl'[k][i] = Tail(q)[i]
        BY <2>1, <3>5, ZenonT(60)
      <4> QED
        BY <3>2, <4>1, <4>2, ZenonT(60)
    <3>6. CASE \E t \in {"SequenceHeader", "Heartbeat"}, n \in Nat : downCtl'[k] = Append(q, Ctl(t, n))
      <4>1. PICK t \in {"SequenceHeader", "Heartbeat"}, n \in Nat : downCtl'[k] = Append(q, Ctl(t, n))
        BY <3>6
      <4>2. Ctl(t, n) \in CtlMsg /\ Ctl(t, n).type # "Shutdown"
        BY DEF Ctl, CtlMsg, CtlTypes
      <4>3. PICK m \in CtlMsg : m = Ctl(t, n) /\ m.type # "Shutdown"
        BY <4>2, ZenonT(60)
      <4>4. \A j \in DOMAIN Append(q, m) : \/ j \in DOMAIN q /\ Append(q, m)[j] = q[j]
                                           \/ Append(q, m)[j] = m
        OBVIOUS
      <4>5. i \in DOMAIN Append(q, m) /\ downCtl'[k][i] = Append(q, m)[i]
        BY <2>1, <4>1, <4>3, ZenonT(60)
      <4> QED
        BY <3>2, <4>3, <4>4, <4>5, ZenonT(60)
    <3> QED
      BY <1>d, <2>1, <3>1, <3>3, <3>4, <3>5, <3>6, ZenonT(60)
  <2> QED
    BY <1>d, <2>1, ZenonT(60) DEF ShutdownInv, ShutdownIsReal
\* Sending on a connection.
<1>e. ASSUME NEW k \in Conn, NEW t \in {"SequenceHeader", "Heartbeat"}, NEW n \in Nat,
             downCtl' = Put(downCtl, k, Ctl(t, n))
      PROVE  \A j \in Conn : downCtl'[j] = downCtl[j] \/ downCtl'[j] = Append(downCtl[j], Ctl(t, n))
  BY <1>a, <1>e, Zenon DEF Put
<1>f. CASE Leaving
  <2>1. CASE SessionStep
    <3>1. Leaving'
      BY <1>f, <2>1, Zenon DEF SessionStep, SessionNext, SessionReads, ShellDone, CtxDone,
         PtyTimer, Accept,
         FinishHandshake, HandshakeFails, FinishShutdown, StreamData, StreamControl,
         StreamShutdown,
         StreamError, PtyData, PtyClosed, HandshakeTimeout, SpawnFails, PtyWriteFails,
         SessionHeartbeat, HeartbeatFails, SessionTimeout, GracefulShutdown,
         AcceptCancelled,
         ExitSession
    <3> QED
      BY <1>c, <3>1, Zenon
  <2>2. CASE UNCHANGED spc
    BY <1>c, <1>f, <2>2
  <2> QED
    BY <2>1, <2>2, ZenonT(60) DEF Next, DialStep, ClientStep, NetworkStep, Finished, vars,
       sessionVars
<1>g. CASE ~ Leaving
  <2>0. cpc # "exitShutdown" /\ \A k \in Conn : Clean(k)
    BY <1>b, <1>g
  <2> HIDE DEF Leaving, Clean
  <2>1. CASE DialStep
    <3>1. cpc' # "exitShutdown" /\ \A j \in Conn : downCtl'[j] = downCtl[j] \/ downCtl'[j] = <<>>
      BY <1>a, <2>1 DEF DialStep, Dial
    <3> QED
      BY <1>d, <2>0, <3>1, ZenonT(60)
  <2>2. CASE NetworkStep
    BY <1>d, <2>0, <2>2, ZenonT(60) DEF NetworkStep, NetBreak, clientVars
  <2>3. CASE UNCHANGED vars
    BY <1>d, <2>0, <2>3, ZenonT(60) DEF vars, connVars, clientVars
  <2>4. CASE ClientStep
    <3>0. cpc \in {"seqhdr", "io"} => ~ ShutdownNext
      <4>1. ASSUME cpc \in {"seqhdr", "io"}, ShutdownNext PROVE FALSE
        <5>1. downCtl[cconn] \in Seq(CtlMsg) /\ downCtl[cconn] # <<>> /\ cconn \in Conn
          BY <1>a, <4>1 DEF ShutdownNext
        <5>2. Head(downCtl[cconn]) = downCtl[cconn][1] /\ 1 \in DOMAIN downCtl[cconn]
          BY <5>1
        <5> QED
          BY <2>0, <4>1, <5>1, <5>2, ZenonT(60) DEF ShutdownNext, Clean
      <4> QED
        BY <4>1
    <3>1. cpc' # "exitShutdown"
      BY <2>0, <2>4, <3>0 DEF ClientStep, ClientNext, ClientReads, SequenceExchange,
         SequenceExchangeFails,
         StdinTimer, ClientConnError, ClientData, ClientControlHeartbeat,
         ClientControlShutdown,
         ClientDataErrorShutdown, StdinChunk, ClientTimeout, ClientHeartbeat, StdinEOF,
         StdoutFails,
         LeaveIo, RawModeFails, CancelDial, Restart, LeaveConn, clientVars
    <3>2. \A k \in Conn : \/ downCtl'[k] = downCtl[k] \/ downCtl'[k] = <<>>
                          \/ downCtl[k] # <<>> /\ downCtl'[k] = Tail(downCtl[k])
      <4>1. CASE SequenceExchange \/ ClientControlHeartbeat
        <5>1. /\ cconn \in Conn /\ downCtl[cconn] # <<>>
              /\ downCtl' = [downCtl EXCEPT ![cconn] = Tail(@)]
          BY <1>a, <4>1, Zenon DEF SequenceExchange, Exchange, ClientControlHeartbeat
        <5> QED
          BY <1>a, <5>1, ZenonT(60)
      <4>2. CASE downCtl' = downCtl
        BY <4>2, ZenonT(60)
      <4>3. CASE downCtl' = [downCtl EXCEPT ![cconn] = <<>>]
        BY <1>a, <4>3, ZenonT(60)
      <4>4. CASE Restart
        BY <4>4 DEF Restart
      <4> QED
        BY <2>4, <4>1, <4>2, <4>3, <4>4, ZenonT(60) DEF ClientStep, ClientNext, ClientReads,
           SequenceExchangeFails, StdinTimer, ClientConnError, ClientData,
           ClientControlShutdown,
           ClientDataErrorShutdown, StdinChunk, ClientTimeout, ClientHeartbeat, StdinEOF,
           StdoutFails,
           LeaveIo, RawModeFails, CancelDial, LeaveConn, CloseClientEnd, connVars
    <3> QED
      BY <1>d, <2>0, <3>1, <3>2, ZenonT(60)
  <2>5. CASE SessionStep
    <3>0. cpc' # "exitShutdown"
      BY <2>0, <2>5, ZenonT(60) DEF SessionStep, clientVars
    <3>1. CASE GracefulShutdown \/ SpawnFails \/ FinishShutdown \/ AcceptCancelled
               \/ \E k \in Conn : StreamShutdown(k)
      BY <1>c, <3>1, ZenonT(60) DEF GracefulShutdown, SpawnFails, FinishShutdown,
         AcceptCancelled,
         StreamShutdown, ExitSession, Leaving
    <3>2. CASE downCtl' = downCtl
      BY <1>d, <2>0, <3>0, <3>2, ZenonT(60)
    <3>3. CASE Accept
      <4>1. /\ downCtl' = Put(downCtl, Head(acceptQ), Ctl("SequenceHeader", sRecvSeq))
            /\ Head(acceptQ) \in Conn /\ sRecvSeq \in Nat
        BY <3>3 DEF Accept, HeaderSeq, TypeOK, ConnTypeOK, SessionTypeOK
      <4>2. \A j \in Conn : \/ downCtl'[j] = downCtl[j]
                            \/ downCtl'[j] = Append(downCtl[j], Ctl("SequenceHeader", sRecvSeq))
        BY <1>e, <4>1, ZenonT(60)
      <4> QED
        BY <1>d, <2>0, <3>0, <4>1, <4>2, ZenonT(60)
    <3>4. CASE SessionHeartbeat \/ SessionTimeout
      <4>1. downCtl' = Put(downCtl, sconn, Ctl("Heartbeat", 0)) /\ sconn \in Conn /\ 0 \in Nat
        BY <1>a, <3>4 DEF SessionHeartbeat, SessionTimeout
      <4>2. \A j \in Conn : \/ downCtl'[j] = downCtl[j]
                            \/ downCtl'[j] = Append(downCtl[j], Ctl("Heartbeat", 0))
        BY <1>e, <4>1, ZenonT(60)
      <4> QED
        BY <1>d, <2>0, <3>0, <4>1, <4>2, ZenonT(60)
    <3> QED
      BY <2>5, <3>1, <3>2, <3>3, <3>4, ZenonT(60) DEF SessionStep, SessionNext,
         SessionReads, ShellDone,
         CtxDone, PtyTimer, FinishHandshake, HandshakeFails, FailHandshake, StreamData,
         StreamControl,
         StreamError, PtyData, PtyClosed, HandshakeTimeout, PtyWriteFails, HeartbeatFails,
         connVars
  <2> QED
    BY <2>1, <2>2, <2>3, <2>4, <2>5, ZenonT(60) DEF Next, Finished
<1> QED
  BY <1>f, <1>g

-----------------------------------------------------------------------------
\* The initial state satisfies the invariants.
LEMMA InitUp == Init => ConnInv /\ UpAll /\ ShutdownInv
BY DEF Init, ConnInit, ClientInit, SessionInit, ConnInv, QueueInv, BuffersInv, HandshakeInv,
   UpAll, UpInv, UpRuns, RecvIsLastIn, UpContinues, UpEnds, PtyInputInOrder,
   UpCompleteInv, UpCovers, PtyInputComplete, ShutdownInv, ShutdownIsReal, Attached

\* The invariants that make the client's input arrive: the stream the session
\* reads continues what it has written to the PTY, is a run of one client
\* process's numbers, and ends with the newest while the connection lives.
THEOREM UpInvariant == Spec => []UpAll
BY TypeCorrect, InitUp, ConnStep, UpStep, PTL DEF Spec

\* What the session writes to the PTY is in the order the user typed it, each
\* message at most once, through any number of reconnections and client
\* processes, however many stale events are still queued.
THEOREM PtyInputOrdered == Spec => []PtyInputInOrder
<1>1. UpAll => PtyInputInOrder
  BY DEF UpAll, UpInv
<1> QED
  BY <1>1, UpInvariant, PTL

\* A number the session acknowledges to its first client process is settled:
\* on the PTY, refused by it, or evicted by the client before it could be sent.
THEOREM PtyInputAcknowledged == Spec => []PtyInputComplete
<1>1. UpAll => PtyInputComplete
  BY DEF UpAll, UpCompleteInv
<1> QED
  BY <1>1, UpInvariant, PTL

\* Once the first client process is joined to the session and its stream is
\* read to the end, nothing it numbered is missing.
THEOREM NothingLostUp == Spec => []NothingMissingUp
<1>1. TypeOK /\ UpAll => NothingMissingUp
  <2> SUFFICES ASSUME TypeOK, UpAll, cInc = 1, Joined, upData[cconn] = <<>>,
                      NEW s \in 1 .. cSendSeq
               PROVE  Settled(s)
    BY ZenonT(60) DEF NothingMissingUp
  <2>1. sconn # NoConn /\ cpc = "io" /\ cconn = sconn /\ alive[cconn]
    BY UpTypes DEF Joined
  <2> QED
    BY <2>1, ZenonT(60) DEF UpAll, UpCompleteInv, UpCovers
<1> QED
  BY <1>1, UpInvariant, TypeCorrect, PTL

\* A client that exits with exitShutdown has a session that is going away.
THEOREM ShutdownAnnounced == Spec => []ShutdownIsReal
<1>1. ShutdownInv => ShutdownIsReal
  BY DEF ShutdownInv
<1> QED
  BY <1>1, TypeCorrect, InitUp, ShutdownStep, PTL DEF Spec

\* The whole inductive invariant, both directions together, for every number of
\* connections, faults, messages and client processes.
THEOREM InductiveInvariant == Spec => []IInv
<1>1. AliveInv /\ ConnInv /\ DownInv /\ UpAll /\ ShutdownInv => IInv
  BY DEF ConnInv, UpAll, IInv
<1> QED
  BY <1>1, DownInvariant, UpInvariant, TypeCorrect, InitUp, ShutdownStep, PTL DEF Spec

-----------------------------------------------------------------------------
(* Sequences.                                                              *)

\* What a concatenation is.
LEMMA Concat ==
  ASSUME NEW S, NEW s \in Seq(S), NEW t \in Seq(S)
  PROVE  /\ s \o t \in Seq(S)
         /\ Len(s \o t) = Len(s) + Len(t)
         /\ \A i \in 1 .. Len(s) + Len(t) :
              (s \o t)[i] = IF i <= Len(s) THEN s[i] ELSE t[i - Len(s)]
OBVIOUS

\* When two sequences are the same.
LEMMA SeqSame ==
  ASSUME NEW S, NEW s \in Seq(S), NEW t \in Seq(S), Len(s) = Len(t),
         \A i \in 1 .. Len(s) : s[i] = t[i]
  PROVE  s = t
OBVIOUS

-----------------------------------------------------------------------------
(* Session to client is a catchup stream.                                  *)

\* A run that arrives is a delivery of the abstract stream.
LEMMA ArrivesDelivers ==
  ASSUME TypeOK, RecvIsLastOut, NEW lo \in Nat \ {0}, NEW n \in Nat \ {0}, Arrives(lo, n),
         UNCHANGED <<sSendSeq, sOldest>>
  PROVE  Down!Deliver
<1> DEFINE r == [i \in 1 .. n |-> lo + i - 1]
           hi == lo + n - 1
<1>a. /\ cRecvSeq \in Nat /\ sSendSeq \in Nat /\ sOldest \in Nat \ {0}
      /\ out \in Seq(Nat \ {0}) /\ Len(out) \in Nat
  BY DEF TypeOK, ClientTypeOK, SessionTypeOK
<1>1. Down!Last = cRecvSeq
  BY DEF Down!Last, RecvIsLastOut
<1>2. /\ lo \in 1 .. sSendSeq /\ hi \in 1 .. sSendSeq /\ lo <= hi /\ cRecvSeq < lo
      /\ hi - lo + 1 = n
      /\ \A s \in cRecvSeq + 1 .. lo - 1 : s < sOldest
  BY <1>a DEF Arrives
<1>3. out' = out \o r
  <2>1. r \in Seq(Nat \ {0}) /\ Len(r) = n /\ \A i \in 1 .. n : r[i] = lo + i - 1
    OBVIOUS
  <2> HIDE DEF r
  <2>2. /\ out \o r \in Seq(Nat \ {0}) /\ Len(out \o r) = Len(out) + n
        /\ \A i \in 1 .. Len(out) : (out \o r)[i] = out[i]
        /\ \A i \in 1 .. n : (out \o r)[Len(out) + i] = r[i]
    <3>1. /\ out \o r \in Seq(Nat \ {0}) /\ Len(out \o r) = Len(out) + Len(r)
          /\ \A i \in 1 .. Len(out) + Len(r) :
               (out \o r)[i] = IF i <= Len(out) THEN out[i] ELSE r[i - Len(out)]
      BY <1>a, <2>1, Concat, ZenonT(60)
    <3> DEFINE c == out \o r
    <3> HIDE DEF c
    <3>2. \A i \in 1 .. Len(out) : c[i] = out[i]
      BY <1>a, <2>1, <3>1 DEF c
    <3>3. \A i \in 1 .. n : c[Len(out) + i] = r[i]
      <4> TAKE i \in 1 .. n
      <4>1. /\ Len(out) + i \in 1 .. Len(out) + Len(r) /\ ~ (Len(out) + i <= Len(out))
            /\ (Len(out) + i) - Len(out) = i
        BY <1>a, <2>1
      <4> QED
        BY <3>1, <4>1, ZenonT(60) DEF c
    <3> QED
      BY <2>1, <3>1, <3>2, <3>3 DEF c
  <2>3. \A i \in 1 .. Len(out') : out'[i] = (out \o r)[i]
    <3> TAKE i \in 1 .. Len(out')
    <3>1. CASE i \in 1 .. Len(out)
      BY <2>2, <3>1 DEF Arrives
    <3>2. CASE i \notin 1 .. Len(out)
      <4>1. i - Len(out) \in 1 .. n /\ Len(out) + (i - Len(out)) = i
        BY <1>a, <3>2 DEF Arrives
      <4>2. /\ out'[Len(out) + (i - Len(out))] = lo + (i - Len(out)) - 1
            /\ (out \o r)[Len(out) + (i - Len(out))] = lo + (i - Len(out)) - 1
        BY <2>1, <2>2, <4>1, ZenonT(60) DEF Arrives
      <4> QED
        BY <4>1, <4>2, ZenonT(60)
    <3> QED
      BY <3>1, <3>2, Zenon
  <2>4. out' \in Seq(Nat \ {0}) /\ Len(out') = Len(out \o r)
    BY <2>2 DEF Arrives
  <2> QED
    BY <2>2, <2>3, <2>4, SeqSame, ZenonT(60)
<1>4. out' = out \o [i \in 1 .. hi - lo + 1 |-> lo + i - 1]
  BY <1>2, <1>3
<1> HIDE DEF hi, r
<1> QED
  BY <1>1, <1>2, <1>4, ZenonT(60) DEF Down!Deliver

\* Numbering a batch of output is a send of the abstract stream.
LEMMA StoreSends ==
  ASSUME TypeOK, sSendSeq' = sSendSeq + 1, sOldest' \in StoreKeeps(sOldest, sSendSeq + 1),
         UNCHANGED out
  PROVE  Down!Send
BY DEF TypeOK, SessionTypeOK, StoreKeeps, Down!Send

\* Every step of the system is a step of the abstract stream or none.
LEMMA DownStreamStep ==
  TypeOK /\ DownInv /\ [Next]_vars => [Down!Next]_(Down!streamVars)
<1> SUFFICES ASSUME TypeOK, DownInv, [Next]_vars PROVE [Down!Next]_(Down!streamVars)
  OBVIOUS
<1>a. ASSUME UNCHANGED <<sSendSeq, sOldest, out>> PROVE UNCHANGED Down!streamVars
  BY <1>a DEF Down!streamVars
<1>1. CASE DialStep
  BY <1>1, <1>a DEF DialStep, Dial, sessionVars
<1>2. CASE ClientStep
  <2>a. UNCHANGED <<sSendSeq, sOldest>>
    BY <1>2 DEF ClientStep, sessionVars
  <2>1. CASE ClientData \/ ClientControlShutdown
    <3>1. CASE UNCHANGED <<out, cRecvSeq>>
      BY <1>a, <2>a, <3>1
    <3>2. ASSUME NEW lo \in Nat \ {0}, NEW n \in Nat \ {0}, Arrives(lo, n)
          PROVE  Down!Next
      BY <2>a, <3>2, ArrivesDelivers DEF DownInv, Down!Next
    <3> QED
      BY <2>1, <3>1, <3>2, ClientDelivers, ZenonT(60)
  <2>2. CASE Restart
    BY <2>2, <2>a DEF Restart, Down!Next, Down!Restart
  <2>3. CASE ~ (ClientData \/ ClientControlShutdown \/ Restart)
    <3>1. UNCHANGED out
      BY <1>2, <2>3, ZenonT(60) DEF ClientStep, ClientNext, ClientReads, RawModeFails,
         Exchange,
         SequenceExchange, SequenceExchangeFails, ClientConnError, ClientTimeout,
         ClientDataErrorShutdown, StdinEOF, StdoutFails, LeaveIo, StdinChunk, StdinTimer,
         ClientHeartbeat, ClientControlHeartbeat, CancelDial, clientVars
    <3> QED
      BY <1>a, <2>a, <3>1
  <2> QED
    BY <2>1, <2>2, <2>3
<1>3. CASE SessionStep
  <2>a. UNCHANGED out
    BY <1>3 DEF SessionStep, clientVars
  <2>1. CASE FlushCoalesced
    BY <2>a, <2>1, StoreSends DEF FlushCoalesced, Down!Next
  <2>2. CASE StoreCoalesced
    BY <1>a, <2>a, <2>2, StoreSends DEF StoreCoalesced, Down!Next
  <2>3. CASE ~ FlushCoalesced /\ ~ StoreCoalesced
    <3>1. UNCHANGED <<sSendSeq, sOldest>>
      BY <1>3, <2>3, ZenonT(60) DEF SessionStep, SessionNext, SessionReads, ShellDone,
         CtxDone,
         PtyData, PtyTimer, PtyClosed, GracefulShutdown, Accept, FinishHandshake,
         HandshakeFails,
         HandshakeTimeout, FailHandshake, SessionTimeout, HeartbeatFails, SpawnFails,
         FinishShutdown, AcceptCancelled, StreamShutdown, ExitSession, SessionHeartbeat,
         StreamData, PtyWriteFails, StreamControl, StreamError, sessionVars
    <3> QED
      BY <1>a, <2>a, <3>1
  <2> QED
    BY <2>1, <2>2, <2>3
<1>4. CASE NetworkStep
  BY <1>4, <1>a DEF NetworkStep, clientVars, sessionVars
<1>5. CASE UNCHANGED vars
  BY <1>5, <1>a DEF vars, clientVars, sessionVars
<1> QED
  BY <1>1, <1>2, <1>3, <1>4, <1>5 DEF Next, Finished

\* What the session numbers reaches the client's stdout as CatchupStream says: in
\* order, at most once, and with a hole only where the buffer had evicted, for any
\* number of connections and of client processes and over both transports
\* (session.go flushCoalesced and handleNewConn, client.go ioLoop).
THEOREM DownRefines == Spec => DownStream
<1>1. Init => Down!Init
  BY Zenon DEF Init, ClientInit, SessionInit, Down!Init
<1> QED
  BY <1>1, DownStreamStep, TypeCorrect, DownInvariant, PTL DEF Spec, DownStream, Down!Spec

-----------------------------------------------------------------------------
(* Client to session is a catchup stream, for one client process.          *)

\* The numbers on the PTY.
TypedSeqs == [i \in DOMAIN ptyIn |-> ptyIn[i].seq]

\* They are a sequence of numbers as long as ptyIn.
LEMMA TypedSeqsType ==
  ASSUME TypeOK
  PROVE  /\ TypedSeqs \in Seq(Nat \ {0}) /\ Len(TypedSeqs) = Len(ptyIn)
         /\ \A i \in 1 .. Len(ptyIn) : TypedSeqs[i] = ptyIn[i].seq
<1>1. /\ Len(ptyIn) \in Nat /\ DOMAIN ptyIn = 1 .. Len(ptyIn)
      /\ \A i \in DOMAIN ptyIn : ptyIn[i].seq \in Nat \ {0}
  BY UpTypes, Zenon
<1>2. PICK n \in Nat : n = Len(ptyIn)
  BY <1>1, Zenon
<1>3. TypedSeqs = [i \in 1 .. n |-> ptyIn[i].seq]
  BY <1>1, <1>2 DEF TypedSeqs
<1>4. \A i \in 1 .. n : ptyIn[i].seq \in Nat \ {0}
  BY <1>1, <1>2
<1> QED
  BY <1>2, <1>3, <1>4

\* recvSeq is where the abstract stream stands.
LEMMA UpLast ==
  ASSUME TypeOK, RecvIsLastIn
  PROVE  Up!Last = sRecvSeq
<1>1. Up!Last = IF TypedSeqs = <<>> THEN 0 ELSE TypedSeqs[Len(TypedSeqs)]
  BY DEF Up!Last, TypedSeqs
<1>2. ptyIn \in Seq(UpMsg) /\ Len(ptyIn) \in Nat
  BY UpTypes
<1>3. CASE ptyIn = <<>>
  <2>1. TypedSeqs = <<>>
    BY <1>2, <1>3, TypedSeqsType
  <2> QED
    BY <1>1, <1>3, <2>1 DEF RecvIsLastIn
<1>4. CASE ptyIn # <<>>
  <2>1. Len(ptyIn) \in 1 .. Len(ptyIn) /\ TypedSeqs # <<>>
    BY <1>2, <1>4, TypedSeqsType
  <2>2. TypedSeqs[Len(TypedSeqs)] = ptyIn[Len(ptyIn)].seq
    BY <2>1, TypedSeqsType, ZenonT(60)
  <2> QED
    BY <1>1, <1>4, <2>1, <2>2 DEF RecvIsLastIn
<1> QED
  BY <1>3, <1>4

\* The first message the session reads from the first client process is new, and
\* whatever it leaves out was evicted or refused.
LEMMA UpHead ==
  ASSUME TypeOK, UpAll, cInc = 1, NEW k \in Conn, Current(k), upData[k] # <<>>
  PROVE  LET h == Head(upData[k])
         IN  /\ h \in UpMsg /\ h.seq \in Nat \ {0} /\ h.seq <= cSendSeq /\ sRecvSeq < h.seq
             /\ \A s \in sRecvSeq + 1 .. h.seq - 1 :
                  s < cOldest \/ s \in {m.seq : m \in ptyLost}
<1> DEFINE h == upData[k][1]
<1>1. /\ Head(upData[k]) = h /\ 1 \in DOMAIN upData[k] /\ k = sconn /\ sconn # NoConn
  BY UpTypes, SMTT(60) DEF Current
<1>2. h \in UpMsg /\ h.inc \in Nat \ {0} /\ h.seq \in Nat \ {0} /\ cSendSeq \in Nat /\ sRecvSeq \in Nat
  BY <1>1, UpTypes, ZenonT(60)
<1>3. /\ Issued(h)
      /\ \A i \in DOMAIN ptyIn : Before(ptyIn[i], h)
      /\ \A s \in 1 .. h.seq - 1 : Settled(s)
  BY <1>1, ZenonT(60) DEF UpAll, UpInv, UpCompleteInv, UpRuns, UpContinues, UpCovers
<1> HIDE DEF h
<1>4. h.inc = 1 /\ h.seq <= cSendSeq
  BY <1>2, <1>3 DEF Issued
<1>5. sRecvSeq < h.seq
  <2>1. CASE ptyIn = <<>>
    BY <1>2, <2>1 DEF UpAll, UpInv, RecvIsLastIn
  <2>2. CASE ptyIn # <<>>
    <3>1. Len(ptyIn) \in DOMAIN ptyIn /\ sRecvSeq = ptyIn[Len(ptyIn)].seq
      BY <2>2, UpTypes, SMTT(60) DEF UpAll, UpInv, RecvIsLastIn
    <3>2. Before(ptyIn[Len(ptyIn)], h) /\ ptyIn[Len(ptyIn)].inc \in Nat \ {0}
      BY <1>3, <3>1, UpTypes, ZenonT(60)
    <3> QED
      BY <1>2, <1>4, <3>1, <3>2 DEF Before
  <2> QED
    BY <2>1, <2>2
<1>6. ASSUME NEW s \in sRecvSeq + 1 .. h.seq - 1
      PROVE  s < cOldest \/ s \in {m.seq : m \in ptyLost}
  <2>1. s \in 1 .. h.seq - 1 /\ s > sRecvSeq /\ s \in Nat
    BY <1>2, <1>6
  <2>2. Settled(s)
    BY <1>3, <2>1, ZenonT(60)
  <2>3. CASE [inc |-> cInc, seq |-> s] \in ptyLost
    <3>1. [inc |-> cInc, seq |-> s].seq = s
      OBVIOUS
    <3> QED
      BY <2>3, <3>1, ZenonT(60)
  <2>4. ~ Typed([inc |-> cInc, seq |-> s])
    <3> SUFFICES ASSUME NEW i \in DOMAIN ptyIn, ptyIn[i] = [inc |-> cInc, seq |-> s]
                 PROVE  FALSE
      BY DEF Typed
    <3>1. ptyIn[i].inc = cInc /\ ptyIn[i].seq = s
      OBVIOUS
    <3>2. s <= sRecvSeq
      BY <3>1, RecvBounds DEF UpAll, UpInv
    <3> QED
      BY <1>2, <2>1, <3>2
  <2> QED
    BY <2>2, <2>3, <2>4, ZenonT(60) DEF Settled
<1> QED
  BY <1>1, <1>2, <1>4, <1>5, <1>6, ZenonT(60)

\* Reading it is a delivery of the abstract stream.
LEMMA StreamDataDelivers ==
  ASSUME TypeOK, UpAll, cInc = 1, NEW k \in Conn, Current(k), StreamData(k),
         UNCHANGED <<cSendSeq, cOldest>>
  PROVE  Up!Deliver
<1> DEFINE h == Head(upData[k])
           q == h.seq
<1>1. /\ h \in UpMsg /\ q \in Nat \ {0} /\ q <= cSendSeq /\ sRecvSeq < q
      /\ \A s \in sRecvSeq + 1 .. q - 1 : s < cOldest \/ s \in {m.seq : m \in ptyLost}
  BY UpHead DEF StreamData
<1>2. ptyIn' = Append(ptyIn, h) /\ ptyLost' = ptyLost
  BY DEF StreamData
<1>3. ptyIn \in Seq(UpMsg) /\ Len(ptyIn) \in Nat /\ cSendSeq \in Nat /\ sRecvSeq \in Nat
  BY UpTypes
<1> HIDE DEF h
<1>4. TypedSeqs' = TypedSeqs \o <<q>>
  <2>1. /\ ptyIn' \in Seq(UpMsg) /\ Len(ptyIn') = Len(ptyIn) + 1
        /\ DOMAIN ptyIn' = 1 .. Len(ptyIn) + 1
        /\ \A i \in 1 .. Len(ptyIn) : ptyIn'[i] = ptyIn[i]
        /\ ptyIn'[Len(ptyIn) + 1] = h
    BY <1>1, <1>2, <1>3
  <2>2. TypedSeqs' = [i \in 1 .. Len(ptyIn) + 1 |-> ptyIn'[i].seq]
    BY <2>1 DEF TypedSeqs
  <2>3. PICK n \in Nat : n = Len(ptyIn)
    BY <1>3
  <2>4. PICK t \in Seq(Nat \ {0}) : t = TypedSeqs
    BY TypedSeqsType
  <2>5. /\ Len(t) = n /\ \A i \in 1 .. n : t[i] = ptyIn[i].seq
    BY <2>3, <2>4, TypedSeqsType
  <2>6. PICK u : u = [i \in 1 .. n + 1 |-> ptyIn'[i].seq]
    BY Zenon
  <2>7. /\ \A i \in 1 .. n : u[i] = t[i]
        /\ u[n + 1] = q
    BY <2>1, <2>3, <2>5, <2>6
  <2>8. \A i \in 1 .. n + 1 : ptyIn'[i].seq \in Nat \ {0}
    BY <1>1, <2>1, <2>3, <2>5
  <2>9. PICK l \in Nat : l = n + 1
    OBVIOUS
  <2>10. u \in Seq(Nat \ {0}) /\ Len(u) = n + 1
    <3>1. u = [i \in 1 .. l |-> ptyIn'[i].seq] /\ \A i \in 1 .. l : ptyIn'[i].seq \in Nat \ {0}
      BY <2>6, <2>8, <2>9
    <3> QED
      BY <2>9, <3>1
  <2> HIDE DEF q
  <2>11. u = t \o <<q>>
    <3>1. /\ t \o <<q>> \in Seq(Nat \ {0}) /\ Len(t \o <<q>>) = n + 1
          /\ \A i \in 1 .. n : (t \o <<q>>)[i] = t[i]
          /\ (t \o <<q>>)[n + 1] = q
      BY <1>1, <2>5
    <3>2. \A i \in 1 .. n + 1 : u[i] = (t \o <<q>>)[i]
      BY <2>7, <3>1
    <3> QED
      BY <2>10, <3>1, <3>2, SeqSame, ZenonT(60)
  <2> QED
    BY <2>2, <2>3, <2>4, <2>6, <2>11
<1>5. <<q>> = [i \in 1 .. q - q + 1 |-> q + i - 1]
  BY <1>1
<1>6. Up!Last = sRecvSeq
  BY UpLast DEF UpAll, UpInv
<1>7. q \in 1 .. cSendSeq /\ Up!Last < q /\ q <= q
  BY <1>1, <1>3, <1>6
<1>8. \A s \in Up!Last + 1 .. q - 1 : s < cOldest \/ s \in {m.seq : m \in ptyLost}
  BY <1>1, <1>6, ZenonT(60)
<1>9. [i \in DOMAIN ptyIn' |-> ptyIn'[i].seq]
        = [i \in DOMAIN ptyIn |-> ptyIn[i].seq] \o [i \in 1 .. q - q + 1 |-> q + i - 1]
  BY <1>4, <1>5, ZenonT(60) DEF TypedSeqs
<1>10. {m.seq : m \in ptyLost'} = {m.seq : m \in ptyLost}
  BY <1>2
<1> HIDE DEF q
<1> QED
  BY <1>7, <1>8, <1>9, <1>10, ZenonT(60) DEF Up!Deliver

\* A write that fails is a refusal of the abstract stream.
LEMMA PtyWriteFailsRefuses ==
  ASSUME TypeOK, UpAll, cInc = 1, NEW k \in Conn, PtyWriteFails(k),
         UNCHANGED <<cSendSeq, cOldest>>
  PROVE  Up!Refuse
<1> DEFINE h == Head(upData[k])
<1>1. h.seq \in Nat \ {0} /\ h.seq <= cSendSeq /\ sRecvSeq < h.seq
  BY UpHead DEF PtyWriteFails
<1>2. ptyLost' = ptyLost \cup {h} /\ ptyIn' = ptyIn
  BY DEF PtyWriteFails
<1>3. Up!Last = sRecvSeq /\ cSendSeq \in Nat /\ sRecvSeq \in Nat
  BY UpLast, UpTypes DEF UpAll, UpInv
<1> HIDE DEF h
<1>4. {m.seq : m \in ptyLost'} = {m.seq : m \in ptyLost} \cup {h.seq}
  BY <1>2
<1>5. h.seq \in Up!Last + 1 .. cSendSeq
  BY <1>1, <1>3
<1> QED
  BY <1>2, <1>4, <1>5, ZenonT(60) DEF Up!Refuse

\* Numbering a batch of keys is a send of the abstract stream.
LEMMA FlushStdinSends ==
  ASSUME TypeOK, FlushStdin, UNCHANGED <<ptyIn, ptyLost>>
  PROVE  Up!Send
<1>1. cSendSeq \in Nat /\ cOldest \in Nat \ {0}
  BY UpTypes
<1> QED
  BY <1>1 DEF FlushStdin, StoreKeeps, Up!Send

\* Every step of the first client process and its session is a step of the
\* abstract stream or none.
LEMMA UpStreamStep ==
  ASSUME MaxInc = 1
  PROVE  TypeOK /\ UpAll /\ cInc = 1 /\ [Next]_vars => [Up!Next]_(Up!streamVars)
<1> SUFFICES ASSUME TypeOK, UpAll, cInc = 1, [Next]_vars PROVE [Up!Next]_(Up!streamVars)
  OBVIOUS
<1>a. ASSUME UNCHANGED <<cSendSeq, cOldest, ptyIn, ptyLost>> PROVE UNCHANGED Up!streamVars
  BY <1>a DEF Up!streamVars
<1>1. CASE DialStep
  BY <1>1, <1>a DEF DialStep, Dial, sessionVars
<1>2. CASE ClientStep
  <2>a. UNCHANGED <<ptyIn, ptyLost>>
    BY <1>2 DEF ClientStep, sessionVars
  <2>1. CASE FlushStdin
    BY <2>a, <2>1, FlushStdinSends DEF Up!Next
  <2>2. ~ Restart
    BY DEF Restart
  <2>3. CASE ~ FlushStdin
    <3>1. UNCHANGED <<cSendSeq, cOldest>>
      BY <1>2, <2>2, <2>3, ZenonT(60) DEF ClientStep, ClientNext, ClientReads, RawModeFails,
         Exchange, SequenceExchange, SequenceExchangeFails, ClientConnError, ClientTimeout,
         ClientData, ClientControlShutdown, ClientDataErrorShutdown, StdinEOF, StdoutFails,
         LeaveIo, StdinChunk, StdinTimer, ClientHeartbeat, ClientControlHeartbeat,
         CancelDial,
         clientVars
    <3> QED
      BY <1>a, <2>a, <3>1
  <2> QED
    BY <2>1, <2>3
<1>3. CASE SessionStep
  <2>a. UNCHANGED <<cSendSeq, cOldest>>
    BY <1>3 DEF SessionStep, clientVars
  <2>1. ASSUME NEW k \in Conn, StreamData(k) PROVE [Up!Next]_(Up!streamVars)
    <3>1. CASE Current(k)
      BY <2>a, <2>1, <3>1, StreamDataDelivers DEF Up!Next
    <3>2. CASE ~ Current(k)
      BY <1>a, <2>a, <2>1, <3>2 DEF StreamData
    <3> QED
      BY <3>1, <3>2
  <2>2. ASSUME NEW k \in Conn, PtyWriteFails(k) PROVE Up!Next
    BY <2>a, <2>2, PtyWriteFailsRefuses DEF Up!Next
  <2>3. CASE \A k \in Conn : ~ StreamData(k) /\ ~ PtyWriteFails(k)
    <3>1. UNCHANGED <<ptyIn, ptyLost>>
      BY <1>3, <2>3, ZenonT(60) DEF SessionStep, SessionNext, SessionReads, ShellDone,
         CtxDone,
         PtyData, PtyTimer, PtyClosed, GracefulShutdown, Accept, FinishHandshake,
         HandshakeFails,
         HandshakeTimeout, FailHandshake, SessionTimeout, HeartbeatFails, SpawnFails,
         FinishShutdown, AcceptCancelled, StreamShutdown, ExitSession, SessionHeartbeat,
         StreamControl, StreamError, sessionVars
    <3> QED
      BY <1>a, <2>a, <3>1
  <2> QED
    BY <2>1, <2>2, <2>3
<1>4. CASE NetworkStep
  BY <1>4, <1>a DEF NetworkStep, clientVars, sessionVars
<1>5. CASE UNCHANGED vars
  BY <1>5, <1>a DEF vars, clientVars, sessionVars
<1> QED
  BY <1>1, <1>2, <1>3, <1>4, <1>5 DEF Next, Finished

\* The client process is the first one.
FirstProcess == cInc = 1

\* With MaxInc = 1 there is no restart.
LEMMA OneProcess ==
  ASSUME MaxInc = 1
  PROVE  FirstProcess /\ [Next]_vars => FirstProcess'
<1> SUFFICES ASSUME cInc = 1, [Next]_vars PROVE cInc' = 1
  BY DEF FirstProcess
<1>1. CASE DialStep
  BY <1>1 DEF DialStep, Dial
<1>2. CASE ClientStep
  <2>1. ~ Restart
    BY DEF Restart
  <2> QED
    BY <1>2, <2>1, ZenonT(60) DEF ClientStep, ClientNext, ClientReads, RawModeFails,
       Exchange,
       SequenceExchange, SequenceExchangeFails, ClientConnError, ClientTimeout, ClientData,
       ClientControlShutdown, ClientDataErrorShutdown, StdinEOF, StdoutFails, LeaveIo,
       StdinChunk,
       StdinTimer, ClientHeartbeat, ClientControlHeartbeat, CancelDial, LeaveConn,
       FlushStdin,
       clientVars
<1>3. CASE SessionStep \/ NetworkStep \/ UNCHANGED vars
  BY <1>3 DEF SessionStep, NetworkStep, vars, clientVars
<1> QED
  BY <1>1, <1>2, <1>3 DEF Next, Finished

\* What one client process numbers reaches the PTY as CatchupStream says: in
\* order, at most once, and with a hole only where the client's buffer had
\* evicted or the PTY refused a write, over both transports (client.go
\* handleSequenceExchange and flushStdinCoalesced, session.go handleStreamEvent).
THEOREM UpRefines ==
  ASSUME MaxInc = 1
  PROVE  Spec => UpStream
<1>1. Init => Up!Init /\ FirstProcess
  BY DEF Init, ClientInit, SessionInit, Up!Init, FirstProcess
<1>2. TypeOK /\ UpAll /\ FirstProcess /\ [Next]_vars => [Up!Next]_(Up!streamVars)
  BY UpStreamStep DEF FirstProcess
<1>3. FirstProcess /\ [Next]_vars => FirstProcess'
  BY OneProcess
<1> QED
  BY <1>1, <1>2, <1>3, TypeCorrect, UpInvariant, PTL DEF Spec, UpStream, Up!Spec
=============================================================================

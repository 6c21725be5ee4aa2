-------------------------- MODULE ReconnectProofs ---------------------------
(***************************************************************************)
(* The part of the inductive invariant that is about connections, through  *)
(* the steps of the session and of the whole system; and the direction from*)
(* session to client: stdout is in order and complete.                     *)
(***************************************************************************)
EXTENDS ReconnectTypes

-----------------------------------------------------------------------------
(* Connections: the steps of the session, and of the whole system.         *)

\* Every step of the session preserves ConnInv.
LEMMA ConnSessionStep ==
  ASSUME TypeOK, ConnInv, SessionNext, UNCHANGED clientVars
  PROVE  ConnInv'
<1>a. /\ NoConn \notin Conn
      /\ Attached => cconn \in Conn
      /\ sconn # NoConn => sconn \in Conn
      /\ spc = "handshake" => sconn \in Conn
      /\ alive \in [Conn -> BOOLEAN]
      /\ upCtl \in [Conn -> Seq(CtlMsg)]
      /\ upData \in [Conn -> Seq(UpMsg)]
      /\ downCtl \in [Conn -> Seq(CtlMsg)]
      /\ downData \in [Conn -> Seq(Nat \ {0})]
      /\ readers \in [Conn -> SUBSET Streams]
      /\ acceptQ \in Seq(Conn)
      /\ sSendSeq \in Nat /\ sOldest \in Nat \ {0} /\ sRecvSeq \in Nat
  BY ConnectionsAssumption, SMTT(60) DEF TypeOK, ConnTypeOK, ClientTypeOK, SessionTypeOK
<1>b. QueueInv /\ BuffersInv /\ HandshakeInv
  BY DEF ConnInv
<1>c. UNCHANGED <<cpc, cconn, cSendSeq, cRecvSeq, cOldest>> /\ Attached' = Attached
  BY DEF clientVars, Attached
\* A step of the event loop that takes no new connection.
<1>d. ASSUME spc = "loop", spc' # "handshake", UNCHANGED <<acceptQ, lastClientSeq>>,
             sconn' = sconn \/ sconn' = NoConn,
             \A k \in Conn : /\ readers[k] = {} => readers'[k] = {}
                             /\ upCtl[k] = <<>> => upCtl'[k] = <<>>
                             /\ upData[k] = <<>> => upData'[k] = <<>>
                             /\ k # sconn => /\ downCtl'[k] = downCtl[k]
                                             /\ downData'[k] = downData[k]
      PROVE  QueueInv' /\ HandshakeInv'
  <2>1. \A j \in DOMAIN acceptQ : acceptQ[j] \in Conn
    BY <1>a
  <2>2. QueueInv'
    <3>1. \A i, j \in DOMAIN acceptQ' : acceptQ'[i] = acceptQ'[j] => i = j
      BY <1>b, <1>d DEF QueueInv
    <3>2. ASSUME NEW i \in DOMAIN acceptQ
          PROVE  /\ acceptQ[i] # sconn'
                 /\ readers'[acceptQ[i]] = {}
                 /\ downCtl'[acceptQ[i]] = <<>>
                 /\ downData'[acceptQ[i]] = <<>>
                 /\ upData'[acceptQ[i]] = <<>>
      <4> DEFINE q == acceptQ[i]
      <4>1. /\ q \in Conn /\ q # sconn /\ readers[q] = {} /\ downCtl[q] = <<>>
            /\ downData[q] = <<>> /\ upData[q] = <<>>
        BY <1>b, <2>1 DEF QueueInv
      <4> HIDE DEF q
      <4>2. q # sconn' /\ readers'[q] = {} /\ downCtl'[q] = <<>> /\ downData'[q] = <<>>
            /\ upData'[q] = <<>>
        BY <1>a, <1>d, <4>1, ZenonT(60)
      <4> QED
        BY <4>2 DEF q
    <3> QED
      BY <1>d, <3>1, <3>2 DEF QueueInv
  <2>3. cpc = "seqhdr" => cconn # sconn /\ cconn \in Conn
    BY <1>a, <1>b, <1>d DEF HandshakeInv, Attached
  <2>4. Unreplayed(cconn)' => Unreplayed(cconn)
    BY <1>c, <1>d DEF Unreplayed
  <2>5. HandshakeInv'
    BY <1>a, <1>b, <1>c, <1>d, <2>3, <2>4, ZenonT(60) DEF HandshakeInv
  <2> QED
    BY <2>2, <2>5
<1>e. ASSUME FlushCoalesced
      PROVE  /\ BuffersInv'
             /\ sconn' = sconn \/ sconn' = NoConn
             /\ \A k \in Conn : k # sconn => downData'[k] = downData[k]
  <2>1. BuffersInv'
    BY <1>a, <1>b, <1>c, <1>e, StoreKeepsType DEF FlushCoalesced, BuffersInv
  <2> QED
    BY <1>a, <1>e, <2>1 DEF FlushCoalesced, Put
<1>f. ASSUME UNCHANGED <<sSendSeq, sOldest>> PROVE BuffersInv'
  BY <1>b, <1>c, <1>f DEF BuffersInv
<1>g. ASSUME FailHandshake, spc = "handshake"
      PROVE  ConnInv'
  <2>1. QueueInv'
    <3>1. \A i, j \in DOMAIN acceptQ' : acceptQ'[i] = acceptQ'[j] => i = j
      BY <1>b, <1>g DEF FailHandshake, QueueInv
    <3>2. ASSUME NEW i \in DOMAIN acceptQ
          PROVE  /\ acceptQ[i] # sconn'
                 /\ readers'[acceptQ[i]] = {}
                 /\ downCtl'[acceptQ[i]] = <<>>
                 /\ downData'[acceptQ[i]] = <<>>
                 /\ upData'[acceptQ[i]] = <<>>
      <4> DEFINE q == acceptQ[i]
      <4>1. q \in Conn
        BY <1>a
      <4>2. /\ q # sconn /\ readers[q] = {} /\ downCtl[q] = <<>>
            /\ downData[q] = <<>> /\ upData[q] = <<>>
        BY <1>b DEF QueueInv
      <4> HIDE DEF q
      <4>3. q # sconn' /\ readers'[q] = {} /\ downCtl'[q] = <<>> /\ downData'[q] = <<>>
        BY <1>a, <1>g, <4>1, <4>2 DEF FailHandshake
      <4>4. upData'[q] = <<>>
        BY <1>a, <1>g, <4>1, <4>2 DEF FailHandshake
      <4> QED
        BY <4>3, <4>4 DEF q
    <3>3. acceptQ' = acceptQ
      BY <1>g DEF FailHandshake
    <3> QED
      BY <3>1, <3>2, <3>3 DEF QueueInv
  <2>2. HandshakeInv'
    BY <1>a, <1>b, <1>c, <1>g, ZenonT(60) DEF FailHandshake, HandshakeInv, Unreplayed,
       Attached
  <2> QED
    BY <1>f, <1>g, <2>1, <2>2 DEF FailHandshake, ConnInv
<1>h. ASSUME ExitSession, UNCHANGED <<lastClientSeq, sSendSeq, sOldest>>
      PROVE  ConnInv'
  BY <1>a, <1>b, <1>c, <1>f, <1>h DEF ExitSession, ConnInv, QueueInv, HandshakeInv,
     Unreplayed, Attached
<1>1. CASE PtyData
  <2>1. QueueInv' /\ HandshakeInv'
    BY <1>1, <1>a, <1>d, <1>e, SMTT(60) DEF PtyData
  <2> QED
    BY <1>1, <1>e, <1>f, <2>1 DEF PtyData, ConnInv
<1>2. CASE PtyTimer
  <2>1. QueueInv' /\ HandshakeInv'
    BY <1>2, <1>a, <1>d, <1>e DEF PtyTimer
  <2> QED
    BY <1>2, <1>e, <1>f, <2>1 DEF PtyTimer, ConnInv
<1>3. CASE PtyClosed
  <2>1. QueueInv' /\ HandshakeInv'
    BY <1>3, <1>a, <1>d, <1>e DEF PtyClosed
  <2> QED
    BY <1>3, <1>e, <1>f, <2>1 DEF PtyClosed, ConnInv
<1>4. CASE Accept
  <2> DEFINE k == Head(acceptQ)
  <2>1. k = acceptQ[1] /\ 1 \in DOMAIN acceptQ /\ k \in Conn /\ acceptQ' = Tail(acceptQ)
    BY <1>4, <1>a DEF Accept
  <2>2. /\ sconn' = k /\ spc' = "handshake" /\ spc = "loop"
        /\ downCtl' = Put(downCtl, k, Ctl("SequenceHeader", sRecvSeq))
        /\ downData' = downData
        /\ UNCHANGED <<lastClientSeq, upCtl, upData, readers, sRecvSeq>>
    BY <1>4 DEF Accept, StoreCoalesced, HeaderSeq
  <2>3. \A j \in DOMAIN acceptQ' : j + 1 \in DOMAIN acceptQ /\ acceptQ'[j] = acceptQ[j + 1]
    BY <1>a, <2>1
  <2> HIDE DEF k
  <2>4. \A j \in DOMAIN acceptQ' : acceptQ'[j] # k /\ acceptQ'[j] \in Conn
    BY <1>a, <1>b, <2>1, <2>3, SMTT(60) DEF QueueInv
  <2>5. QueueInv'
    <3>1. \A j \in DOMAIN acceptQ' : downCtl'[acceptQ'[j]] = downCtl[acceptQ'[j]]
      BY <1>a, <2>1, <2>2, <2>4, ZenonT(60) DEF Put
    <3>2. \A i, j \in DOMAIN acceptQ' : acceptQ'[i] = acceptQ'[j] => i = j
      <4> SUFFICES ASSUME NEW i \in DOMAIN acceptQ', NEW j \in DOMAIN acceptQ',
                          acceptQ'[i] = acceptQ'[j]
                   PROVE  i = j
        OBVIOUS
      <4>1. i + 1 = j + 1
        BY <1>b, <2>3 DEF QueueInv
      <4>2. i \in Int /\ j \in Int
        BY <1>a, <2>1
      <4> QED
        BY <4>1, <4>2
    <3>3. \A j \in DOMAIN acceptQ' : /\ readers'[acceptQ'[j]] = {}
                                    /\ downCtl[acceptQ'[j]] = <<>>
                                    /\ downData'[acceptQ'[j]] = <<>>
                                    /\ upData'[acceptQ'[j]] = <<>>
      <4> TAKE j \in DOMAIN acceptQ'
      <4>1. PICK i \in DOMAIN acceptQ : acceptQ'[j] = acceptQ[i]
        BY <2>3
      <4>2. /\ readers[acceptQ[i]] = {} /\ downCtl[acceptQ[i]] = <<>>
            /\ downData[acceptQ[i]] = <<>> /\ upData[acceptQ[i]] = <<>>
        BY <1>b DEF QueueInv
      <4> QED
        BY <2>2, <4>1, <4>2
    <3> QED
      BY <2>2, <2>4, <3>1, <3>2, <3>3, SMTT(60) DEF QueueInv
  <2>6. downData[k] = <<>> /\ downCtl[k] = <<>>
    BY <1>b, <2>1, SMTT(60) DEF QueueInv
  <2>7. Unreplayed(cconn)' => Unreplayed(cconn)
    BY <1>c, <2>1, <2>2, <2>3 DEF Unreplayed
  <2>8. cpc = "io" => \A j \in DOMAIN acceptQ' : acceptQ'[j] # cconn
    BY <1>b, <2>3 DEF HandshakeInv
  <2>9. downCtl'[k] # <<>> => Head(downCtl'[k]).n = sRecvSeq
    <3>1. downCtl'[k] = IF alive[k] THEN Append(<<>>, Ctl("SequenceHeader", sRecvSeq)) ELSE <<>>
      BY <1>a, <2>1, <2>2, <2>6 DEF Put
    <3>2. Ctl("SequenceHeader", sRecvSeq).n = sRecvSeq
      BY DEF Ctl
    <3>3. Head(Append(<<>>, Ctl("SequenceHeader", sRecvSeq))) = Ctl("SequenceHeader", sRecvSeq)
      BY SMTT(60)
    <3> QED
      BY <3>1, <3>2, <3>3
  <2>10. HandshakeInv'
    <3>1. downData'[sconn'] = <<>>
      BY <2>2, <2>6
    <3>2. Attached' /\ Unreplayed(cconn)' => lastClientSeq'[cconn'] = cRecvSeq'
      BY <1>b, <1>c, <2>2, <2>7, ZenonT(60) DEF HandshakeInv
    <3>3. cpc' = "io" => \A j \in DOMAIN acceptQ' : acceptQ'[j] # cconn'
      BY <1>c, <2>8
    <3>4. cpc' = "seqhdr" => upCtl'[cconn'] = <<>> /\ upData'[cconn'] = <<>>
      BY <1>b, <1>c, <2>2, ZenonT(60) DEF HandshakeInv
    <3>5. cconn' = sconn' /\ downCtl'[cconn'] # <<>> => Head(downCtl'[cconn']).n = sRecvSeq'
      BY <1>c, <2>2, <2>9, ZenonT(60)
    <3>6. spc' = "handshake"
      BY <2>2
    <3> QED
      BY <3>1, <3>2, <3>3, <3>4, <3>5, <3>6, ZenonT(60) DEF HandshakeInv, Unreplayed
  <2>11. BuffersInv'
    BY <1>4, <1>a, <1>b, <1>c, StoreKeepsType DEF Accept, StoreCoalesced, BuffersInv
  <2> QED
    BY <2>5, <2>10, <2>11 DEF ConnInv
<1>5. CASE FinishHandshake
  <2>1. /\ sconn \in Conn /\ spc = "handshake" /\ spc' = "loop"
        /\ upCtl[sconn] # <<>>
        /\ upCtl' = [upCtl EXCEPT ![sconn] = Tail(@)]
        /\ readers' = [readers EXCEPT ![sconn] = Streams]
        /\ UNCHANGED <<acceptQ, lastClientSeq, upData, downCtl, sconn, sRecvSeq, sSendSeq, sOldest>>
    BY <1>5, <1>a DEF FinishHandshake, GotTerminalInfo
  <2>2. \A k \in Conn : k # sconn => downData'[k] = downData[k]
    BY <1>5, <1>a, <2>1, SMTT(60) DEF FinishHandshake, PutAll
  <2>3. \A j \in DOMAIN acceptQ : acceptQ[j] \in Conn /\ acceptQ[j] # sconn
    BY <1>a, <1>b, SMTT(60) DEF QueueInv
  <2>4. QueueInv'
    BY <1>a, <1>b, <2>1, <2>2, <2>3, ZenonT(60) DEF QueueInv
  <2>5. cpc = "seqhdr" => cconn # sconn /\ cconn \in Conn
    BY <1>a, <1>b, <2>1 DEF HandshakeInv, Attached
  <2>6. Unreplayed(cconn)' => Unreplayed(cconn)
    BY <1>c, <2>1 DEF Unreplayed
  <2>7. HandshakeInv'
    BY <1>a, <1>b, <1>c, <2>1, <2>5, <2>6 DEF HandshakeInv
  <2> QED
    BY <1>f, <2>1, <2>4, <2>7 DEF ConnInv
<1>6. CASE HandshakeFails
  BY <1>6, <1>g DEF HandshakeFails
<1>7. CASE HandshakeTimeout
  BY <1>7, <1>g DEF HandshakeTimeout
<1>8. CASE SpawnFails
  BY <1>8, <1>h, SMTT(60) DEF SpawnFails
<1>9. CASE \E k \in Conn : StreamData(k)
  <2>1. QueueInv' /\ HandshakeInv'
    BY <1>9, <1>a, <1>d, <1>e, SMTT(60) DEF StreamData
  <2> QED
    BY <1>9, <1>e, <1>f, <2>1, ZenonT(60) DEF StreamData, ConnInv
<1>10. CASE \E k \in Conn : PtyWriteFails(k)
  <2>1. QueueInv' /\ HandshakeInv'
    BY <1>10, <1>a, <1>d, <1>e, SMTT(60) DEF PtyWriteFails
  <2> QED
    BY <1>10, <1>e, <1>f, <2>1 DEF PtyWriteFails, ConnInv
<1>11. CASE \E k \in Conn : StreamControl(k)
  <2>1. QueueInv' /\ HandshakeInv'
    BY <1>11, <1>a, <1>d, <1>e, SMTT(60) DEF StreamControl, sessionVars
  <2> QED
    BY <1>11, <1>e, <1>f, <2>1 DEF StreamControl, ConnInv, sessionVars
<1>12. CASE \E k \in Conn : StreamShutdown(k)
  BY <1>12, <1>h, SMTT(60) DEF StreamShutdown
<1>13. CASE \E k \in Conn, s \in Streams : StreamError(k, s)
  <2>1. QueueInv' /\ HandshakeInv'
    BY <1>13, <1>a, <1>d, <1>e, SMTT(60) DEF StreamError
  <2> QED
    BY <1>13, <1>e, <1>f, <2>1, SMTT(60) DEF StreamError, ConnInv
<1>14. CASE SessionHeartbeat
  <2>1. QueueInv' /\ HandshakeInv'
    BY <1>14, <1>a, <1>d, <1>e, SMTT(60) DEF SessionHeartbeat, sessionVars, Put
  <2> QED
    BY <1>14, <1>e, <1>f, <2>1, SMTT(60) DEF SessionHeartbeat, ConnInv, sessionVars, Put
<1>15. CASE HeartbeatFails
  <2>1. QueueInv' /\ HandshakeInv'
    BY <1>15, <1>a, <1>d, <1>e, SMTT(60) DEF HeartbeatFails, connVars
  <2> QED
    BY <1>15, <1>e, <1>f, <2>1, ZenonT(60) DEF HeartbeatFails, ConnInv, connVars
<1>16. CASE SessionTimeout
  <2>1. QueueInv' /\ HandshakeInv'
    BY <1>16, <1>a, <1>d, <1>e, SMTT(60) DEF SessionTimeout, Put
  <2> QED
    BY <1>16, <1>e, <1>f, <2>1, SMTT(60) DEF SessionTimeout, ConnInv, Put
<1>17. CASE GracefulShutdown
  <2>1. QueueInv' /\ HandshakeInv'
    BY <1>17, <1>a, <1>d, <1>e DEF GracefulShutdown, Put
  <2> QED
    BY <1>17, <1>e, <1>f, <2>1, ZenonT(60) DEF GracefulShutdown, ConnInv, Put
<1>18. CASE FinishShutdown
  BY <1>18, <1>h DEF FinishShutdown
<1>19. CASE AcceptCancelled
  BY <1>19, <1>h DEF AcceptCancelled
<1> QED
  BY <1>1, <1>2, <1>3, <1>4, <1>5, <1>6, <1>7, <1>8, <1>9, <1>10, <1>11, <1>12, <1>13,
     <1>14, <1>15, <1>16, <1>17, <1>18, <1>19, SMTT(60) DEF SessionNext, SessionReads, ShellDone, CtxDone

\* ConnInv is inductive, given the types.
LEMMA ConnStep == TypeOK /\ ConnInv /\ [Next]_vars => ConnInv'
<1> SUFFICES ASSUME TypeOK, ConnInv, [Next]_vars PROVE ConnInv'
  BY SMTT(60)
<1>1. CASE DialStep
  <2>1. PICK k \in Conn : Unused(k) /\ Dial(k) /\ UNCHANGED sessionVars
    BY <1>1 DEF DialStep
  <2>2. /\ acceptQ \in Seq(Conn) /\ acceptQ' = Append(acceptQ, k)
        /\ Len(acceptQ) \in Nat
    BY <2>1 DEF Dial, TypeOK, ConnTypeOK
  <2>3. \A j \in DOMAIN acceptQ' : \/ j \in DOMAIN acceptQ /\ acceptQ'[j] = acceptQ[j]
                                   \/ j = Len(acceptQ) + 1 /\ acceptQ'[j] = k
    <3>1. DOMAIN acceptQ' = 1 .. Len(acceptQ) + 1 /\ DOMAIN acceptQ = 1 .. Len(acceptQ)
      BY <2>2
    <3>2. \A j \in 1 .. Len(acceptQ) : acceptQ'[j] = acceptQ[j]
      BY <2>2
    <3>3. acceptQ'[Len(acceptQ) + 1] = k
      BY <2>2
    <3> TAKE j \in DOMAIN acceptQ'
    <3>4. (j \in DOMAIN acceptQ /\ j \in 1 .. Len(acceptQ)) \/ j = Len(acceptQ) + 1
      BY <2>2, <3>1
    <3> QED
      BY <3>2, <3>3, <3>4
  <2>4. \A j \in DOMAIN acceptQ : acceptQ[j] # k /\ acceptQ[j] \in Conn /\ j # Len(acceptQ) + 1
    BY <2>1, <2>2, SMTT(60) DEF Unused
  <2>5. QueueInv'
    <3>1. \A i, j \in DOMAIN acceptQ' : acceptQ'[i] = acceptQ'[j] => i = j
      <4> SUFFICES ASSUME NEW i \in DOMAIN acceptQ', NEW j \in DOMAIN acceptQ',
                          acceptQ'[i] = acceptQ'[j]
                   PROVE  i = j
        OBVIOUS
      <4>1. CASE i \in DOMAIN acceptQ /\ acceptQ'[i] = acceptQ[i]
        <5>1. j \in DOMAIN acceptQ /\ acceptQ'[j] = acceptQ[j]
          BY <2>3, <2>4, <4>1, Zenon
        <5> QED
          BY <4>1, <5>1, Zenon DEF ConnInv, QueueInv
      <4>2. CASE i = Len(acceptQ) + 1 /\ acceptQ'[i] = k
        BY <2>3, <2>4, <4>2
      <4> QED
        BY <2>3, <4>1, <4>2
    <3>2. /\ k # sconn' /\ readers'[k] = {} /\ downCtl'[k] = <<>> /\ downData'[k] = <<>>
          /\ upData'[k] = <<>>
      BY <2>1, ZenonT(60) DEF Dial, Unused, sessionVars, TypeOK, ConnTypeOK
    <3>3. \A q \in Conn : q # k => /\ downCtl'[q] = downCtl[q]
                                   /\ downData'[q] = downData[q]
                                   /\ upData'[q] = upData[q]
      BY <2>1 DEF Dial, TypeOK, ConnTypeOK
    <3>4. UNCHANGED <<sconn, readers>>
      BY <2>1 DEF sessionVars
    <3>5. \A j \in DOMAIN acceptQ : /\ acceptQ[j] # sconn'
                                    /\ readers'[acceptQ[j]] = {}
                                    /\ downCtl'[acceptQ[j]] = <<>>
                                    /\ downData'[acceptQ[j]] = <<>>
                                    /\ upData'[acceptQ[j]] = <<>>
      BY <2>4, <3>3, <3>4, SMTT(60) DEF ConnInv, QueueInv
    <3> QED
      BY <2>3, <3>1, <3>2, <3>5, SMTT(60) DEF QueueInv
  <2>6. HandshakeInv'
    BY <2>1, Zenon DEF Dial, DialSeq, Unused, ConnInv, HandshakeInv, sessionVars, Attached,
       TypeOK, ConnTypeOK,
                SessionTypeOK
  <2> QED
    BY <2>1, <2>5, <2>6 DEF Dial, ConnInv, BuffersInv, sessionVars
<1>2. CASE ClientStep
  BY <1>2, ConnClientStep DEF ClientStep
<1>3. CASE SessionStep
  <2>1. SessionNext /\ UNCHANGED clientVars
    BY <1>3 DEF SessionStep
  <2> QED
    BY <2>1, ConnSessionStep, ZenonT(60)
\* ConnInv speaks of neither alive nor faults.
<1>s. ASSUME UNCHANGED <<acceptQ, lastClientSeq, upCtl, upData, downCtl, downData>>,
             UNCHANGED clientVars, UNCHANGED sessionVars
      PROVE  ConnInv'
  <2>1. QueueInv'
    BY <1>s, ZenonT(60) DEF sessionVars, ConnInv, QueueInv
  <2>2. BuffersInv'
    BY <1>s, ZenonT(60) DEF clientVars, sessionVars, ConnInv, BuffersInv
  <2>3. HandshakeInv'
    BY <1>s, ZenonT(60) DEF clientVars, sessionVars, ConnInv, HandshakeInv, Unreplayed,
       Attached
  <2> QED
    BY <2>1, <2>2, <2>3 DEF ConnInv
<1>4. CASE NetworkStep
  <2>1. /\ UNCHANGED <<acceptQ, lastClientSeq, upCtl, upData, downCtl, downData>>
        /\ UNCHANGED clientVars /\ UNCHANGED sessionVars
    BY <1>4, ZenonT(60) DEF NetworkStep, NetBreak
  <2> QED
    BY <2>1, <1>s
<1>5. CASE UNCHANGED vars
  <2>1. /\ UNCHANGED <<acceptQ, lastClientSeq, upCtl, upData, downCtl, downData>>
        /\ UNCHANGED clientVars /\ UNCHANGED sessionVars
    BY <1>5, ZenonT(60) DEF vars, connVars
  <2> QED
    BY <2>1, <1>s
<1> QED
  BY <1>1, <1>2, <1>3, <1>4, <1>5 DEF Next, Finished

-----------------------------------------------------------------------------
(* Session to client.                                                      *)

\* A step writes the run lo .. lo + n - 1 to stdout, and it continues what is there.
Arrives(lo, n) ==
  /\ lo > cRecvSeq /\ (lo = cRecvSeq + 1 \/ lo <= sOldest) /\ lo + n - 1 <= sSendSeq
  /\ out' \in Seq(Nat \ {0}) /\ Len(out') = Len(out) + n
  /\ \A i \in 1 .. Len(out) : out'[i] = out[i]
  /\ \A i \in 1 .. n : out'[Len(out) + i] = lo + i - 1
  /\ cRecvSeq' = lo + n - 1

\* Such a run keeps stdout ordered and complete.
LEMMA DeliverRun ==
  ASSUME TypeOK, RecvIsLastOut, StdoutInOrder, StdoutComplete,
         NEW lo \in Nat \ {0}, NEW n \in Nat \ {0}, Arrives(lo, n),
         UNCHANGED <<sSendSeq, sOldest>>
  PROVE  RecvIsLastOut' /\ StdoutInOrder' /\ StdoutComplete'
<1> USE DEF Arrives
<1>a. /\ cRecvSeq \in Nat /\ sSendSeq \in Nat /\ sOldest \in Nat \ {0}
      /\ out \in Seq(Nat \ {0}) /\ Len(out) \in Nat
      /\ \A i \in 1 .. Len(out) : out[i] \in Nat /\ out[i] <= cRecvSeq
  BY DEF TypeOK, ClientTypeOK, SessionTypeOK, RecvIsLastOut
<1>1. \A i \in 1 .. Len(out) + n :
        \/ i \in 1 .. Len(out) /\ out'[i] = out[i]
        \/ i - Len(out) \in 1 .. n /\ out'[i] = lo + (i - Len(out)) - 1
  <2> TAKE i \in 1 .. Len(out) + n
  <2>1. CASE i \in 1 .. Len(out)
    BY <2>1
  <2>2. CASE i \notin 1 .. Len(out)
    <3>1. i - Len(out) \in 1 .. n /\ Len(out) + (i - Len(out)) = i
      BY <1>a, <2>2
    <3> QED
      BY <3>1, ZenonT(60)
  <2> QED
    BY <2>1, <2>2
<1>2. \A i \in DOMAIN out' : i \in 1 .. Len(out) + n
  OBVIOUS
<1>3. RecvIsLastOut'
  <2>1. out' # <<>> /\ out'[Len(out')] = lo + n - 1
    <3>1. n \in 1 .. n
      OBVIOUS
    <3>2. out'[Len(out) + n] = lo + n - 1
      BY <3>1, ZenonT(60)
    <3> QED
      BY <1>a, <3>2
  <2>2. \A i \in DOMAIN out' : out'[i] <= cRecvSeq'
    <3> TAKE i \in DOMAIN out'
    <3>1. i \in 1 .. Len(out) + n
      BY <1>2
    <3>2. CASE i \in 1 .. Len(out) /\ out'[i] = out[i]
      BY <1>a, <3>2
    <3>3. CASE i - Len(out) \in 1 .. n /\ out'[i] = lo + (i - Len(out)) - 1
      BY <1>a, <3>1, <3>3
    <3> QED
      BY <1>1, <3>1, <3>2, <3>3
  <2> QED
    BY <1>a, <2>1, <2>2 DEF RecvIsLastOut
<1>4. StdoutInOrder'
  <2> SUFFICES ASSUME NEW i \in DOMAIN out', NEW j \in DOMAIN out', i < j
               PROVE  out'[i] < out'[j]
    BY DEF StdoutInOrder
  <2>1. i \in 1 .. Len(out) + n /\ j \in 1 .. Len(out) + n
    BY <1>2
  <2>2. CASE j \in 1 .. Len(out)
    <3>1. i \in 1 .. Len(out)
      BY <1>a, <2>1, <2>2
    <3>2. out[i] < out[j]
      BY <1>a, <2>2, <3>1, SMTT(60) DEF StdoutInOrder
    <3> QED
      BY <2>2, <3>1, <3>2, SMTT(60)
  <2>3. CASE j \notin 1 .. Len(out)
    <3>1. out'[j] = lo + (j - Len(out)) - 1 /\ j > Len(out)
      BY <1>a, <1>1, <2>1, <2>3, SMTT(60)
    <3>2. CASE i \in 1 .. Len(out) /\ out'[i] = out[i]
      BY <1>a, <2>1, <3>1, <3>2, SMTT(60)
    <3>3. CASE i - Len(out) \in 1 .. n /\ out'[i] = lo + (i - Len(out)) - 1
      BY <1>a, <2>1, <3>1, <3>3, SMTT(60)
    <3> QED
      BY <1>1, <2>1, <3>2, <3>3, ZenonT(60)
  <2> QED
    BY <2>2, <2>3
<1>5. StdoutComplete'
  <2> SUFFICES ASSUME NEW s \in 1 .. cRecvSeq', s >= sOldest
               PROVE  \E i \in DOMAIN out' : out'[i] = s
    BY DEF StdoutComplete, Printed
  <2>1. CASE s <= cRecvSeq
    <3>1. PICK i \in DOMAIN out : out[i] = s
      BY <1>a, <2>1 DEF StdoutComplete, Printed
    <3>2. i \in 1 .. Len(out) /\ i \in DOMAIN out'
      BY <1>a
    <3> QED
      BY <3>1, <3>2
  <2>2. CASE s > cRecvSeq
    <3>1. s >= lo
      BY <1>a, <2>2
    <3>2. s - lo + 1 \in 1 .. n /\ Len(out) + (s - lo + 1) \in DOMAIN out'
      BY <1>a, <3>1
    <3>3. out'[Len(out) + (s - lo + 1)] = lo + (s - lo + 1) - 1
      BY <3>2, ZenonT(60)
    <3>4. lo + (s - lo + 1) - 1 = s
      BY <1>a
    <3> QED
      BY <3>2, <3>3, <3>4, SMTT(60)
  <2> QED
    BY <1>a, <2>1, <2>2
<1> QED
  BY <1>3, <1>4, <1>5

\* A step that delivers nothing and puts nothing on the way to the client keeps
\* DownInv, unless it joins the two sides or numbers output while they are joined.
LEMMA DownFrame ==
  ASSUME TypeOK, DownInv,
         UNCHANGED <<out, cRecvSeq>>,
         sSendSeq' \in Nat, sSendSeq' >= sSendSeq,
         sOldest' \in Nat, sOldest' >= sOldest,
         \A k \in Conn : downData'[k] = downData[k] \/ downData'[k] = <<>>,
         Attached' => /\ cconn' \in Conn
                      /\ \/ downData'[cconn'] = <<>>
                         \/ Attached /\ cconn' = cconn,
         Attached' /\ cconn' = sconn' /\ spc' # "handshake" /\ alive'[cconn'] =>
           /\ Attached /\ cconn' = cconn /\ cconn = sconn /\ spc # "handshake" /\ alive[cconn]
           /\ downData'[cconn] = downData[cconn] /\ sSendSeq' = sSendSeq
  PROVE  DownInv'
<1>a. /\ sOldest \in Nat /\ cRecvSeq \in Nat /\ sSendSeq \in Nat
      /\ downData \in [Conn -> Seq(Nat \ {0})]
  BY DEF TypeOK, ConnTypeOK, ClientTypeOK, SessionTypeOK
<1>1. DownRuns'
  <2> SUFFICES ASSUME NEW k \in Conn, NEW i \in DOMAIN downData'[k]
               PROVE  /\ downData'[k][i] = downData'[k][1] + i - 1
                      /\ downData'[k][i] <= sSendSeq'
    BY Zenon DEF DownRuns
  <2>1. downData'[k] = downData[k] /\ i \in DOMAIN downData[k]
    OBVIOUS
  <2>2. downData[k][i] \in Nat
    BY <1>a, <2>1, SMTT(60)
  <2> QED
    BY <1>a, <2>1, <2>2, SMTT(60) DEF DownInv, DownRuns
<1>2. DownContinues'
  <2> SUFFICES ASSUME Attached' PROVE DownContinues'
    BY SMTT(60) DEF DownContinues
  <2>1. ASSUME downData'[cconn'] # <<>>
        PROVE  /\ downData'[cconn'][1] > cRecvSeq
               /\ downData'[cconn'][1] = cRecvSeq + 1 \/ downData'[cconn'][1] <= sOldest'
    <3>1. Attached /\ cconn' = cconn /\ downData'[cconn] = downData[cconn]
      BY <2>1
    <3>2. downData[cconn] \in Seq(Nat \ {0}) /\ downData[cconn] # <<>>
      BY <1>a, <2>1, <3>1
    <3>3. downData[cconn][1] \in Nat
      BY <3>2, SMTT(60)
    <3> QED
      BY <1>a, <2>1, <3>1, <3>3, SMTT(60) DEF DownInv, DownContinues
  <2>2. ASSUME cconn' = sconn' /\ spc' # "handshake" /\ alive'[cconn']
        PROVE  IF downData'[cconn'] = <<>>
                 THEN cRecvSeq' = sSendSeq'
                 ELSE downData'[cconn'][Len(downData'[cconn'])] = sSendSeq'
    BY <2>2, SMTT(60) DEF DownInv, DownContinues
  <2> QED
    BY <2>1, <2>2, SMTT(60) DEF DownContinues
<1>3. RecvIsLastOut' /\ StdoutInOrder'
  BY <1>a, SMTT(60) DEF DownInv, RecvIsLastOut, StdoutInOrder
<1>4. StdoutComplete'
  BY <1>a DEF DownInv, StdoutComplete, Printed
<1> QED
  BY <1>1, <1>2, <1>3, <1>4 DEF DownInv

\* Output flushed to a live connection extends the client's stream by the next
\* number.
LEMMA DownFlush ==
  ASSUME TypeOK, AliveInv, DownInv, spc # "handshake", FlushCoalesced,
         UNCHANGED <<alive, cpc, cconn, cRecvSeq, out>>
  PROVE  DownInv'
<1>a. /\ sOldest \in Nat \ {0} /\ cRecvSeq \in Nat /\ sSendSeq \in Nat
      /\ sOldest' \in Nat /\ sOldest' >= sOldest /\ sSendSeq' = sSendSeq + 1
      /\ downData \in [Conn -> Seq(Nat \ {0})]
      /\ Attached' = Attached
      /\ Attached => cconn \in Conn
      /\ cconn \in Conn => Attached
      /\ NoConn \notin Conn
  BY StoreKeepsType, ConnectionsAssumption, SMTT(60)
     DEF FlushCoalesced, TypeOK, ConnTypeOK, ClientTypeOK, SessionTypeOK, Attached
<1>1. CASE sconn = NoConn \/ ~ alive[sconn]
  <2>1. downData' = downData /\ (sconn' = sconn \/ sconn' = NoConn)
    BY <1>1 DEF FlushCoalesced, Put
  <2> QED
    BY <1>1, <1>a, <2>1, DownFrame
<1>2. CASE sconn # NoConn /\ alive[sconn]
  <2>1. sconn \in Conn /\ cconn = sconn /\ Attached
    BY <1>2, <1>a, ZenonT(60) DEF AliveInv, TypeOK, SessionTypeOK
  <2> DEFINE d == downData[cconn]
             e == downData'[cconn]
  <2>2. /\ e = Append(d, sSendSeq + 1)
        /\ \A k \in Conn : k # cconn => downData'[k] = downData[k]
        /\ sconn' = sconn
    BY <1>2, <1>a, <2>1, ZenonT(60) DEF FlushCoalesced, Put
  <2>3. /\ d # <<>> => d[1] > cRecvSeq /\ (d[1] = cRecvSeq + 1 \/ d[1] <= sOldest)
        /\ IF d = <<>> THEN cRecvSeq = sSendSeq ELSE d[Len(d)] = sSendSeq
        /\ \A i \in DOMAIN d : d[i] = d[1] + i - 1 /\ d[i] <= sSendSeq
    BY <1>2, <2>1 DEF DownInv, DownContinues, DownRuns
  <2>4. d \in Seq(Nat \ {0}) /\ Len(d) \in Nat
    BY <1>a, <2>1, SMTT(60)
  <2> HIDE DEF d, e
  <2>5. /\ e \in Seq(Nat \ {0}) /\ Len(e) = Len(d) + 1 /\ e # <<>>
        /\ e[Len(e)] = sSendSeq + 1
        /\ \A i \in 1 .. Len(d) : e[i] = d[i]
    <3> DEFINE x == sSendSeq + 1
    <3>1. sSendSeq \in Nat /\ e = Append(d, x)
      BY <1>a, <2>2, Zenon
    <3>2. x \in Nat \ {0}
      BY <3>1
    <3> HIDE DEF x
    <3>3. /\ e \in Seq(Nat \ {0}) /\ Len(e) = Len(d) + 1 /\ e # <<>>
          /\ e[Len(e)] = x
          /\ \A i \in 1 .. Len(d) : e[i] = d[i]
      BY <2>4, <3>1, <3>2
    <3> QED
      BY <3>3, Zenon DEF x
  <2>6. /\ e[1] > cRecvSeq
        /\ e[1] = cRecvSeq + 1 \/ e[1] <= sOldest'
    <3>1. CASE d = <<>>
      BY <1>a, <2>3, <2>5, <3>1
    <3>2. CASE d # <<>>
      <4>1. 1 \in 1 .. Len(d) /\ d[1] \in Nat
        BY <2>4, <3>2
      <4> QED
        BY <1>a, <2>3, <2>5, <3>2, <4>1, SMTT(60)
    <3> QED
      BY <3>1, <3>2
  <2>7. \A i \in 1 .. Len(e) : e[i] = e[1] + i - 1 /\ e[i] <= sSendSeq + 1
    <3> TAKE i \in 1 .. Len(e)
    <3>1. CASE d = <<>>
      <4>1. Len(d) = 0 /\ i = 1 /\ e[1] = sSendSeq + 1
        BY <2>4, <2>5, <3>1
      <4> QED
        BY <1>a, <4>1
    <3>2. CASE d # <<>>
      <4>1. /\ 1 \in DOMAIN d /\ Len(d) \in DOMAIN d /\ d[1] \in Nat /\ e[1] = d[1]
        BY <2>4, <2>5, <3>2, SMTT(60)
      <4>2. sSendSeq = d[1] + Len(d) - 1
        BY <2>3, <3>2, <4>1
      <4>3. CASE i = Len(d) + 1
        BY <1>a, <2>4, <2>5, <4>1, <4>2, <4>3, SMTT(60)
      <4>4. CASE i # Len(d) + 1
        <5>1. i \in DOMAIN d /\ e[i] = d[i] /\ d[i] \in Nat
          BY <2>4, <2>5, <4>4, SMTT(60)
        <5> QED
          BY <1>a, <2>3, <4>1, <5>1
      <4> QED
        BY <4>3, <4>4
    <3> QED
      BY <3>1, <3>2
  <2>8. DownRuns'
    <3> SUFFICES ASSUME NEW k \in Conn, NEW i \in DOMAIN downData'[k]
                 PROVE  /\ downData'[k][i] = downData'[k][1] + i - 1
                        /\ downData'[k][i] <= sSendSeq'
      BY SMTT(60) DEF DownRuns
    <3>1. CASE k = cconn
      <4>1. downData'[k] = e
        BY <3>1, SMTT(60) DEF e
      <4>2. i \in 1 .. Len(e)
        BY <2>5, <4>1, SMTT(60)
      <4> QED
        BY <1>a, <2>7, <4>1, <4>2
    <3>2. CASE k # cconn
      <4>1. downData'[k] = downData[k] /\ i \in DOMAIN downData[k] /\ downData[k][i] \in Nat
        BY <1>a, <2>2, <3>2, SMTT(60)
      <4> QED
        BY <1>a, <4>1, SMTT(60) DEF DownInv, DownRuns
    <3> QED
      BY <3>1, <3>2
  <2>9. DownContinues'
    BY <1>a, <2>5, <2>6, SMTT(60) DEF DownContinues, e
  <2>10. RecvIsLastOut' /\ StdoutInOrder' /\ StdoutComplete'
    BY <1>a DEF DownInv, RecvIsLastOut, StdoutInOrder, StdoutComplete, Printed
  <2> QED
    BY <2>8, <2>9, <2>10, SMTT(60) DEF DownInv
<1> QED
  BY <1>1, <1>2, SMTT(60)

\* The stream the client reads, when it has anything, is a run that continues stdout.
LEMMA ClientReadsRun ==
  ASSUME TypeOK, DownInv, Attached, downData[cconn] # <<>>
  PROVE  LET d == downData[cconn]
         IN  /\ d \in Seq(Nat \ {0}) /\ Len(d) \in Nat \ {0} /\ d[1] \in Nat \ {0}
             /\ d[1] > cRecvSeq /\ (d[1] = cRecvSeq + 1 \/ d[1] <= sOldest)
             /\ \A i \in 1 .. Len(d) : d[i] = d[1] + i - 1 /\ d[i] <= sSendSeq
<1> DEFINE d == downData[cconn]
<1>1. d \in Seq(Nat \ {0}) /\ Len(d) \in Nat \ {0} /\ d[1] \in Nat \ {0} /\ cconn \in Conn
  BY SMTT(60) DEF TypeOK, ConnTypeOK, ClientTypeOK
<1>2. \A i \in 1 .. Len(d) : d[i] = d[1] + i - 1 /\ d[i] <= sSendSeq
  BY <1>1, SMTT(60) DEF DownInv, DownRuns
<1> QED
  BY <1>1, <1>2 DEF DownInv, DownContinues

\* The two steps that write to stdout: a message is read, or a shutdown drains
\* the first j messages under way.
LEMMA ClientDelivers ==
  ASSUME TypeOK, DownInv, ClientData \/ ClientControlShutdown
  PROVE  UNCHANGED <<out, cRecvSeq>> \/ \E lo, n \in Nat \ {0} : Arrives(lo, n)
<1> DEFINE d == downData[cconn]
<1>a. /\ Attached /\ cconn \in Conn /\ d \in Seq(Nat \ {0}) /\ Len(d) \in Nat
      /\ out \in Seq(Nat \ {0}) /\ Len(out) \in Nat /\ cRecvSeq \in Nat /\ sSendSeq \in Nat
  BY SMTT(60) DEF ClientData, ClientControlShutdown, Attached, TypeOK, ConnTypeOK,
     ClientTypeOK,
     SessionTypeOK
<1>1. CASE ClientData
  <2>1. d # <<>> /\ out' = Append(out, Head(d)) /\ cRecvSeq' = Head(d)
    BY <1>1, SMTT(60) DEF ClientData
  <2>2. /\ Len(d) \in Nat \ {0} /\ d[1] \in Nat \ {0}
        /\ d[1] > cRecvSeq /\ (d[1] = cRecvSeq + 1 \/ d[1] <= sOldest)
        /\ \A i \in 1 .. Len(d) : d[i] = d[1] + i - 1 /\ d[i] <= sSendSeq
    BY <1>a, <2>1, ClientReadsRun
  <2> HIDE DEF d
  <2>3. Head(d) = d[1] /\ d[1] <= sSendSeq
    BY <1>a, <2>1, <2>2, SMTT(60)
  <2>4. /\ out' \in Seq(Nat \ {0}) /\ Len(out') = Len(out) + 1
        /\ \A i \in 1 .. Len(out) : out'[i] = out[i]
        /\ out'[Len(out) + 1] = d[1]
    BY <1>a, <2>1, <2>2, <2>3
  <2>5. PICK n \in Nat \ {0} : n = 1
    OBVIOUS
  <2>6. Arrives(d[1], n)
    BY <1>a, <2>1, <2>2, <2>3, <2>4, <2>5 DEF Arrives
  <2> QED
    BY <2>2, <2>6
<1>2. CASE ClientControlShutdown
  <2>1. PICK j \in 0 .. Len(d) : /\ out' = out \o SubSeq(d, 1, j)
                                 /\ cRecvSeq' = IF j = 0 THEN cRecvSeq ELSE d[j]
    BY <1>2, ZenonT(60) DEF ClientControlShutdown
  <2>2. CASE j = 0
    BY <1>a, <2>1, <2>2, SMTT(60)
  <2>3. CASE j # 0
    <3>1. d # <<>> /\ j \in 1 .. Len(d) /\ j \in Nat \ {0}
      BY <1>a, <2>3
    <3>2. /\ d[1] \in Nat \ {0} /\ d[1] > cRecvSeq /\ (d[1] = cRecvSeq + 1 \/ d[1] <= sOldest)
          /\ \A i \in 1 .. Len(d) : d[i] = d[1] + i - 1 /\ d[i] <= sSendSeq
      BY <1>a, <3>1, ClientReadsRun
    <3> HIDE DEF d
    <3>3. /\ SubSeq(d, 1, j) \in Seq(Nat \ {0}) /\ Len(SubSeq(d, 1, j)) = j
          /\ \A i \in 1 .. j : SubSeq(d, 1, j)[i] = d[i]
      BY <1>a, <3>1
    <3>4. /\ out' \in Seq(Nat \ {0}) /\ Len(out') = Len(out) + j
          /\ \A i \in 1 .. Len(out) : out'[i] = out[i]
          /\ \A i \in 1 .. j : out'[Len(out) + i] = SubSeq(d, 1, j)[i]
      BY <1>a, <2>1, <3>3
    <3>5. \A i \in 1 .. j : out'[Len(out) + i] = d[1] + i - 1
      <4> TAKE i \in 1 .. j
      <4>1. i \in 1 .. Len(d)
        BY <1>a, <3>1
      <4> QED
        BY <3>2, <3>3, <3>4, <4>1
    <3>6. d[1] + j - 1 <= sSendSeq /\ cRecvSeq' = d[1] + j - 1
      BY <2>1, <2>3, <3>1, <3>2
    <3>7. Arrives(d[1], j)
      BY <3>2, <3>4, <3>5, <3>6, ZenonT(60) DEF Arrives
    <3> QED
      BY <3>1, <3>2, <3>7
  <2> QED
    BY <2>2, <2>3
<1> QED
  BY <1>1, <1>2

\* Every step of the client preserves DownInv.
LEMMA DownClientStep ==
  ASSUME TypeOK, DownInv, ClientNext, UNCHANGED sessionVars
  PROVE  DownInv'
<1>a. /\ sOldest \in Nat \ {0} /\ cRecvSeq \in Nat /\ sSendSeq \in Nat
      /\ out \in Seq(Nat \ {0}) /\ Len(out) \in Nat
      /\ downData \in [Conn -> Seq(Nat \ {0})]
      /\ alive \in [Conn -> BOOLEAN]
      /\ Attached => cconn \in Conn
  BY SMTT(60) DEF TypeOK, ConnTypeOK, ClientTypeOK, SessionTypeOK
<1>b. UNCHANGED <<spc, sconn, sSendSeq, sOldest>>
  BY DEF sessionVars
\* What the client writes to stdout keeps it ordered and complete.
<1>c. ASSUME ClientData \/ ClientControlShutdown
      PROVE  RecvIsLastOut' /\ StdoutInOrder' /\ StdoutComplete'
  <2>1. CASE UNCHANGED <<out, cRecvSeq>>
    BY <1>b, <2>1 DEF DownInv, RecvIsLastOut, StdoutInOrder, StdoutComplete, Printed
  <2>2. ASSUME NEW lo \in Nat \ {0}, NEW n \in Nat \ {0}, Arrives(lo, n)
        PROVE  RecvIsLastOut' /\ StdoutInOrder' /\ StdoutComplete'
    BY <1>b, <2>2, DeliverRun, Zenon DEF DownInv
  <2> QED
    BY <1>c, <2>1, <2>2, ClientDelivers, ZenonT(60)
\* A step that closes the client's end and delivers nothing.
<1>d. ASSUME NEW pc \in {"dial"} \cup ExitReasons, Attached, LeaveConn(pc),
             UNCHANGED <<out, cRecvSeq>>
      PROVE  DownInv'
  <2>1. ~ Attached' /\ downData' = [downData EXCEPT ![cconn] = <<>>]
    BY <1>d DEF LeaveConn, CloseClientEnd, ExitReasons, Attached
  <2> QED
    BY <1>a, <1>b, <1>d, <2>1, DownFrame
\* A step that stays on the connection and delivers nothing.
<1>e. ASSUME UNCHANGED <<alive, downData, cconn, out, cRecvSeq>>, Attached' => Attached
      PROVE  DownInv'
  BY <1>a, <1>b, <1>e, DownFrame, SMTT(60)
<1>1. CASE \/ RawModeFails \/ SequenceExchangeFails \/ ClientConnError \/ ClientTimeout
           \/ ClientDataErrorShutdown \/ StdinEOF \/ StdoutFails
           \/ LeaveIo("exitEscape") \/ LeaveIo("exitCancelled")
  BY <1>1, <1>d, ZenonT(60) DEF RawModeFails, Exchange, SequenceExchangeFails,
     ClientConnError,
     ClientTimeout, ClientDataErrorShutdown, StdinEOF, StdoutFails, LeaveIo, Attached,
     ExitReasons
<1>2. CASE \/ SequenceExchange \/ StdinChunk \/ StdinTimer \/ ClientHeartbeat
           \/ ClientControlHeartbeat \/ CancelDial
  BY <1>2, <1>e, ZenonT(60) DEF SequenceExchange, Exchange, StdinChunk, StdinTimer,
     ClientHeartbeat,
     ClientControlHeartbeat, CancelDial, clientVars, connVars, Attached
<1>3. CASE ClientData
  <2> DEFINE d == downData[cconn]
             e == downData'[cconn]
  <2>1. /\ Attached /\ d # <<>> /\ cconn \in Conn
        /\ out' = Append(out, Head(d)) /\ cRecvSeq' = Head(d)
        /\ downData' = [downData EXCEPT ![cconn] = Tail(@)]
        /\ UNCHANGED <<cpc, cconn, alive>>
    BY <1>3, <1>a, SMTT(60) DEF ClientData, Attached
  <2>2. /\ d \in Seq(Nat \ {0}) /\ Len(d) \in Nat \ {0} /\ d[1] \in Nat \ {0}
        /\ d[1] > cRecvSeq /\ (d[1] = cRecvSeq + 1 \/ d[1] <= sOldest)
        /\ \A i \in 1 .. Len(d) : d[i] = d[1] + i - 1 /\ d[i] <= sSendSeq
    BY <2>1, ClientReadsRun
  <2>3. e = Tail(d) /\ \A k \in Conn : k # cconn => downData'[k] = downData[k]
    BY <1>a, <2>1, SMTT(60)
  <2>4. DownContinues => (cconn = sconn /\ spc # "handshake" /\ alive[cconn] => d[Len(d)] = sSendSeq)
    BY <2>1 DEF DownContinues
  <2> HIDE DEF d, e
  <2>5. Head(d) = d[1]
    BY <2>1, <2>2, SMTT(60)
  <2>6. RecvIsLastOut' /\ StdoutInOrder' /\ StdoutComplete'
    BY <1>3, <1>c
  <2>7. /\ e \in Seq(Nat \ {0}) /\ Len(e) = Len(d) - 1 /\ Len(e) \in Nat
        /\ \A i \in 1 .. Len(e) : e[i] = d[i + 1]
    BY <2>1, <2>2, <2>3
  <2>8. \A i \in 1 .. Len(e) : e[i] = d[1] + i /\ e[i] <= sSendSeq
    <3> TAKE i \in 1 .. Len(e)
    <3>1. i + 1 \in 1 .. Len(d) /\ i \in Nat /\ e[i] = d[i + 1]
      BY <2>2, <2>7
    <3>2. d[i + 1] = d[1] + (i + 1) - 1 /\ d[i + 1] <= sSendSeq
      BY <2>2, <3>1, SMTT(60)
    <3> QED
      BY <2>2, <3>1, <3>2
  <2>9. DownRuns'
    <3> SUFFICES ASSUME NEW k \in Conn, NEW i \in DOMAIN downData'[k]
                 PROVE  /\ downData'[k][i] = downData'[k][1] + i - 1
                        /\ downData'[k][i] <= sSendSeq'
      BY SMTT(60) DEF DownRuns
    <3>1. CASE k = cconn
      <4>1. downData'[k] = e
        BY <3>1, SMTT(60) DEF e
      <4>2. i \in 1 .. Len(e) /\ 1 \in 1 .. Len(e)
        BY <2>7, <4>1, SMTT(60)
      <4> QED
        BY <1>b, <2>2, <2>8, <4>1, <4>2
    <3>2. CASE k # cconn
      BY <1>b, <2>3, <3>2, SMTT(60) DEF DownInv, DownRuns
    <3> QED
      BY <3>1, <3>2, SMTT(60)
  <2>10. DownContinues'
    <3>1. e # <<>> => e[1] = cRecvSeq' + 1
      BY <2>1, <2>2, <2>5, <2>7, <2>8
    <3>2. e # <<>> => e[Len(e)] = d[Len(d)]
      BY <2>2, <2>7, <2>8, SMTT(60)
    <3>3. e = <<>> => d[Len(d)] = cRecvSeq'
      <4>1. e = <<>> => Len(d) = 1
        BY <2>2, <2>7
      <4> QED
        BY <2>1, <2>2, <2>5, <4>1, ZenonT(60)
    <3>4. cRecvSeq' \in Nat
      BY <2>1, <2>2, <2>5
    <3> QED
      BY <1>b, <2>1, <2>4, <3>1, <3>2, <3>3, <3>4, SMTT(60) DEF DownContinues, DownInv,
         Attached, e
  <2> QED
    BY <2>6, <2>9, <2>10, SMTT(60) DEF DownInv
<1>4. CASE ClientControlShutdown
  <2>1. /\ Attached /\ cconn \in Conn /\ ~ Attached'
        /\ downData' = [downData EXCEPT ![cconn] = <<>>]
    BY <1>4, <1>a DEF ClientControlShutdown, LeaveConn, CloseClientEnd, Attached
  <2>2. DownRuns' /\ DownContinues'
    BY <1>a, <1>b, <2>1 DEF DownInv, DownRuns, DownContinues
  <2> QED
    BY <1>4, <1>c, <2>2 DEF DownInv
<1>5. CASE Restart
  <2>1. /\ out' = <<>> /\ cRecvSeq' = 0 /\ ~ Attached'
        /\ \A k \in Conn : downData'[k] = downData[k] \/ downData'[k] = <<>>
    BY <1>5, SMTT(60) DEF Restart, Attached
  <2>2. DownRuns' /\ DownContinues'
    BY <1>a, <1>b, <2>1, SMTT(60) DEF DownInv, DownRuns, DownContinues
  <2>3. RecvIsLastOut' /\ StdoutInOrder' /\ StdoutComplete'
    BY <1>a, <1>b, <2>1 DEF RecvIsLastOut, StdoutInOrder, StdoutComplete
  <2> QED
    BY <2>2, <2>3, SMTT(60) DEF DownInv
<1> QED
  BY <1>1, <1>2, <1>3, <1>4, <1>5, SMTT(60) DEF ClientNext, ClientReads

\* Every step of the session preserves DownInv.
LEMMA DownSessionStep ==
  ASSUME TypeOK, AliveInv, ConnInv, DownInv, SessionNext, UNCHANGED clientVars
  PROVE  DownInv'
<1>a. /\ sOldest \in Nat \ {0} /\ cRecvSeq \in Nat /\ sSendSeq \in Nat
      /\ downData \in [Conn -> Seq(Nat \ {0})]
      /\ alive \in [Conn -> BOOLEAN]
      /\ Attached => cconn \in Conn
      /\ cconn \in Conn => Attached
      /\ sconn # NoConn => sconn \in Conn
      /\ NoConn \notin Conn
  BY ConnectionsAssumption DEF TypeOK, ConnTypeOK, ClientTypeOK, SessionTypeOK
<1>b. UNCHANGED <<cpc, cconn, cRecvSeq, out>> /\ Attached' = Attached
  BY SMTT(60) DEF clientVars, Attached
\* A step that numbers and sends nothing, and does not end a handshake with
\* success.
<1>c. ASSUME UNCHANGED <<downData, sSendSeq, sOldest>>,
             \A k \in Conn : alive'[k] => alive[k],
             sconn' = NoConn \/ (sconn' = sconn /\ spc # "handshake")
      PROVE  DownInv'
  BY <1>a, <1>b, <1>c, DownFrame, SMTT(60)
<1>1. CASE PtyData
  <2>1. CASE FlushCoalesced
    BY <1>1, <1>b, <2>1, DownFlush DEF PtyData
  <2> QED
    BY <1>1, <1>c, <2>1, SMTT(60) DEF PtyData
<1>2. CASE PtyTimer
  BY <1>2, <1>b, DownFlush, Zenon DEF PtyTimer
<1>3. CASE PtyClosed
  <2>1. CASE FlushCoalesced
    BY <1>3, <1>b, <2>1, DownFlush, SMTT(60) DEF PtyClosed
  <2> QED
    BY <1>3, <1>c, <2>1 DEF PtyClosed
<1>4. CASE GracefulShutdown
  <2>1. CASE FlushCoalesced
    BY <1>4, <1>b, <2>1, DownFlush, SMTT(60) DEF GracefulShutdown
  <2> QED
    BY <1>4, <1>c, <2>1, SMTT(60) DEF GracefulShutdown
<1>5. CASE Accept
  <2>1. /\ downData' = downData /\ spc' = "handshake"
        /\ sSendSeq' \in Nat /\ sSendSeq' >= sSendSeq
        /\ sOldest' \in Nat /\ sOldest' >= sOldest
    BY <1>5, <1>a, StoreKeepsType DEF Accept, StoreCoalesced
  <2> QED
    BY <1>a, <1>b, <2>1, DownFrame, SMTT(60)
<1>6. CASE FinishHandshake
  <2>1. /\ spc = "handshake" /\ spc' = "loop" /\ sconn \in Conn
        /\ downData' = PutAll(downData, sconn,
                              ReplaySince(sOldest, sSendSeq, lastClientSeq[sconn]))
        /\ UNCHANGED <<alive, sconn, sSendSeq, sOldest>>
    BY <1>6, SMTT(60) DEF FinishHandshake, TypeOK, SessionTypeOK
  <2>2. CASE ~ alive[sconn]
    <3>1. downData' = downData
      BY <2>1, <2>2, Zenon DEF PutAll
    <3> QED
      BY <1>a, <1>b, <2>1, <2>2, <3>1, DownFrame
  <2>3. CASE alive[sconn]
    <3>1. /\ cconn = sconn /\ Attached /\ downData[cconn] = <<>>
          /\ lastClientSeq[sconn] = cRecvSeq
      BY <1>a, <2>1, <2>3, SMTT(60) DEF AliveInv, ConnInv, HandshakeInv, Unreplayed
    <3> DEFINE r == ReplaySince(sOldest, sSendSeq, cRecvSeq)
    <3>2. /\ r \in Seq(Nat \ {0})
          /\ \A i \in DOMAIN r : r[i] = r[1] + i - 1 /\ r[i] > cRecvSeq /\ r[i] <= sSendSeq
          /\ r = <<>> => sSendSeq <= cRecvSeq \/ sSendSeq < sOldest
          /\ r # <<>> => /\ r[1] = cRecvSeq + 1 \/ r[1] = sOldest
                         /\ r[Len(r)] = sSendSeq
      <4>1. r \in Seq(Nat \ {0})
        BY <1>a, ReplayRun, ZenonT(60)
      <4>2. \A i \in DOMAIN r : /\ r[i] = r[1] + i - 1
                                /\ r[i] \in Nat \ {0}
                                /\ r[i] > cRecvSeq
                                /\ r[i] >= sOldest
                                /\ r[i] <= sSendSeq
        BY <1>a, ReplayRun, ZenonT(20)
      <4>3. r = <<>> => sSendSeq <= cRecvSeq \/ sSendSeq < sOldest
        BY <1>a, ReplayRun
      <4>4. r # <<>> => /\ r[1] = cRecvSeq + 1 \/ r[1] = sOldest
                        /\ r[Len(r)] = sSendSeq
        BY <1>a, ReplayRun
      <4> QED
        BY <4>1, <4>2, <4>3, <4>4, SMTT(60)
    <3> HIDE DEF r
    <3>3. /\ downData'[cconn] = r
          /\ \A k \in Conn : k # cconn => downData'[k] = downData[k]
      <4>1. downData' = [downData EXCEPT ![sconn] = @ \o r]
        BY <2>1, <2>3, <3>1 DEF PutAll, r
      <4>2. <<>> \o r = r
        BY <3>2, SMTT(60)
      <4> QED
        BY <1>a, <2>1, <3>1, <4>1, <4>2, Zenon
    <3>4. DownRuns'
      <4> SUFFICES ASSUME NEW k \in Conn, NEW i \in DOMAIN downData'[k]
                   PROVE  /\ downData'[k][i] = downData'[k][1] + i - 1
                          /\ downData'[k][i] <= sSendSeq
        BY <2>1, SMTT(60) DEF DownRuns
      <4>1. CASE k = cconn
        BY <3>2, <3>3, <4>1, SMTT(60)
      <4>2. CASE k # cconn
        BY <3>3, <4>2, SMTT(60) DEF DownInv, DownRuns
      <4> QED
        BY <4>1, <4>2, SMTT(60)
    <3>5. r = <<>> => cRecvSeq = sSendSeq
      BY <1>a, <3>2 DEF DownInv, RecvIsLastOut, ConnInv, BuffersInv
    <3>6. r # <<>> => r[1] > cRecvSeq /\ (r[1] = cRecvSeq + 1 \/ r[1] <= sOldest)
      <4>1. r # <<>> => 1 \in DOMAIN r
        BY <3>2, SMTT(60)
      <4> QED
        BY <1>a, <3>2, <4>1
    <3>7. DownContinues'
      BY <1>b, <2>1, <3>2, <3>3, <3>5, <3>6, SMTT(60) DEF DownContinues
    <3>8. RecvIsLastOut' /\ StdoutInOrder' /\ StdoutComplete'
      BY <1>b, <2>1, SMTT(60) DEF DownInv, RecvIsLastOut, StdoutInOrder, StdoutComplete,
         Printed
    <3> QED
      BY <3>4, <3>7, <3>8, SMTT(60) DEF DownInv
  <2> QED
    BY <2>2, <2>3, SMTT(60)
<1>7. CASE HandshakeFails \/ HandshakeTimeout \/ SessionTimeout \/ HeartbeatFails
  BY <1>7, <1>a, <1>c, SMTT(60) DEF HandshakeFails, HandshakeTimeout, FailHandshake,
     SessionTimeout,
     HeartbeatFails, connVars
<1>8. CASE SpawnFails \/ FinishShutdown \/ AcceptCancelled \/ \E k \in Conn : StreamShutdown(k)
  BY <1>8, <1>a, <1>c, ZenonT(60) DEF SpawnFails, FinishShutdown, AcceptCancelled,
     StreamShutdown,
     ExitSession
<1>9. CASE \/ SessionHeartbeat
           \/ \E k \in Conn : StreamData(k) \/ PtyWriteFails(k) \/ StreamControl(k)
           \/ \E k \in Conn, s \in Streams : StreamError(k, s)
  BY <1>9, <1>c, ZenonT(60) DEF SessionHeartbeat, StreamData, PtyWriteFails, StreamControl,
     StreamError,
     sessionVars
<1> QED
  BY <1>1, <1>2, <1>3, <1>4, <1>5, <1>6, <1>7, <1>8, <1>9, SMTT(60)
     DEF SessionNext, SessionReads, ShellDone, CtxDone

\* DownInv is inductive relative to the invariants of connections.
LEMMA DownStep ==
  TypeOK /\ AliveInv /\ ConnInv /\ DownInv /\ [Next]_vars => DownInv'
<1> SUFFICES ASSUME TypeOK, AliveInv, ConnInv, DownInv, [Next]_vars PROVE DownInv'
  BY SMTT(60)
<1>a. /\ sOldest \in Nat \ {0} /\ sSendSeq \in Nat
      /\ downData \in [Conn -> Seq(Nat \ {0})]
      /\ alive \in [Conn -> BOOLEAN]
      /\ Attached => cconn \in Conn
  BY SMTT(60) DEF TypeOK, ConnTypeOK, ClientTypeOK, SessionTypeOK
<1>1. CASE DialStep
  <2>1. PICK k \in Conn : Unused(k) /\ Dial(k) /\ UNCHANGED sessionVars
    BY <1>1, SMTT(60) DEF DialStep
  <2>2. /\ cconn' = k /\ k # sconn /\ UNCHANGED <<out, cRecvSeq, sconn, sSendSeq, sOldest>>
        /\ downData' = [downData EXCEPT ![k] = <<>>]
    BY <2>1 DEF Unused, Dial, sessionVars
  <2> QED
    BY <1>a, <2>2, DownFrame
<1>2. CASE ClientStep
  BY <1>2, DownClientStep DEF ClientStep
<1>3. CASE SessionStep
  BY <1>3, DownSessionStep, SMTT(60) DEF SessionStep
<1>4. CASE NetworkStep
  <2>1. /\ UNCHANGED <<out, cRecvSeq, sconn, spc, sSendSeq, sOldest, cconn, cpc, downData>>
        /\ \A k \in Conn : alive'[k] => alive[k]
        /\ Attached' = Attached
    BY <1>4, <1>a, SMTT(60) DEF NetworkStep, NetBreak, clientVars, sessionVars, Attached
  <2> QED
    BY <1>a, <2>1, DownFrame, SMTT(60)
<1>5. CASE UNCHANGED vars
  <2>1. /\ UNCHANGED <<out, cRecvSeq, sconn, spc, sSendSeq, sOldest, cconn, cpc, downData, alive>>
        /\ Attached' = Attached
    BY <1>5, SMTT(60) DEF vars, connVars, clientVars, sessionVars, Attached
  <2> QED
    BY <1>a, <2>1, DownFrame, SMTT(60)
<1> QED
  BY <1>1, <1>2, <1>3, <1>4, <1>5, Zenon DEF Next, Finished

\* The initial state satisfies the invariant.
LEMMA InitDown == Init => AliveInv /\ ConnInv /\ DownInv
BY DEF Init, ConnInit, ClientInit, SessionInit, AliveInv, ConnInv, QueueInv, BuffersInv,
   HandshakeInv, DownInv, DownRuns, DownContinues, RecvIsLastOut, StdoutInOrder,
   StdoutComplete, Attached

\* The invariants that make the session's output arrive: only the client's
\* connection is alive, waiting connections are untouched, acknowledgements are
\* current until they are used, and the client's stream continues its stdout.
THEOREM DownInvariant == Spec => [](AliveInv /\ ConnInv /\ DownInv)
BY TypeCorrect, InitDown, AliveStep, ConnStep, DownStep, TypeStep, PTL DEF Spec

\* What a client process writes to stdout is in the session's order, each
\* message at most once, through any number of reconnections.
THEOREM StdoutOrdered == Spec => []StdoutInOrder
<1>1. DownInv => StdoutInOrder
  BY DEF DownInv
<1> QED
  BY <1>1, DownInvariant, PTL

\* A number the client acknowledges is on its stdout or was evicted from the
\* session's catchup buffer.
THEOREM StdoutAcknowledged == Spec => []StdoutComplete
<1>1. DownInv => StdoutComplete
  BY DEF DownInv
<1> QED
  BY <1>1, DownInvariant, PTL

\* While client and session serve the same live connection and nothing is under
\* way, nothing the session numbered is missing but what was evicted.
THEOREM NothingLostDown == Spec => []NothingMissingDown
<1>1. TypeOK /\ DownInv => NothingMissingDown
  BY ZenonT(60) DEF DownInv, DownContinues, StdoutComplete, NothingMissingDown, Joined,
     Attached
<1> QED
  BY <1>1, TypeCorrect, DownInvariant, PTL
=============================================================================

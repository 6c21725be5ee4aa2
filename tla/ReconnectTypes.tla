--------------------------- MODULE ReconnectTypes ---------------------------
(***************************************************************************)
(* Type correctness of Reconnect for any set of connections, any buffer    *)
(* and coalescer sizes and any bounds, the facts about queues and replays  *)
(* that the other proofs use, and the part of the inductive invariant that *)
(* is about connections through the steps of the client.                   *)
(***************************************************************************)
EXTENDS ReconnectInvariants, TLAPS

-----------------------------------------------------------------------------
(* Queues and replays.                                                     *)

\* Writing to a connection keeps the types of its queues.
LEMMA PutType ==
  ASSUME NEW S, NEW q \in [Conn -> Seq(S)], NEW k \in Conn, NEW m \in S
  PROVE  Put(q, k, m) \in [Conn -> Seq(S)]
BY DEF Put

\* The same for a whole replay, written message by message.
LEMMA PutAllType ==
  ASSUME NEW S, NEW q \in [Conn -> Seq(S)], NEW k \in Conn, NEW ms \in Seq(S)
  PROVE  PutAll(q, k, ms) \in [Conn -> Seq(S)]
BY DEF PutAll

\* A replay is a run of consecutive numbers, from the first number the peer
\* misses and the buffer still has, up to the newest.
LEMMA ReplayRun ==
  ASSUME NEW oldest \in Nat \ {0}, NEW newest \in Nat, NEW last \in Nat
  PROVE  LET r == ReplaySince(oldest, newest, last)
         IN  /\ r \in Seq(Nat \ {0})
             /\ \A i \in DOMAIN r : /\ r[i] = r[1] + i - 1
                                    /\ r[i] \in Nat \ {0}
                                    /\ r[i] > last
                                    /\ r[i] >= oldest
                                    /\ r[i] <= newest
             /\ r = <<>> => newest <= last \/ newest < oldest
             /\ r # <<>> => /\ r[1] = last + 1 \/ r[1] = oldest
                            /\ r[Len(r)] = newest
<1> DEFINE r == ReplaySince(oldest, newest, last)
<1> DEFINE lo == IF last + 1 > oldest THEN last + 1 ELSE oldest
           n  == IF lo <= newest THEN newest - lo + 1 ELSE 0
<1>1. r = [i \in 1 .. n |-> lo + i - 1]
  BY DEF ReplaySince, Interval
<1>2. n \in Nat /\ lo \in Nat \ {0} /\ lo > last /\ lo >= oldest
      /\ (lo = last + 1 \/ lo = oldest)
  OBVIOUS
<1>3. n = 0 => newest <= last \/ newest < oldest
  OBVIOUS
<1>4. n # 0 => lo + n - 1 = newest
  OBVIOUS
<1>5. \A i \in 1 .. n : lo + i - 1 \in Nat \ {0} /\ lo + i - 1 <= newest
  OBVIOUS
<1> HIDE DEF lo, n, r
<1>6. r \in Seq(Nat \ {0}) /\ Len(r) = n /\ DOMAIN r = 1 .. n
  BY <1>1, <1>2, <1>5
<1>7. r = <<>> => n = 0
  BY <1>6
<1>8. r # <<>> => n # 0
  BY <1>6
<1>9. \A i \in 1 .. n : r[i] = lo + i - 1 /\ r[1] = lo
  BY <1>1, <1>2
<1>10. \A i \in 1 .. n : /\ r[i] = r[1] + i - 1
                         /\ r[i] \in Nat \ {0}
                         /\ r[i] > last
                         /\ r[i] >= oldest
                         /\ r[i] <= newest
  <2> TAKE i \in 1 .. n
  <2>1. i \in Nat \ {0} /\ r[i] = lo + i - 1 /\ r[1] = lo
    BY <1>2, <1>9
  <2>2. r[i] \in Nat \ {0} /\ r[i] <= newest
    BY <1>5, <2>1
  <2> QED
    BY <1>2, <2>1, <2>2
<1>11. n # 0 => r[1] = lo /\ r[n] = newest
  BY <1>2, <1>4, <1>9
<1>12. r = <<>> => newest <= last \/ newest < oldest
  BY <1>3, <1>7
<1>13. r # <<>> => (r[1] = last + 1 \/ r[1] = oldest) /\ r[Len(r)] = newest
  BY <1>2, <1>6, <1>8, <1>11
<1> QED
  BY <1>6, <1>10, <1>12, <1>13 DEF r

-----------------------------------------------------------------------------
(* Types.                                                                  *)

\* The same for one control message.
LEMMA PutCtlType ==
  ASSUME NEW q \in [Conn -> Seq(CtlMsg)], NEW k \in Conn, NEW t \in CtlTypes, NEW n \in Nat
  PROVE  Put(q, k, Ctl(t, n)) \in [Conn -> Seq(CtlMsg)]
<1>1. Ctl(t, n) \in CtlMsg
  BY DEF Ctl, CtlMsg
<1> QED
  BY <1>1, PutType

\* What a Store keeps starts between the oldest number before and the one stored.
LEMMA StoreKeepsType ==
  ASSUME NEW oldest \in Nat \ {0}, NEW seq \in Nat, NEW o \in StoreKeeps(oldest, seq)
  PROVE  o \in Nat \ {0} /\ o >= oldest /\ o <= seq
BY DEF StoreKeeps

\* flushStdinCoalesced numbers, stores and sends one well-typed message.
LEMMA FlushStdinType ==
  ASSUME TypeOK, cconn \in Conn, FlushStdin
  PROVE  /\ cSendSeq' \in Nat
         /\ cOldest' \in Nat \ {0}
         /\ cOldest' <= cSendSeq' + 1
         /\ upData' \in [Conn -> Seq(UpMsg)]
<1>1. cSendSeq \in Nat /\ cInc \in Nat \ {0} /\ cOldest \in Nat \ {0}
      /\ upData \in [Conn -> Seq(UpMsg)]
  BY DEF TypeOK, ConnTypeOK, ClientTypeOK
<1>2. [inc |-> cInc, seq |-> cSendSeq + 1] \in UpMsg
  BY <1>1 DEF UpMsg
<1>3. upData' \in [Conn -> Seq(UpMsg)]
  BY <1>1, <1>2, PutType DEF FlushStdin
<1> QED
  BY <1>1, <1>3, StoreKeepsType DEF FlushStdin

\* The sequence exchange replays and announces well-typed messages.
LEMMA ExchangeType ==
  ASSUME TypeOK, Exchange
  PROVE  /\ upData' \in [Conn -> Seq(UpMsg)]
         /\ upCtl' \in [Conn -> Seq(CtlMsg)]
         /\ downCtl[cconn] \in Seq(CtlMsg)
         /\ downCtl[cconn] # <<>>
         /\ cconn \in Conn
<1>1. /\ cconn \in Conn
      /\ downCtl[cconn] \in Seq(CtlMsg)
      /\ downCtl[cconn] # <<>>
      /\ cInc \in Nat \ {0}
      /\ cSendSeq \in Nat
      /\ cOldest \in Nat \ {0}
      /\ upData \in [Conn -> Seq(UpMsg)]
      /\ upCtl \in [Conn -> Seq(CtlMsg)]
  BY DEF TypeOK, ConnTypeOK, ClientTypeOK, Exchange, Attached
<1> DEFINE hdr    == Head(downCtl[cconn])
           missed == ReplaySince(cOldest, cSendSeq, hdr.n)
           msgs   == [i \in DOMAIN missed |-> [inc |-> cInc, seq |-> missed[i]]]
<1>2. hdr.n \in Nat
  <2>1. hdr \in CtlMsg
    BY <1>1
  <2> HIDE DEF hdr
  <2> QED
    BY <2>1 DEF CtlMsg
<1>3. missed \in Seq(Nat \ {0}) /\ DOMAIN missed = 1 .. Len(missed) /\ Len(missed) \in Nat
  <2> HIDE DEF hdr
  <2>1. missed \in Seq(Nat \ {0})
    BY <1>1, <1>2, ReplayRun, ZenonT(60)
  <2> HIDE DEF missed
  <2> QED
    BY <2>1
<1>4. upData' = PutAll(upData, cconn, msgs)
      /\ upCtl' = Put(upCtl, cconn, Ctl("TerminalInfo", Len(missed)))
  BY DEF Exchange
<1> HIDE DEF missed
<1>5. \A i \in 1 .. Len(missed) : [inc |-> cInc, seq |-> missed[i]] \in UpMsg
  BY <1>1, <1>3 DEF UpMsg
<1>6. msgs \in Seq(UpMsg)
  BY <1>3, <1>5
<1>7. upData' \in [Conn -> Seq(UpMsg)]
  BY <1>1, <1>4, <1>6, PutAllType, ZenonT(60)
<1>8. upCtl' \in [Conn -> Seq(CtlMsg)]
  <2>1. "TerminalInfo" \in CtlTypes
    BY DEF CtlTypes
  <2> QED
    BY <1>1, <1>3, <1>4, <2>1, PutCtlType, ZenonT(60)
<1> QED
  BY <1>1, <1>7, <1>8

\* Closing the client's end leaves well-typed state behind.
LEMMA LeaveConnType ==
  ASSUME TypeOK, Attached, NEW pc, LeaveConn(pc)
  PROVE  /\ cconn \in Conn
         /\ alive' \in [Conn -> BOOLEAN]
         /\ downCtl' \in [Conn -> Seq(CtlMsg)]
         /\ downData' \in [Conn -> Seq(Nat \ {0})]
         /\ cpc' = pc
         /\ cconn' = NoConn
         /\ cCoal' = 0
<1>1. /\ cconn \in Conn
      /\ alive \in [Conn -> BOOLEAN]
      /\ downCtl \in [Conn -> Seq(CtlMsg)]
      /\ downData \in [Conn -> Seq(Nat \ {0})]
  BY DEF TypeOK, ConnTypeOK, ClientTypeOK
<1> QED
  BY <1>1 DEF LeaveConn, CloseClientEnd

\* The Shutdown a leaving client sends is a well-typed message.
LEMMA SendShutdownType ==
  ASSUME TypeOK, cconn \in Conn, SendShutdown
  PROVE  upCtl' \in [Conn -> Seq(CtlMsg)]
<1>1. "Shutdown" \in CtlTypes
  BY DEF CtlTypes
<1> QED
  BY <1>1, PutCtlType, ZenonT(60) DEF SendShutdown, TypeOK, ConnTypeOK

\* flushCoalesced of the session numbers, stores and sends one well-typed message.
LEMMA FlushCoalescedType ==
  ASSUME TypeOK, FlushCoalesced
  PROVE  /\ sSendSeq' \in Nat
         /\ sOldest' \in Nat \ {0}
         /\ sOldest' <= sSendSeq' + 1
         /\ downData' \in [Conn -> Seq(Nat \ {0})]
         /\ sconn' \in Conn \cup {NoConn}
<1>1. sSendSeq \in Nat /\ sOldest \in Nat \ {0} /\ sconn \in Conn \cup {NoConn}
      /\ downData \in [Conn -> Seq(Nat \ {0})]
  BY DEF TypeOK, ConnTypeOK, SessionTypeOK
<1>2. sSendSeq + 1 \in Nat \ {0}
  BY <1>1
<1>3. downData' \in [Conn -> Seq(Nat \ {0})]
  <2>1. CASE sconn = NoConn
    BY <1>1, <2>1 DEF FlushCoalesced
  <2>2. CASE sconn # NoConn
    <3>1. downData' = Put(downData, sconn, sSendSeq + 1) /\ sconn \in Conn
      BY <1>1, <2>2 DEF FlushCoalesced
    <3> QED
      BY <1>1, <1>2, <3>1, PutType, ZenonT(60)
  <2> QED
    BY <2>1, <2>2
<1> QED
  BY <1>1, <1>3, StoreKeepsType DEF FlushCoalesced

\* What the session's deferred clean-up leaves behind is well typed.
LEMMA ExitSessionType ==
  ASSUME TypeOK, ExitSession
  PROVE  /\ spc' = "exited"
         /\ sconn' = NoConn
         /\ alive' \in [Conn -> BOOLEAN]
         /\ acceptQ' \in Seq(Conn)
         /\ listening' \in BOOLEAN
         /\ readers' \in [Conn -> SUBSET Streams]
         /\ upCtl' \in [Conn -> Seq(CtlMsg)]
         /\ upData' \in [Conn -> Seq(UpMsg)]
<1>1. alive' \in [Conn -> BOOLEAN]
  BY DEF ExitSession, TypeOK, ConnTypeOK
<1>2. /\ acceptQ' \in Seq(Conn)
      /\ readers' \in [Conn -> SUBSET Streams]
  BY DEF ExitSession
<1>3. upCtl' \in [Conn -> Seq(CtlMsg)]
  BY DEF ExitSession
<1>4. upData' \in [Conn -> Seq(UpMsg)]
  BY DEF ExitSession
<1> QED
  BY <1>1, <1>2, <1>3, <1>4, ZenonT(60) DEF ExitSession

\* Every step of the client keeps the types.
LEMMA ClientTypeStep ==
  ASSUME TypeOK, ClientNext
  PROVE  ConnTypeOK' /\ ClientTypeOK'
<1>a. /\ cpc \in {"seqhdr", "io"} => Attached /\ cconn \in Conn
      /\ cSendSeq \in Nat /\ cRecvSeq \in Nat /\ cOldest \in Nat \ {0}
      /\ cOldest <= cSendSeq + 1 /\ cCoal \in Nat /\ cInc \in Nat \ {0}
      /\ out \in Seq(Nat \ {0})
  BY DEF TypeOK, ClientTypeOK, Attached
<1>b. ConnTypeOK
  BY DEF TypeOK
<1>c. ASSUME NEW pc \in {"dial"} \cup ExitReasons, Attached, LeaveConn(pc),
             cSendSeq' \in Nat, cRecvSeq' \in Nat, cOldest' \in Nat \ {0},
             cOldest' <= cSendSeq' + 1, cInc' = cInc, out' \in Seq(Nat \ {0})
      PROVE  ClientTypeOK'
  <2>1. cpc' = pc /\ cconn' = NoConn /\ cCoal' = 0
    BY <1>c, LeaveConnType
  <2>2. ~ Attached'
    BY <1>c, <2>1 DEF Attached, ExitReasons
  <2> QED
    BY <1>a, <1>c, <2>1, <2>2, ZenonT(60) DEF ClientTypeOK
<1>1. CASE SequenceExchange
  <2>1. /\ cpc = "seqhdr" /\ cconn \in Conn
        /\ UNCHANGED <<acceptQ, listening, lastClientSeq, faults,
                       cSendSeq, cRecvSeq, cOldest, cInc, out>>
        /\ cpc' = "io" /\ UNCHANGED <<alive, downData, cconn, cCoal>>
        /\ downCtl' = [downCtl EXCEPT ![cconn] = Tail(@)]
    BY <1>1, <1>a DEF SequenceExchange, Exchange
  <2>2. /\ upData' \in [Conn -> Seq(UpMsg)] /\ upCtl' \in [Conn -> Seq(CtlMsg)]
        /\ downCtl[cconn] \in Seq(CtlMsg) /\ downCtl[cconn] # <<>>
    BY <1>1, ExchangeType DEF SequenceExchange
  <2>3. Tail(downCtl[cconn]) \in Seq(CtlMsg)
    BY <2>2
  <2>4. downCtl' \in [Conn -> Seq(CtlMsg)]
    BY <1>b, <2>1, <2>3, SMTT(60) DEF ConnTypeOK
  <2>5. ClientTypeOK'
    BY <1>a, <2>1, SMTT(60) DEF TypeOK, ClientTypeOK, Attached
  <2> QED
    BY <1>b, <2>1, <2>2, <2>4, <2>5, SMTT(60) DEF ConnTypeOK
<1>2. CASE RawModeFails
  <2>1. Attached /\ LeaveConn("rawModeFailed") /\ cconn \in Conn
    BY <1>2, <1>a DEF RawModeFails, Attached, Exchange
  <2>4. ClientTypeOK'
    BY <1>2, <1>a, <1>c, <2>1 DEF RawModeFails, ExitReasons, Exchange
  <2> QED
    BY <1>2, <1>b, <2>1, <2>4, LeaveConnType, ExchangeType DEF RawModeFails, ConnTypeOK,
       Fault, Exchange
<1>3. CASE SequenceExchangeFails
  <2>1. Attached /\ LeaveConn("dial") /\ cconn \in Conn
    BY <1>3, <1>a DEF SequenceExchangeFails, Attached
  <2>4. ClientTypeOK'
    BY <1>3, <1>a, <1>c, <2>1 DEF SequenceExchangeFails, ExitReasons
  <2> QED
    BY <1>3, <1>b, <2>1, <2>4, LeaveConnType DEF SequenceExchangeFails, ConnTypeOK, Fault
<1>4. CASE StdinChunk
  <2>1. CASE cCoal + 1 >= CoalThreshold
    BY <1>4, <1>a, <1>b, <2>1, FlushStdinType, SMTT(60) DEF StdinChunk, TypeOK, ConnTypeOK,
       ClientTypeOK, Attached
  <2>2. CASE ~ (cCoal + 1 >= CoalThreshold)
    BY <1>4, <1>a, <1>b, <2>2 DEF StdinChunk, TypeOK, ConnTypeOK, ClientTypeOK, Attached
  <2> QED
    BY <2>1, <2>2
<1>5. CASE StdinTimer
  BY <1>5, <1>a, <1>b, FlushStdinType, SMTT(60) DEF StdinTimer, TypeOK, ConnTypeOK,
     ClientTypeOK, Attached
<1>6. CASE ClientConnError
  <2>1. Attached /\ LeaveConn("dial") /\ cconn \in Conn
    BY <1>6, <1>a DEF ClientConnError, Attached
  <2>4. ClientTypeOK'
    BY <1>6, <1>a, <1>c, <2>1 DEF ClientConnError, ExitReasons
  <2> QED
    BY <1>6, <1>b, <2>1, <2>4, LeaveConnType DEF ClientConnError, ConnTypeOK, Fault
<1>7. CASE ClientTimeout
  <2>1. Attached /\ LeaveConn("dial") /\ cconn \in Conn
    BY <1>7, <1>a DEF ClientTimeout, Attached
  <2>4. ClientTypeOK'
    BY <1>7, <1>a, <1>c, <2>1 DEF ClientTimeout, ExitReasons
  <2> QED
    BY <1>7, <1>b, <2>1, <2>4, LeaveConnType DEF ClientTimeout, ConnTypeOK, Fault
<1>8. CASE ClientHeartbeat
  <2>1. "Heartbeat" \in CtlTypes
    BY DEF CtlTypes
  <2> QED
    BY <1>8, <1>a, <1>b, <2>1, PutCtlType, ZenonT(60) DEF ClientHeartbeat, clientVars,
       TypeOK, ConnTypeOK, ClientTypeOK, Attached
<1>9. CASE ClientData
  <2>1. cconn \in Conn /\ downData[cconn] \in Seq(Nat \ {0}) /\ downData[cconn] # <<>>
    BY <1>9, <1>a, <1>b DEF ClientData, ConnTypeOK
  <2>2. Head(downData[cconn]) \in Nat \ {0} /\ Tail(downData[cconn]) \in Seq(Nat \ {0})
    BY <2>1
  <2>3. downData' \in [Conn -> Seq(Nat \ {0})]
    BY <1>9, <1>b, <2>2, ZenonT(60) DEF ClientData, ConnTypeOK
  <2>4. out' \in Seq(Nat \ {0}) /\ cRecvSeq' \in Nat
    BY <1>9, <1>a, <2>2 DEF ClientData
  <2> QED
    BY <1>9, <1>a, <1>b, <2>3, <2>4, SMTT(60) DEF ClientData, TypeOK, ConnTypeOK,
       ClientTypeOK, Attached
<1>10. CASE ClientControlHeartbeat
  BY <1>10, <1>a, <1>b DEF ClientControlHeartbeat, TypeOK, ConnTypeOK, ClientTypeOK,
     Attached, clientVars
<1>11. CASE ClientControlShutdown
  <2>1. Attached /\ LeaveConn("exitShutdown") /\ cconn \in Conn
    BY <1>11, <1>a DEF ClientControlShutdown, Attached
  <2>2. downData[cconn] \in Seq(Nat \ {0})
    BY <1>b, <2>1 DEF ConnTypeOK
  <2>3. out' \in Seq(Nat \ {0}) /\ cRecvSeq' \in Nat
    BY <1>11, <1>a, <2>2 DEF ClientControlShutdown
  <2>4. ClientTypeOK'
    BY <1>11, <1>a, <1>c, <2>1, <2>3 DEF ClientControlShutdown, ExitReasons
  <2> QED
    BY <1>11, <1>b, <2>1, <2>3, <2>4, LeaveConnType DEF ClientControlShutdown, ConnTypeOK,
       Fault
<1>12. CASE ClientDataErrorShutdown
  <2>1. Attached /\ LeaveConn("exitShutdown") /\ cconn \in Conn
    BY <1>12, <1>a DEF ClientDataErrorShutdown, Attached
  <2>4. ClientTypeOK'
    BY <1>12, <1>a, <1>c, <2>1 DEF ClientDataErrorShutdown, ExitReasons
  <2> QED
    BY <1>12, <1>b, <2>1, <2>4, LeaveConnType DEF ClientDataErrorShutdown, ConnTypeOK, Fault
<1>13. CASE StdinEOF
  <2>1. Attached /\ LeaveConn("exitStdinEOF") /\ cconn \in Conn
    BY <1>13, <1>a DEF StdinEOF, Attached
  <2>3. /\ cSendSeq' \in Nat /\ cOldest' \in Nat \ {0} /\ cOldest' <= cSendSeq' + 1
        /\ upData' \in [Conn -> Seq(UpMsg)]
    BY <1>13, <1>a, <1>b, <2>1, FlushStdinType, SMTT(60) DEF StdinEOF, ConnTypeOK
  <2>4. ClientTypeOK'
    BY <1>13, <1>a, <1>c, <2>1, <2>3 DEF StdinEOF, ExitReasons
  <2> QED
    BY <1>13, <1>b, <2>1, <2>3, <2>4, LeaveConnType, SendShutdownType, ZenonT(60)
       DEF StdinEOF, ConnTypeOK, Fault
<1>14. CASE StdoutFails
  <2>1. Attached /\ LeaveConn("exitStdinEOF") /\ cconn \in Conn
    BY <1>14, <1>a DEF StdoutFails, Attached
  <2>4. ClientTypeOK'
    BY <1>14, <1>a, <1>c, <2>1 DEF StdoutFails, ExitReasons
  <2> QED
    BY <1>14, <1>b, <2>1, <2>4, LeaveConnType, SendShutdownType DEF StdoutFails,
       ConnTypeOK, Fault
<1>15. CASE LeaveIo("exitEscape")
  <2>1. Attached /\ LeaveConn("exitEscape") /\ cconn \in Conn
    BY <1>15, <1>a DEF LeaveIo, Attached
  <2>4. ClientTypeOK'
    BY <1>15, <1>a, <1>c, <2>1 DEF LeaveIo, ExitReasons
  <2> QED
    BY <1>15, <1>b, <2>1, <2>4, LeaveConnType, SendShutdownType DEF LeaveIo, ConnTypeOK,
       Fault
<1>16. CASE LeaveIo("exitCancelled")
  <2>1. Attached /\ LeaveConn("exitCancelled") /\ cconn \in Conn
    BY <1>16, <1>a DEF LeaveIo, Attached
  <2>4. ClientTypeOK'
    BY <1>16, <1>a, <1>c, <2>1 DEF LeaveIo, ExitReasons
  <2> QED
    BY <1>16, <1>b, <2>1, <2>4, LeaveConnType, SendShutdownType DEF LeaveIo, ConnTypeOK,
       Fault
<1>17. CASE CancelDial
  BY <1>17, <1>a, <1>b, SMTT(60) DEF CancelDial, TypeOK, ConnTypeOK, ClientTypeOK,
     Attached, connVars, ExitReasons
<1>18. CASE Restart
  BY <1>18, <1>a, <1>b, SMTT(60) DEF Restart, TypeOK, ConnTypeOK, ClientTypeOK, Attached
<1> QED
  BY <1>1, <1>2, <1>3, <1>4, <1>5, <1>6, <1>7, <1>8, <1>9, <1>10, <1>11, <1>12, <1>13,
     <1>14, <1>15, <1>16, <1>17, <1>18 DEF ClientNext, ClientReads

\* Every step of the session keeps the types.
LEMMA SessionTypeStep ==
  ASSUME TypeOK, SessionNext
  PROVE  ConnTypeOK' /\ SessionTypeOK'
<1>a. /\ ConnTypeOK
      /\ SessionTypeOK
      /\ spc = "handshake" => sconn \in Conn
      /\ sconn # NoConn => sconn \in Conn
      /\ NoConn \notin Conn
  BY ConnectionsAssumption DEF TypeOK, SessionTypeOK
<1>b. "SequenceHeader" \in CtlTypes /\ "Heartbeat" \in CtlTypes /\ "Shutdown" \in CtlTypes
  BY DEF CtlTypes
<1>c. ASSUME ExitSession,
             UNCHANGED <<lastClientSeq, downCtl, downData, faults,
                         sSendSeq, sRecvSeq, sOldest, sCoal, pty, ptyIn, ptyLost>>
      PROVE  ConnTypeOK' /\ SessionTypeOK'
  BY <1>a, <1>c, ExitSessionType DEF ConnTypeOK, SessionTypeOK
<1>1. CASE PtyData
  <2>1. CASE sCoal + 1 >= CoalThreshold
    <3>1. FlushCoalesced /\ sCoal' = 0
      BY <1>1, <2>1 DEF PtyData
    <3>2. /\ sSendSeq' \in Nat /\ sOldest' \in Nat \ {0} /\ sOldest' <= sSendSeq' + 1
          /\ downData' \in [Conn -> Seq(Nat \ {0})] /\ sconn' \in Conn \cup {NoConn}
      BY <3>1, FlushCoalescedType
    <3> QED
      BY <1>1, <1>a, <3>1, <3>2, ZenonT(60) DEF PtyData, ConnTypeOK, SessionTypeOK
  <2>2. CASE ~ (sCoal + 1 >= CoalThreshold)
    BY <1>1, <1>a, <2>2, SMTT(60) DEF PtyData, ConnTypeOK, SessionTypeOK
  <2> QED
    BY <2>1, <2>2
<1>2. CASE PtyTimer
  BY <1>2, <1>a, FlushCoalescedType, ZenonT(60) DEF PtyTimer, ConnTypeOK, SessionTypeOK
<1>3. CASE PtyClosed
  BY <1>3, <1>a, FlushCoalescedType, ZenonT(60) DEF PtyClosed, ConnTypeOK, SessionTypeOK
<1>4. CASE Accept
  <2>1. Head(acceptQ) \in Conn /\ acceptQ' \in Seq(Conn)
    BY <1>4, <1>a DEF Accept, ConnTypeOK
  <2>2. downCtl' \in [Conn -> Seq(CtlMsg)]
    BY <1>4, <1>a, <1>b, <2>1, PutCtlType, ZenonT(60) DEF Accept, HeaderSeq, ConnTypeOK,
       SessionTypeOK
  <2>3. alive' \in [Conn -> BOOLEAN]
    BY <1>4, <1>a DEF Accept, ConnTypeOK
  <2>4. /\ sSendSeq' \in Nat /\ sOldest' \in Nat \ {0} /\ sOldest' <= sSendSeq' + 1
        /\ sCoal' \in Nat /\ downData' = downData
    BY <1>4, <1>a, StoreKeepsType DEF Accept, StoreCoalesced, SessionTypeOK
  <2> QED
    BY <1>4, <1>a, <2>1, <2>2, <2>3, <2>4, ZenonT(60) DEF Accept, ConnTypeOK, SessionTypeOK
<1>5. CASE FinishHandshake
  <2>1. sconn \in Conn /\ lastClientSeq[sconn] \in Nat
    BY <1>5, <1>a DEF FinishHandshake, ConnTypeOK
  <2>2. ReplaySince(sOldest, sSendSeq, lastClientSeq[sconn]) \in Seq(Nat \ {0})
    BY <1>a, <2>1, ReplayRun, ZenonT(60) DEF SessionTypeOK
  <2>3. downData' \in [Conn -> Seq(Nat \ {0})]
    BY <1>5, <1>a, <2>1, <2>2, PutAllType, ZenonT(60) DEF FinishHandshake, ConnTypeOK
  <2>4. upCtl' \in [Conn -> Seq(CtlMsg)] /\ readers' \in [Conn -> SUBSET Streams]
    BY <1>5, <1>a, <2>1, SMTT(60) DEF FinishHandshake, GotTerminalInfo, ConnTypeOK,
       SessionTypeOK
  <2> QED
    BY <1>5, <1>a, <2>1, <2>3, <2>4 DEF FinishHandshake, ConnTypeOK, SessionTypeOK
<1>6. CASE HandshakeFails
  BY <1>6, <1>a DEF HandshakeFails, ConnTypeOK, SessionTypeOK, FailHandshake
<1>7. CASE HandshakeTimeout
  BY <1>7, <1>a DEF HandshakeTimeout, ConnTypeOK, SessionTypeOK, FailHandshake, Fault
<1>8. CASE SpawnFails
  BY <1>8, <1>c, SMTT(60) DEF SpawnFails
<1>9. CASE \E k \in Conn : StreamData(k)
  <2>1. PICK k \in Conn : StreamData(k)
    BY <1>9
  <2>2. upData[k] \in Seq(UpMsg) /\ upData[k] # <<>>
    BY <1>a, <2>1, ZenonT(60) DEF StreamData, ConnTypeOK
  <2>3. Head(upData[k]) \in UpMsg /\ Tail(upData[k]) \in Seq(UpMsg)
    BY <2>2
  <2>4. Head(upData[k]).seq \in Nat
    BY <2>3, SMTT(60) DEF UpMsg
  <2>5. upData' \in [Conn -> Seq(UpMsg)]
    BY <1>a, <2>1, <2>3 DEF StreamData, ConnTypeOK
  <2>6. ptyIn' \in Seq(UpMsg) /\ sRecvSeq' \in Nat
    <3>1. ptyIn \in Seq(UpMsg) /\ sRecvSeq \in Nat
      BY <1>a DEF SessionTypeOK
    <3>2. CASE Current(k)
      <4> DEFINE m == Head(upData[k])
      <4>1. ptyIn' = Append(ptyIn, m) /\ sRecvSeq' = m.seq
        BY <2>1, <3>2 DEF StreamData
      <4>2. m \in UpMsg /\ m.seq \in Nat
        BY <2>3, <2>4, SMTT(60)
      <4> HIDE DEF m
      <4> QED
        BY <3>1, <4>1, <4>2, SMTT(60)
    <3>3. CASE ~ Current(k)
      BY <2>1, <3>1, <3>3, Zenon DEF StreamData
    <3> QED
      BY <3>2, <3>3
  <2> QED
    BY <1>a, <2>1, <2>5, <2>6, SMTT(60) DEF StreamData, ConnTypeOK, SessionTypeOK
<1>10. CASE \E k \in Conn : PtyWriteFails(k)
  <2>1. PICK k \in Conn : PtyWriteFails(k)
    BY <1>10
  <2>2. upData[k] \in Seq(UpMsg) /\ upData[k] # <<>>
    BY <1>a, <2>1 DEF PtyWriteFails, ConnTypeOK
  <2>3. Head(upData[k]) \in UpMsg /\ Tail(upData[k]) \in Seq(UpMsg)
    BY <2>2
  <2>4. upData' \in [Conn -> Seq(UpMsg)] /\ ptyLost' \in SUBSET UpMsg
    BY <1>a, <2>1, <2>3 DEF PtyWriteFails, ConnTypeOK, SessionTypeOK
  <2> QED
    BY <1>a, <2>1, <2>4, SMTT(60) DEF PtyWriteFails, Fault, ConnTypeOK, SessionTypeOK
<1>11. CASE \E k \in Conn : StreamControl(k)
  <2>1. PICK k \in Conn : StreamControl(k)
    BY <1>11
  <2>2. upCtl[k] \in Seq(CtlMsg) /\ upCtl[k] # <<>>
    BY <1>a, <2>1 DEF StreamControl, ConnTypeOK
  <2>3. Tail(upCtl[k]) \in Seq(CtlMsg)
    BY <2>2
  <2>4. upCtl' \in [Conn -> Seq(CtlMsg)]
    BY <1>a, <2>1, <2>3, SMTT(60) DEF StreamControl, ConnTypeOK
  <2> QED
    BY <1>a, <2>1, <2>4, SMTT(60) DEF StreamControl, ConnTypeOK, SessionTypeOK, sessionVars
<1>12. CASE \E k \in Conn : StreamShutdown(k)
  BY <1>12, <1>c DEF StreamShutdown
<1>13. CASE \E k \in Conn, s \in Streams : StreamError(k, s)
  BY <1>13, <1>a, SMTT(60) DEF StreamError, ConnTypeOK, SessionTypeOK, Current
<1>14. CASE SessionHeartbeat
  BY <1>14, <1>a, <1>b, PutCtlType, ZenonT(60) DEF SessionHeartbeat, ConnTypeOK,
     SessionTypeOK, sessionVars
<1>15. CASE HeartbeatFails
  BY <1>15, <1>a, SMTT(60) DEF HeartbeatFails, ConnTypeOK, SessionTypeOK, connVars
<1>16. CASE SessionTimeout
  <2>1. downCtl' \in [Conn -> Seq(CtlMsg)] /\ alive' \in [Conn -> BOOLEAN]
    BY <1>16, <1>a, <1>b, PutCtlType, ZenonT(60) DEF SessionTimeout, ConnTypeOK
  <2> QED
    BY <1>16, <1>a, <2>1 DEF SessionTimeout, Fault, ConnTypeOK, SessionTypeOK
<1>17. CASE GracefulShutdown
  <2>1. /\ sSendSeq' \in Nat /\ sOldest' \in Nat \ {0} /\ sOldest' <= sSendSeq' + 1
        /\ downData' \in [Conn -> Seq(Nat \ {0})] /\ sconn' \in Conn \cup {NoConn}
    BY <1>17, <1>a, FlushCoalescedType, SMTT(60) DEF GracefulShutdown, ConnTypeOK,
       SessionTypeOK
  <2>2. sconn' # NoConn => sconn \in Conn
    BY <1>17, <1>a DEF GracefulShutdown, FlushCoalesced
  <2>3. downCtl' \in [Conn -> Seq(CtlMsg)]
    BY <1>17, <1>a, <1>b, <2>2, PutCtlType, ZenonT(60) DEF GracefulShutdown, ConnTypeOK
  <2> QED
    BY <1>17, <1>a, <2>1, <2>3, ZenonT(60) DEF GracefulShutdown, ConnTypeOK, SessionTypeOK
<1>18. CASE FinishShutdown
  BY <1>18, <1>c DEF FinishShutdown
<1>19. CASE AcceptCancelled
  BY <1>19, <1>c DEF AcceptCancelled
<1> QED
  BY <1>1, <1>2, <1>3, <1>4, <1>5, <1>6, <1>7, <1>8, <1>9, <1>10, <1>11, <1>12, <1>13,
     <1>14, <1>15, <1>16, <1>17, <1>18, <1>19 DEF SessionNext, SessionReads, ShellDone,
     CtxDone

\* TypeOK is inductive.
LEMMA TypeStep == TypeOK /\ [Next]_vars => TypeOK'
<1> SUFFICES ASSUME TypeOK, [Next]_vars PROVE TypeOK'
  OBVIOUS
<1>1. CASE DialStep
  BY <1>1, ConnectionsAssumption, SMTT(60)
     DEF DialStep, Dial, DialSeq, sessionVars, TypeOK, ConnTypeOK, ClientTypeOK,
         SessionTypeOK, Attached
<1>2. CASE ClientStep
  <2>1. ConnTypeOK' /\ ClientTypeOK'
    BY <1>2, ClientTypeStep DEF ClientStep
  <2> QED
    BY <1>2, <2>1 DEF ClientStep, sessionVars, TypeOK, SessionTypeOK
<1>3. CASE SessionStep
  <2>1. ConnTypeOK' /\ SessionTypeOK'
    BY <1>3, SessionTypeStep, SMTT(60) DEF SessionStep
  <2> QED
    BY <1>3, <2>1, Zenon DEF SessionStep, clientVars, TypeOK, ClientTypeOK, Attached
<1>4. CASE NetworkStep
  BY <1>4, SMTT(60) DEF NetworkStep, NetBreak, Fault, clientVars, sessionVars, TypeOK,
     ConnTypeOK,
              ClientTypeOK, SessionTypeOK, Attached
<1>5. CASE UNCHANGED vars
  BY <1>5 DEF vars, connVars, clientVars, sessionVars, TypeOK, ConnTypeOK, ClientTypeOK,
              SessionTypeOK, Attached
<1> QED
  BY <1>1, <1>2, <1>3, <1>4, <1>5 DEF Next, Finished

\* Every variable of client, session and network keeps its type, for every
\* number of connections and every buffer size.
THEOREM TypeCorrect == Spec => []TypeOK
<1>1. Init => TypeOK
  BY ConnectionsAssumption DEF Init, ConnInit, ClientInit, SessionInit, TypeOK, ConnTypeOK,
     ClientTypeOK, SessionTypeOK, Attached, ExitReasons
<1> QED
  BY <1>1, TypeStep, PTL DEF Spec

-----------------------------------------------------------------------------
(* Which connection is alive.                                              *)

\* Only the client's connection can be alive: a dial makes one alive, and the
\* client closes the one it leaves.
LEMMA AliveStep == TypeOK /\ AliveInv /\ [Next]_vars => AliveInv'
<1> SUFFICES ASSUME TypeOK, AliveInv, [Next]_vars PROVE AliveInv'
  OBVIOUS
<1>a. alive \in [Conn -> BOOLEAN] /\ (Attached => cconn \in Conn) /\ (~ Attached => cconn = NoConn)
  BY SMTT(60) DEF TypeOK, ConnTypeOK, ClientTypeOK
\* No step but a dial revives a connection, and the client closes what it leaves.
<1>b. ASSUME \A k \in Conn : alive'[k] => alive[k],
             cconn' = cconn \/ (Attached => ~ alive'[cconn])
      PROVE  AliveInv'
  BY <1>a, <1>b, ConnectionsAssumption DEF AliveInv
<1>c. ASSUME NEW pc, Attached, LeaveConn(pc) PROVE AliveInv'
  BY <1>a, <1>b, <1>c DEF LeaveConn, CloseClientEnd
<1>1. CASE DialStep
  BY <1>1, <1>a, ConnectionsAssumption DEF DialStep, Dial, AliveInv, Attached
<1>2. CASE ClientStep
  <2>1. CASE \/ RawModeFails \/ SequenceExchangeFails \/ ClientConnError \/ ClientTimeout
             \/ ClientControlShutdown \/ ClientDataErrorShutdown \/ StdinEOF \/ StdoutFails
             \/ LeaveIo("exitEscape") \/ LeaveIo("exitCancelled")
    <3>1. CASE RawModeFails
      <4>1. Attached /\ LeaveConn("rawModeFailed")
        BY <3>1, SMTT(60) DEF RawModeFails, Exchange, Attached
      <4> QED
        BY <4>1, <1>c
    <3>2. CASE SequenceExchangeFails
      BY <3>2, <1>c DEF SequenceExchangeFails, Attached
    <3>3. CASE ClientConnError
      BY <3>3, <1>c DEF ClientConnError, Attached
    <3>4. CASE ClientTimeout
      BY <3>4, <1>c DEF ClientTimeout, Attached
    <3>5. CASE ClientControlShutdown
      BY <3>5, <1>c DEF ClientControlShutdown, Attached
    <3>6. CASE ClientDataErrorShutdown
      BY <3>6, <1>c DEF ClientDataErrorShutdown, Attached
    <3>7. CASE StdinEOF
      BY <3>7, <1>c DEF StdinEOF, Attached
    <3>8. CASE StdoutFails
      BY <3>8, <1>c DEF StdoutFails, Attached
    <3>9. CASE LeaveIo("exitEscape") \/ LeaveIo("exitCancelled")
      BY <3>9, <1>c, SMTT(60) DEF LeaveIo, Attached
    <3> QED
      BY <2>1, <3>1, <3>2, <3>3, <3>4, <3>5, <3>6, <3>7, <3>8, <3>9, SMTT(60)
  <2>2. CASE \/ SequenceExchange \/ StdinChunk \/ StdinTimer \/ ClientHeartbeat \/ ClientData
             \/ ClientControlHeartbeat \/ CancelDial
    BY <2>2, <1>b, SMTT(60) DEF SequenceExchange, StdinChunk, StdinTimer, ClientHeartbeat,
       ClientData,
       ClientControlHeartbeat, CancelDial, clientVars, connVars
  <2>3. CASE Restart
    BY <2>3, <1>a, <1>b, ZenonT(60) DEF Restart
  <2> QED
    BY <1>2, <2>1, <2>2, <2>3 DEF ClientStep, ClientNext, ClientReads
<1>3. CASE SessionStep
  <2>1. cconn' = cconn
    BY <1>3, SMTT(60) DEF SessionStep, clientVars
  <2>2. CASE \/ PtyData \/ PtyTimer \/ PtyClosed \/ FinishHandshake
             \/ SessionHeartbeat \/ HeartbeatFails \/ GracefulShutdown
             \/ \E k \in Conn : StreamData(k) \/ PtyWriteFails(k) \/ StreamControl(k)
             \/ \E k \in Conn, s \in Streams : StreamError(k, s)
    BY <2>1, <2>2, <1>b, ZenonT(60) DEF PtyData, PtyTimer, PtyClosed, FinishHandshake,
       SessionHeartbeat,
       HeartbeatFails, GracefulShutdown, StreamData, PtyWriteFails, StreamControl,
       StreamError,
       connVars
  <2>3. CASE Accept \/ HandshakeFails \/ HandshakeTimeout \/ SessionTimeout
    BY <2>1, <2>3, <1>a, <1>b, SMTT(60) DEF Accept, HandshakeFails, HandshakeTimeout,
       FailHandshake,
       SessionTimeout
  <2>4. CASE SpawnFails \/ FinishShutdown \/ AcceptCancelled \/ \E k \in Conn : StreamShutdown(k)
    BY <2>1, <2>4, <1>a, <1>b, Zenon DEF SpawnFails, FinishShutdown, AcceptCancelled,
       StreamShutdown,
       ExitSession
  <2> QED
    BY <1>3, <2>2, <2>3, <2>4 DEF SessionStep, SessionNext, SessionReads, ShellDone, CtxDone
<1>4. CASE NetworkStep
  BY <1>4, <1>a, <1>b DEF NetworkStep, NetBreak, clientVars
<1>5. CASE UNCHANGED vars
  BY <1>5, <1>b DEF vars, connVars, clientVars
<1> QED
  BY <1>1, <1>2, <1>3, <1>4, <1>5 DEF Next, Finished

-----------------------------------------------------------------------------
(* Waiting connections, buffers and handshakes: the steps of the client.   *)

ConnInv == QueueInv /\ BuffersInv /\ HandshakeInv

\* A step of the client touches its own connection only, and leaves one that
\* still waits at the listener as it was.
LEMMA QueueClientFrame ==
  ASSUME TypeOK, QueueInv, UNCHANGED <<acceptQ, sconn, readers>>,
         \A k \in Conn : k # cconn => /\ downCtl'[k] = downCtl[k]
                                      /\ downData'[k] = downData[k]
                                      /\ upData'[k] = upData[k],
         \A i \in DOMAIN acceptQ : acceptQ[i] = cconn =>
           /\ downCtl'[cconn] = <<>>
           /\ downData'[cconn] = <<>>
           /\ upData'[cconn] = upData[cconn]
  PROVE  QueueInv'
<1>1. \A i \in DOMAIN acceptQ : acceptQ[i] \in Conn
  BY DEF TypeOK, ConnTypeOK
<1> QED
  BY <1>1 DEF QueueInv

\* Every step of the client preserves ConnInv.
LEMMA ConnClientStep ==
  ASSUME TypeOK, ConnInv, ClientNext, UNCHANGED sessionVars
  PROVE  ConnInv'
<1>a. /\ Attached => cconn \in Conn
      /\ alive \in [Conn -> BOOLEAN]
      /\ upCtl \in [Conn -> Seq(CtlMsg)]
      /\ upData \in [Conn -> Seq(UpMsg)]
      /\ downCtl \in [Conn -> Seq(CtlMsg)]
      /\ downData \in [Conn -> Seq(Nat \ {0})]
      /\ cSendSeq \in Nat /\ cOldest \in Nat \ {0}
  BY DEF TypeOK, ConnTypeOK, ClientTypeOK
<1>b. QueueInv /\ BuffersInv /\ HandshakeInv
  BY DEF ConnInv
<1>c. UNCHANGED <<spc, sconn, sSendSeq, sRecvSeq, sOldest, readers>>
  BY DEF sessionVars
\* A step that closes the client's end.
<1>d. ASSUME NEW pc \in {"dial"} \cup ExitReasons, Attached, LeaveConn(pc),
             UNCHANGED <<acceptQ, lastClientSeq>>,
             \A k \in Conn : k # cconn => upData'[k] = upData[k],
             cpc = "seqhdr" /\ downCtl[cconn] = <<>> => upData' = upData
      PROVE  QueueInv' /\ HandshakeInv'
  <2>1. /\ cpc' = pc /\ cpc' \notin {"seqhdr", "io"}
        /\ downCtl' = [downCtl EXCEPT ![cconn] = <<>>]
        /\ downData' = [downData EXCEPT ![cconn] = <<>>]
    BY <1>d, Zenon DEF LeaveConn, CloseClientEnd, ExitReasons
  <2>2. \A i \in DOMAIN acceptQ : acceptQ[i] = cconn => upData' = upData
    BY <1>b, <1>d, Zenon DEF QueueInv, HandshakeInv, Attached
  <2>3. QueueInv'
    BY <1>a, <1>b, <1>c, <1>d, <2>1, <2>2, QueueClientFrame
  <2>4. HandshakeInv'
    BY <1>a, <1>b, <1>c, <1>d, <2>1 DEF HandshakeInv, Attached
  <2> QED
    BY <2>3, <2>4
\* A step of ioLoop that stays connected.
<1>e. ASSUME cpc = "io", cpc' = "io", UNCHANGED <<acceptQ, lastClientSeq, cconn>>,
             \A k \in Conn : k # cconn => /\ downCtl'[k] = downCtl[k]
                                          /\ downData'[k] = downData[k]
                                          /\ upData'[k] = upData[k],
             \/ downData'[cconn] = downData[cconn] /\ cRecvSeq' = cRecvSeq
             \/ downData[cconn] # <<>>
      PROVE  QueueInv' /\ HandshakeInv'
  <2>1. Attached /\ cconn \in Conn /\ \A i \in DOMAIN acceptQ : acceptQ[i] # cconn
    BY <1>a, <1>b, <1>e, Zenon DEF Attached, HandshakeInv
  <2>2. QueueInv'
    BY <1>b, <1>c, <1>e, <2>1, QueueClientFrame, Zenon
  <2>3. HandshakeInv'
    <3>1. ~ Unreplayed(cconn) \/ (downData'[cconn] = downData[cconn] /\ cRecvSeq' = cRecvSeq)
      BY <1>b, <1>e, <2>1 DEF Unreplayed, HandshakeInv
    <3>2. Unreplayed(cconn)' = Unreplayed(cconn)
      BY <1>c, <1>e DEF Unreplayed
    <3>3. spc' = "handshake" => downData'[sconn'] = <<>>
      <4> SUFFICES ASSUME spc = "handshake" PROVE downData'[sconn] = <<>>
        BY <1>c
      <4>1. sconn \in Conn /\ downData[sconn] = <<>>
        BY <1>b DEF HandshakeInv, TypeOK, SessionTypeOK
      <4> QED
        BY <1>e, <2>1, <4>1, Zenon
    <3> QED
      BY <1>b, <1>c, <1>e, <2>1, <3>1, <3>2, <3>3 DEF HandshakeInv, Attached
  <2> QED
    BY <2>2, <2>3, Zenon
\* Flushing the coalescer keeps the newest entry.
<1>f. ASSUME FlushStdin PROVE BuffersInv'
  BY <1>a, <1>b, <1>c, <1>f, StoreKeepsType DEF FlushStdin, BuffersInv
<1>g. ASSUME UNCHANGED <<cSendSeq, cOldest>> PROVE BuffersInv'
  BY <1>b, <1>c, <1>g DEF BuffersInv
<1>1. CASE SequenceExchange
  <2>1. /\ cpc = "seqhdr" /\ cpc' = "io" /\ downCtl[cconn] # <<>>
        /\ cconn \in Conn
        /\ downCtl' = [downCtl EXCEPT ![cconn] = Tail(@)]
        /\ UNCHANGED <<acceptQ, lastClientSeq, downData, cconn, cRecvSeq, cSendSeq, cOldest>>
    <3>1. cpc = "seqhdr" /\ cpc' = "io" /\ downCtl[cconn] # <<>>
      BY <1>1, Zenon DEF SequenceExchange, Exchange
    <3>2. cconn \in Conn
      BY <1>a, <3>1 DEF Attached
    <3>3. downCtl' = [downCtl EXCEPT ![cconn] = Tail(@)]
      BY <1>1, Zenon DEF SequenceExchange
    <3>4. UNCHANGED <<acceptQ, lastClientSeq, downData, cconn, cRecvSeq, cSendSeq, cOldest>>
      BY <1>1, Zenon DEF SequenceExchange, Exchange
    <3> QED
      BY <3>1, <3>2, <3>3, <3>4, Zenon
  <2>2. \A k \in Conn : k # cconn => upData'[k] = upData[k]
    BY <1>1, <1>a, <2>1, Zenon DEF SequenceExchange, Exchange, PutAll
  <2>3. \A i \in DOMAIN acceptQ : acceptQ[i] # cconn
    BY <1>b, <2>1 DEF QueueInv
  <2>4. QueueInv'
    BY <1>a, <1>b, <1>c, <2>1, <2>2, <2>3, QueueClientFrame
  <2>5. HandshakeInv'
    BY <1>b, <1>c, <2>1, <2>3, SMTT(60) DEF HandshakeInv, Unreplayed, Attached
  <2> QED
    BY <1>g, <2>1, <2>4, <2>5 DEF ConnInv
<1>2. CASE RawModeFails
  <2>1. QueueInv' /\ HandshakeInv'
    BY <1>2, <1>a, <1>d, Zenon DEF RawModeFails, Attached, ExitReasons, Exchange, PutAll
  <2>2. UNCHANGED <<cSendSeq, cOldest>>
    BY <1>2, ZenonT(60) DEF RawModeFails, Exchange
  <2> QED
    BY <1>g, <2>1, <2>2, ZenonT(60) DEF ConnInv
<1>3. CASE SequenceExchangeFails
  <2>1. QueueInv' /\ HandshakeInv'
    BY <1>3, <1>a, <1>d DEF SequenceExchangeFails, Attached, ExitReasons
  <2> QED
    BY <1>3, <1>f, <1>g, <2>1 DEF SequenceExchangeFails, ConnInv
<1>4. CASE StdinChunk
  <2>1. QueueInv' /\ HandshakeInv'
    BY <1>4, <1>a, <1>e DEF StdinChunk, Attached, FlushStdin, Put
  <2> QED
    BY <1>4, <1>f, <1>g, <2>1 DEF StdinChunk, ConnInv, FlushStdin, Put
<1>5. CASE StdinTimer
  <2>1. QueueInv' /\ HandshakeInv'
    BY <1>5, <1>a, <1>e DEF StdinTimer, Attached, FlushStdin, Put
  <2> QED
    BY <1>5, <1>f, <1>g, <2>1 DEF StdinTimer, ConnInv, FlushStdin, Put
<1>6. CASE ClientConnError
  <2>1. QueueInv' /\ HandshakeInv'
    BY <1>6, <1>a, <1>d DEF ClientConnError, Attached, ExitReasons
  <2> QED
    BY <1>6, <1>f, <1>g, <2>1 DEF ClientConnError, ConnInv
<1>7. CASE ClientTimeout
  <2>1. QueueInv' /\ HandshakeInv'
    BY <1>7, <1>a, <1>d DEF ClientTimeout, Attached, ExitReasons
  <2> QED
    BY <1>7, <1>f, <1>g, <2>1 DEF ClientTimeout, ConnInv
<1>8. CASE ClientHeartbeat
  <2>1. QueueInv' /\ HandshakeInv'
    BY <1>8, <1>a, <1>e DEF ClientHeartbeat, Attached, clientVars
  <2> QED
    BY <1>8, <1>f, <1>g, <2>1 DEF ClientHeartbeat, ConnInv, clientVars
<1>9. CASE ClientData
  <2>1. QueueInv' /\ HandshakeInv'
    BY <1>9, <1>a, <1>e DEF ClientData, Attached
  <2> QED
    BY <1>9, <1>f, <1>g, <2>1, Zenon DEF ClientData, ConnInv
<1>10. CASE ClientControlHeartbeat
  <2>1. QueueInv' /\ HandshakeInv'
    BY <1>10, <1>a, <1>e, Zenon DEF ClientControlHeartbeat, Attached, clientVars
  <2> QED
    BY <1>10, <1>f, <1>g, <2>1 DEF ClientControlHeartbeat, ConnInv, clientVars
<1>11. CASE ClientControlShutdown
  <2>1. QueueInv' /\ HandshakeInv'
    BY <1>11, <1>a, <1>d, Zenon DEF ClientControlShutdown, Attached, ExitReasons
  <2> QED
    BY <1>11, <1>f, <1>g, <2>1 DEF ClientControlShutdown, ConnInv
<1>12. CASE ClientDataErrorShutdown
  <2>1. QueueInv' /\ HandshakeInv'
    BY <1>12, <1>a, <1>d DEF ClientDataErrorShutdown, Attached, ExitReasons
  <2> QED
    BY <1>12, <1>f, <1>g, <2>1 DEF ClientDataErrorShutdown, ConnInv
<1>13. CASE StdinEOF
  <2>1. QueueInv' /\ HandshakeInv'
    BY <1>13, <1>a, <1>d DEF StdinEOF, Attached, ExitReasons, FlushStdin, Put
  <2> QED
    BY <1>13, <1>f, <1>g, <2>1 DEF StdinEOF, ConnInv, FlushStdin, Put
<1>14. CASE StdoutFails
  <2>1. QueueInv' /\ HandshakeInv'
    BY <1>14, <1>a, <1>d DEF StdoutFails, Attached, ExitReasons
  <2> QED
    BY <1>14, <1>f, <1>g, <2>1 DEF StdoutFails, ConnInv
<1>15. CASE LeaveIo("exitEscape")
  <2>1. QueueInv' /\ HandshakeInv'
    BY <1>15, <1>a, <1>d, Zenon DEF LeaveIo, Attached, ExitReasons
  <2> QED
    BY <1>15, <1>f, <1>g, <2>1 DEF LeaveIo, ConnInv
<1>16. CASE LeaveIo("exitCancelled")
  <2>1. QueueInv' /\ HandshakeInv'
    BY <1>16, <1>a, <1>d, Zenon DEF LeaveIo, Attached, ExitReasons
  <2> QED
    BY <1>16, <1>f, <1>g, <2>1, Zenon DEF LeaveIo, ConnInv
<1>17. CASE CancelDial
  BY <1>17, <1>b, <1>c, Zenon DEF CancelDial, connVars, ConnInv, QueueInv, BuffersInv,
     HandshakeInv,
     Unreplayed, Attached
<1>18. CASE Restart
  <2>1. QueueInv'
    <3>1. \A i \in DOMAIN acceptQ : acceptQ[i] \in Conn
      BY DEF TypeOK, ConnTypeOK
    <3>2. \A k \in Conn : /\ downCtl'[k] = IF k = cconn THEN <<>> ELSE downCtl[k]
                          /\ downData'[k] = IF k = cconn THEN <<>> ELSE downData[k]
                          /\ upData'[k] = upData[k]
      BY <1>18 DEF Restart
    <3>3. UNCHANGED <<acceptQ, sconn, readers>>
      BY <1>18, <1>c, Zenon DEF Restart
    <3> QED
      BY <1>b, <3>1, <3>2, <3>3, QueueClientFrame, Zenon
  <2>2. HandshakeInv'
    BY <1>18, <1>b, <1>c, Zenon DEF Restart, HandshakeInv, Attached, TypeOK, SessionTypeOK
  <2>3. cSendSeq' = 0 /\ cOldest' = 1 /\ UNCHANGED <<sSendSeq, sOldest>>
    BY <1>18, <1>c, Zenon DEF Restart
  <2>4. BuffersInv'
    BY <1>b, <2>3 DEF BuffersInv
  <2> QED
    BY <2>1, <2>2, <2>4, ZenonT(60) DEF ConnInv
<1> QED
  BY <1>1, <1>2, <1>3, <1>4, <1>5, <1>6, <1>7, <1>8, <1>9, <1>10, <1>11, <1>12, <1>13,
     <1>14, <1>15, <1>16, <1>17, <1>18 DEF ClientNext, ClientReads
=============================================================================

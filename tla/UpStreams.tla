----------------------------- MODULE UpStreams ------------------------------
(***************************************************************************)
(* How the data streams from client to session change, one lemma for each  *)
(* kind of change: not at all or dropped, extended by the client, replayed *)
(* at a reconnection, read by the session.  Each keeps the invariants of   *)
(* that direction.                                                         *)
(***************************************************************************)
EXTENDS ReconnectTypes

UpAll == UpInv /\ UpCompleteInv

\* What the types say of the variables of this direction.
LEMMA UpTypes ==
  ASSUME TypeOK
  PROVE  /\ upData \in [Conn -> Seq(UpMsg)]
         /\ ptyIn \in Seq(UpMsg) /\ Len(ptyIn) \in Nat /\ DOMAIN ptyIn = 1 .. Len(ptyIn)
         /\ \A i \in DOMAIN ptyIn : /\ ptyIn[i] \in UpMsg
                                    /\ ptyIn[i].inc \in Nat \ {0} /\ ptyIn[i].seq \in Nat \ {0}
         /\ \A k \in Conn : /\ upData[k] \in Seq(UpMsg)
                            /\ \A i \in DOMAIN upData[k] :
                                 /\ upData[k][i] \in UpMsg
                                 /\ upData[k][i].inc \in Nat \ {0}
                                 /\ upData[k][i].seq \in Nat \ {0}
         /\ cInc \in Nat \ {0} /\ cSendSeq \in Nat /\ cOldest \in Nat \ {0} /\ sRecvSeq \in Nat
         /\ alive \in [Conn -> BOOLEAN]
         /\ cpc \in {"seqhdr", "io"} => cconn \in Conn
         /\ sconn # NoConn => sconn \in Conn
         /\ NoConn \notin Conn
<1>1. /\ upData \in [Conn -> Seq(UpMsg)] /\ ptyIn \in Seq(UpMsg)
      /\ cInc \in Nat \ {0} /\ cSendSeq \in Nat /\ cOldest \in Nat \ {0} /\ sRecvSeq \in Nat
      /\ alive \in [Conn -> BOOLEAN]
      /\ cpc \in {"seqhdr", "io"} => cconn \in Conn
      /\ sconn # NoConn => sconn \in Conn
      /\ NoConn \notin Conn
  BY ConnectionsAssumption DEF TypeOK, ConnTypeOK, ClientTypeOK, SessionTypeOK, Attached
<1>2. \A m \in UpMsg : m.inc \in Nat \ {0} /\ m.seq \in Nat \ {0}
  BY DEF UpMsg
<1>3. /\ Len(ptyIn) \in Nat /\ DOMAIN ptyIn = 1 .. Len(ptyIn)
      /\ \A i \in DOMAIN ptyIn : ptyIn[i] \in UpMsg
  BY <1>1
<1>4. \A k \in Conn : upData[k] \in Seq(UpMsg) /\ \A i \in DOMAIN upData[k] : upData[k][i] \in UpMsg
  <2> TAKE k \in Conn
  <2>1. upData[k] \in Seq(UpMsg)
    BY <1>1
  <2> QED
    BY <2>1
<1> QED
  BY <1>1, <1>2, <1>3, <1>4, ZenonT(60)

\* recvSeq bounds every number of the present client process on the PTY.
LEMMA RecvBounds ==
  ASSUME TypeOK, RecvIsLastIn, PtyInputInOrder, NEW i \in DOMAIN ptyIn, ptyIn[i].inc = cInc
  PROVE  ptyIn[i].seq <= sRecvSeq
<1> DEFINE n == Len(ptyIn)
<1>1. /\ n \in DOMAIN ptyIn /\ i <= n /\ n \in Nat /\ i \in Nat
      /\ ptyIn[i].inc \in Nat /\ ptyIn[i].seq \in Nat
      /\ ptyIn[n].inc \in Nat /\ ptyIn[n].seq \in Nat /\ cInc \in Nat
  <2>1. n \in Nat /\ DOMAIN ptyIn = 1 .. n /\ i \in 1 .. n
    BY UpTypes
  <2>2. n \in DOMAIN ptyIn
    BY <2>1
  <2> QED
    BY <2>1, <2>2, UpTypes
<1>2. sRecvSeq = ptyIn[n].seq
  BY <1>1, UpTypes DEF RecvIsLastIn
<1>3. CASE i = n
  BY <1>1, <1>2, <1>3
<1>4. CASE i < n
  <2>1. Before(ptyIn[i], ptyIn[n])
    BY <1>1, <1>4 DEF PtyInputInOrder
  <2>2. Issued(ptyIn[n])
    BY <1>1 DEF RecvIsLastIn
  <2> HIDE DEF n
  <2> QED
    BY <1>1, <1>2, <2>1, <2>2 DEF Before, Issued
<1> QED
  BY <1>1, <1>3, <1>4

\* Counting from the second element of a run.
LEMMA ShiftOne == \A a \in Nat \ {0}, i \in Nat : a + i = (a + 1) + i - 1
OBVIOUS

\* What was issued stays issued.
LEMMA IssuedStays ==
  ASSUME TypeOK, cInc' \in Nat, cSendSeq' \in Nat,
         cInc' > cInc \/ (cInc' = cInc /\ cSendSeq' >= cSendSeq)
  PROVE  \A m \in UpMsg :
           Issued(m) => m.inc < cInc' \/ (m.inc = cInc' /\ m.seq <= cSendSeq')
<1>1. cInc \in Nat /\ cSendSeq \in Nat
  BY UpTypes
<1> TAKE m \in UpMsg
<1>2. m.inc \in Nat /\ m.seq \in Nat
  BY DEF UpMsg
<1> QED
  BY <1>1, <1>2 DEF Issued

\* What is settled stays settled while the process runs.
LEMMA SettledStays ==
  ASSUME TypeOK, cInc' = cInc, cOldest' \in Nat, cOldest' >= cOldest,
         ptyLost \subseteq ptyLost',
         \A i \in DOMAIN ptyIn : i \in DOMAIN ptyIn' /\ ptyIn'[i] = ptyIn[i]
  PROVE  \A s \in Nat : Settled(s) => Settled(s)'
<1>1. cInc \in Nat \ {0} /\ cOldest \in Nat
  BY UpTypes
<1> TAKE s \in Nat
<1>2. CASE s < cOldest
  BY <1>1, <1>2 DEF Settled
<1>3. CASE [inc |-> cInc, seq |-> s] \in ptyLost
  BY <1>3, ZenonT(60) DEF Settled
<1>4. CASE Typed([inc |-> cInc, seq |-> s])
  BY <1>4, ZenonT(60) DEF Settled, Typed
<1> QED
  BY <1>2, <1>3, <1>4 DEF Settled

\* A step that writes nothing to the PTY and puts nothing on the way to it keeps
\* the invariants, unless it joins the two sides or numbers input while they
\* are joined.
LEMMA UpFrame ==
  ASSUME TypeOK, UpAll,
         UNCHANGED <<ptyIn, sRecvSeq, ptyLost>>,
         cInc' \in Nat, cSendSeq' \in Nat, cOldest' \in Nat,
         \/ cInc' > cInc
         \/ cInc' = cInc /\ cSendSeq' >= cSendSeq /\ cOldest' >= cOldest,
         \A k \in Conn : upData'[k] = upData[k] \/ upData'[k] = <<>>,
         \/ sconn' = sconn \/ sconn' = NoConn
         \/ sconn' \in Conn /\ upData'[sconn'] = <<>> /\ ~ (cpc' = "io" /\ cconn' = sconn'),
         cpc' = "io" /\ alive'[cconn'] =>
           \/ sconn' = NoConn /\ upData'[cconn'] = <<>>
           \/ /\ cpc = "io" /\ cconn' = cconn /\ alive[cconn]
              /\ upData'[cconn] = upData[cconn] /\ cSendSeq' = cSendSeq /\ cInc' = cInc
  PROVE  UpAll'
<1> USE DEF UpAll
<1>1. UpRuns'
  <2> SUFFICES ASSUME NEW k \in Conn, NEW i \in DOMAIN upData'[k]
               PROVE  /\ upData'[k][i].inc = upData'[k][1].inc
                      /\ upData'[k][i].seq = upData'[k][1].seq + i - 1
                      /\ Issued(upData[k][i])'
    BY DEF UpRuns
  <2>1. upData'[k] = upData[k] /\ i \in DOMAIN upData[k]
    OBVIOUS
  <2>2. /\ upData[k][i].inc = upData[k][1].inc
        /\ upData[k][i].seq = upData[k][1].seq + i - 1
        /\ Issued(upData[k][i]) /\ upData[k][i] \in UpMsg
    BY <2>1, UpTypes, ZenonT(60) DEF UpInv, UpRuns
  <2>3. Issued(upData[k][i])'
    <3>1. LET m == upData[k][i] IN m.inc < cInc' \/ (m.inc = cInc' /\ m.seq <= cSendSeq')
      BY <2>2, IssuedStays, ZenonT(60)
    <3> QED
      BY <2>1, <3>1, ZenonT(60) DEF Issued
  <2> QED
    BY <2>1, <2>2, <2>3
<1>2. RecvIsLastIn'
  <2>1. ASSUME NEW i \in DOMAIN ptyIn PROVE Issued(ptyIn[i])'
    <3>1. Issued(ptyIn[i]) /\ ptyIn[i] \in UpMsg
      BY UpTypes, ZenonT(60) DEF UpInv, RecvIsLastIn
    <3>2. LET m == ptyIn[i] IN m.inc < cInc' \/ (m.inc = cInc' /\ m.seq <= cSendSeq')
      BY <3>1, IssuedStays, ZenonT(60)
    <3> QED
      BY <3>2, ZenonT(60) DEF Issued
  <2> QED
    BY <2>1, ZenonT(60) DEF UpInv, RecvIsLastIn
<1>3. UpContinues'
  <2> SUFFICES ASSUME sconn' # NoConn, upData'[sconn'] # <<>>, NEW i \in DOMAIN ptyIn
               PROVE  Before(ptyIn[i], upData[sconn][1])'
    BY ZenonT(60) DEF UpContinues
  <2>1. sconn' = sconn /\ upData'[sconn] = upData[sconn] /\ sconn # NoConn
    BY UpTypes, ZenonT(60)
  <2>2. Before(ptyIn[i], upData[sconn][1])
    BY <2>1, ZenonT(60) DEF UpInv, UpContinues
  <2> QED
    BY <2>1, <2>2, ZenonT(60) DEF Before
<1>4. UpEnds'
  BY ZenonT(60) DEF UpInv, UpEnds
<1>5. PtyInputInOrder'
  BY DEF UpInv, PtyInputInOrder, Before
<1>6. UpCompleteInv'
  <2> SUFFICES ASSUME cInc' = 1 PROVE UpCompleteInv'
    BY DEF UpCompleteInv, UpCovers, PtyInputComplete
  <2>1. cInc' = cInc /\ cInc = 1 /\ cSendSeq' >= cSendSeq /\ cOldest' >= cOldest
    BY UpTypes
  <2>2. \A s \in Nat : Settled(s) => Settled(s)'
    BY <2>1, SettledStays
  <2>3. PtyInputComplete'
    BY <2>1, <2>2, UpTypes, SMTT(60) DEF UpCompleteInv, PtyInputComplete
  <2>4. ASSUME sconn' # NoConn, NEW i \in DOMAIN upData'[sconn'],
               NEW s \in 1 .. upData'[sconn'][1].seq - 1
        PROVE  Settled(s)'
    <3>1. sconn' = sconn /\ upData'[sconn] = upData[sconn] /\ sconn \in Conn
      BY <2>4, UpTypes, SMTT(60)
    <3>2. Settled(s)
      BY <2>1, <2>4, <3>1, ZenonT(60) DEF UpCompleteInv, UpCovers
    <3> QED
      BY <2>2, <3>2, SMTT(60)
  <2>5. ASSUME sconn' # NoConn, cpc' = "io", cconn' = sconn', alive'[cconn']
        PROVE  IF upData'[cconn'] = <<>>
                 THEN \A s \in 1 .. cSendSeq' : Settled(s)'
                 ELSE upData'[cconn'][Len(upData'[cconn'])].seq = cSendSeq'
    <3>1. /\ cpc = "io" /\ cconn' = cconn /\ alive[cconn] /\ sconn # NoConn /\ cconn = sconn
          /\ upData'[cconn] = upData[cconn] /\ cSendSeq' = cSendSeq
      BY <2>5, UpTypes, ZenonT(60)
    <3>2. IF upData[cconn] = <<>>
            THEN \A s \in 1 .. cSendSeq : Settled(s)
            ELSE upData[cconn][Len(upData[cconn])].seq = cSendSeq
      BY <2>1, <3>1, ZenonT(60) DEF UpCompleteInv, UpCovers
    <3>3. \A s \in 1 .. cSendSeq : s \in Nat
      BY UpTypes
    <3> QED
      BY <2>2, <3>1, <3>2, <3>3, ZenonT(60)
  <2>6. UpCovers'
    BY <2>4, <2>5, ZenonT(60) DEF UpCovers
  <2> QED
    BY <2>3, <2>6 DEF UpCompleteInv
<1> QED
  BY <1>1, <1>2, <1>3, <1>4, <1>5, <1>6 DEF UpInv

\* The client appends to its own live stream, ending it with its newest number:
\* what it appends follows what the session has and leaves no gap.
LEMMA UpExtend ==
  ASSUME TypeOK, UpAll, cconn \in Conn, cInc' = cInc,
         UNCHANGED <<sconn, ptyIn, sRecvSeq, ptyLost>>,
         cSendSeq' \in Nat, cSendSeq' >= cSendSeq, cOldest' \in Nat, cOldest' >= cOldest,
         NEW e \in Seq(UpMsg), upData'[cconn] = e,
         \A k \in Conn : k # cconn => upData'[k] = upData[k],
         \A i \in DOMAIN e : /\ e[i].inc = cInc
                             /\ e[i].seq = e[1].seq + i - 1
                             /\ e[i].seq <= cSendSeq',
         e # <<>> => e[Len(e)].seq = cSendSeq',
         sconn = cconn /\ e # <<>> => \A i \in DOMAIN ptyIn : Before(ptyIn[i], e[1]),
         cInc = 1 /\ sconn = cconn /\ e # <<>> => \A s \in 1 .. e[1].seq - 1 : Settled(s),
         cInc = 1 /\ sconn = cconn /\ e = <<>> => \A s \in 1 .. cSendSeq' : Settled(s),
         cpc' = "io" => cconn' = cconn
  PROVE  UpAll'
<1> USE DEF UpAll
<1>a. \A m \in UpMsg : m.inc \in Nat \ {0} /\ m.seq \in Nat \ {0}
  BY DEF UpMsg
<1>b. Len(e) \in Nat /\ DOMAIN e = 1 .. Len(e) /\ \A i \in DOMAIN e : e[i] \in UpMsg
  OBVIOUS
<1>c. \A m \in UpMsg : Issued(m) => m.inc < cInc' \/ (m.inc = cInc' /\ m.seq <= cSendSeq')
  BY IssuedStays, UpTypes, SMTT(60)
<1>d. e # <<>> => 1 \in DOMAIN e /\ Len(e) \in DOMAIN e
  BY <1>b
<1>1. UpRuns'
  <2> SUFFICES ASSUME NEW k \in Conn, NEW i \in DOMAIN upData'[k]
               PROVE  /\ upData'[k][i].inc = upData'[k][1].inc
                      /\ upData'[k][i].seq = upData'[k][1].seq + i - 1
                      /\ Issued(upData[k][i])'
    BY DEF UpRuns
  <2>1. CASE k = cconn
    <3>1. upData'[k] = e /\ i \in DOMAIN e /\ 1 \in DOMAIN e
      BY <1>b, <2>1
    <3>2. e[i].inc = cInc /\ e[1].inc = cInc /\ e[i].seq = e[1].seq + i - 1 /\ e[i].seq <= cSendSeq'
      BY <3>1, ZenonT(60)
    <3> QED
      BY <3>1, <3>2, ZenonT(60) DEF Issued
  <2>2. CASE k # cconn
    <3>1. upData'[k] = upData[k] /\ i \in DOMAIN upData[k]
      BY <2>2
    <3>2. /\ upData[k][i].inc = upData[k][1].inc
          /\ upData[k][i].seq = upData[k][1].seq + i - 1
          /\ Issued(upData[k][i]) /\ upData[k][i] \in UpMsg
      BY <3>1, UpTypes, ZenonT(60) DEF UpInv, UpRuns
    <3>3. LET m == upData[k][i] IN m.inc < cInc' \/ (m.inc = cInc' /\ m.seq <= cSendSeq')
      BY <1>c, <3>2, ZenonT(60)
    <3>4. Issued(upData[k][i])'
      BY <3>1, <3>3, ZenonT(60) DEF Issued
    <3> QED
      BY <3>1, <3>2, <3>4
  <2> QED
    BY <2>1, <2>2
<1>2. RecvIsLastIn'
  <2>1. ASSUME NEW i \in DOMAIN ptyIn PROVE Issued(ptyIn[i])'
    <3>1. Issued(ptyIn[i]) /\ ptyIn[i] \in UpMsg
      BY UpTypes, ZenonT(60) DEF UpInv, RecvIsLastIn
    <3>2. LET m == ptyIn[i] IN m.inc < cInc' \/ (m.inc = cInc' /\ m.seq <= cSendSeq')
      BY <1>c, <3>1, ZenonT(60)
    <3> QED
      BY <3>2, ZenonT(60) DEF Issued
  <2> QED
    BY <2>1, ZenonT(60) DEF UpInv, RecvIsLastIn
<1>3. UpContinues'
  <2> SUFFICES ASSUME sconn # NoConn, upData'[sconn] # <<>>, NEW i \in DOMAIN ptyIn
               PROVE  Before(ptyIn[i], upData[sconn][1])'
    BY ZenonT(60) DEF UpContinues
  <2>1. CASE sconn = cconn
    <3>1. Before(ptyIn[i], e[1])
      BY <2>1, ZenonT(60)
    <3> QED
      BY <2>1, <3>1, ZenonT(60) DEF Before
  <2>2. CASE sconn # cconn
    <3>1. upData'[sconn] = upData[sconn]
      BY <2>2, UpTypes, ZenonT(60)
    <3>2. Before(ptyIn[i], upData[sconn][1])
      BY <3>1, ZenonT(60) DEF UpInv, UpContinues
    <3> QED
      BY <3>1, <3>2, ZenonT(60) DEF Before
  <2> QED
    BY <2>1, <2>2
<1>4. UpEnds'
  <2>1. e # <<>> => e[Len(e)] = [inc |-> cInc, seq |-> cSendSeq']
    BY <1>b, <1>d DEF UpMsg
  <2> QED
    BY <2>1, ZenonT(60) DEF UpEnds
<1>5. PtyInputInOrder'
  BY DEF UpInv, PtyInputInOrder, Before
<1>6. UpCompleteInv'
  <2> SUFFICES ASSUME cInc = 1 PROVE UpCompleteInv'
    BY DEF UpCompleteInv, UpCovers, PtyInputComplete
  <2>2. \A s \in Nat : Settled(s) => Settled(s)'
    BY SettledStays
  <2>3. PtyInputComplete'
    BY <2>2, UpTypes, SMTT(60) DEF UpCompleteInv, PtyInputComplete
  <2>4. ASSUME sconn # NoConn, NEW i \in DOMAIN upData'[sconn],
               NEW s \in 1 .. upData'[sconn][1].seq - 1
        PROVE  Settled(s)'
    <3>1. Settled(s)
      <4>1. CASE sconn = cconn
        <5>1. e # <<>>
          BY <1>b, <2>4, <4>1
        <5> QED
          BY <2>4, <4>1, <5>1, ZenonT(60)
      <4>2. CASE sconn # cconn
        <5>1. upData'[sconn] = upData[sconn]
          BY <2>4, <4>2, UpTypes, ZenonT(60)
        <5> QED
          BY <2>4, <5>1, ZenonT(60) DEF UpCompleteInv, UpCovers
      <4> QED
        BY <4>1, <4>2
    <3> QED
      BY <2>2, <3>1, SMTT(60)
  <2>5. ASSUME sconn # NoConn, cpc' = "io", cconn' = sconn, alive'[cconn']
        PROVE  IF upData'[cconn'] = <<>>
                 THEN \A s \in 1 .. cSendSeq' : Settled(s)'
                 ELSE upData'[cconn'][Len(upData'[cconn'])].seq = cSendSeq'
    <3>1. cconn' = cconn /\ sconn = cconn /\ upData'[cconn'] = e
      BY <2>5
    <3>2. e = <<>> => \A s \in 1 .. cSendSeq' : Settled(s)
      BY <3>1, ZenonT(60)
    <3>3. \A s \in 1 .. cSendSeq' : s \in Nat
      OBVIOUS
    <3> QED
      BY <2>2, <3>1, <3>2, <3>3, ZenonT(60)
  <2>6. UpCovers'
    BY <2>4, <2>5, ZenonT(60) DEF UpCovers
  <2> QED
    BY <2>3, <2>6 DEF UpCompleteInv
<1> QED
  BY <1>1, <1>2, <1>3, <1>4, <1>5, <1>6 DEF UpInv

\* The session takes the first message of stream k: it drops it if the stream is
\* not its connection's, and otherwise writes it to the PTY or has it refused.
TakesFirst(k) ==
  /\ upData[k] # <<>>
  /\ upData' = [upData EXCEPT ![k] = Tail(@)]
  /\ \/ k # sconn /\ UNCHANGED <<ptyIn, sRecvSeq, ptyLost>>
     \/ /\ k = sconn /\ ptyIn' = Append(ptyIn, Head(upData[k]))
        /\ sRecvSeq' = Head(upData[k]).seq /\ UNCHANGED ptyLost
     \/ /\ k = sconn /\ ptyLost' = ptyLost \cup {Head(upData[k])}
        /\ UNCHANGED <<ptyIn, sRecvSeq>>

\* Taking the first message keeps the invariants.
LEMMA UpTail ==
  ASSUME TypeOK, UpAll, NEW k \in Conn, TakesFirst(k),
         UNCHANGED <<alive, sconn, cpc, cconn, cSendSeq, cOldest, cInc>>
  PROVE  UpAll'
<1>0. UpInv /\ UpCompleteInv
  BY DEF UpAll
<1> DEFINE d == upData[k]
           e == upData'[k]
           h == d[1]
           n == Len(ptyIn)
<1>a. \A m \in UpMsg : m.inc \in Nat \ {0} /\ m.seq \in Nat \ {0}
  BY DEF UpMsg
<1>b. /\ d \in Seq(UpMsg) /\ d # <<>> /\ e = Tail(d) /\ Head(d) = h
      /\ \A j \in Conn : j # k => upData'[j] = upData[j]
  BY UpTypes DEF TakesFirst
<1>c. \A i \in DOMAIN d : /\ d[i].inc = h.inc /\ d[i].seq = h.seq + i - 1 /\ Issued(d[i])
  BY <1>0, ZenonT(60) DEF UpInv, UpRuns
<1>d. k = sconn => \A i \in DOMAIN ptyIn : Before(ptyIn[i], h)
  BY <1>0, <1>b, UpTypes, ZenonT(60) DEF UpInv, UpContinues
<1>e. \A m \in UpMsg : Issued(m) => m.inc < cInc' \/ (m.inc = cInc' /\ m.seq <= cSendSeq')
  BY ZenonT(60) DEF Issued
<1>f. cInc = 1 /\ k = sconn => /\ \A s \in 1 .. h.seq - 1 : Settled(s)
                               /\ cpc = "io" /\ cconn = sconn /\ alive[cconn] =>
                                    d[Len(d)].seq = cSendSeq
  <2>1. 1 \in DOMAIN d
    BY <1>b
  <2> QED
    BY <1>0, <1>b, <2>1, UpTypes, ZenonT(60) DEF UpCompleteInv, UpCovers
<1>g. cpc = "io" /\ alive[cconn] /\ cconn = k => d[Len(d)] = [inc |-> cInc, seq |-> cSendSeq]
  BY <1>0, <1>b, ZenonT(60) DEF UpInv, UpEnds
<1>h. ptyIn \in Seq(UpMsg) /\ n \in Nat /\ DOMAIN ptyIn = 1 .. n
  BY UpTypes
<1>i. \/ k = sconn /\ ptyIn' = Append(ptyIn, h) /\ sRecvSeq' = h.seq /\ UNCHANGED ptyLost
      \/ k = sconn /\ ptyLost' = ptyLost \cup {h} /\ UNCHANGED <<ptyIn, sRecvSeq>>
      \/ k # sconn /\ UNCHANGED <<ptyIn, sRecvSeq, ptyLost>>
  BY <1>b, ZenonT(60) DEF TakesFirst
<1> HIDE DEF d, e, h, n
<1>j. /\ Len(d) \in Nat \ {0} /\ DOMAIN d = 1 .. Len(d) /\ 1 \in DOMAIN d /\ Len(d) \in DOMAIN d
      /\ e \in Seq(UpMsg) /\ Len(e) = Len(d) - 1 /\ DOMAIN e = 1 .. Len(e)
      /\ \A i \in 1 .. Len(e) : i + 1 \in DOMAIN d /\ e[i] = d[i + 1]
      /\ h \in UpMsg
  BY <1>b DEF h
<1>k. h.inc \in Nat \ {0} /\ h.seq \in Nat \ {0} /\ Issued(h)
  BY <1>a, <1>c, <1>j, ZenonT(60) DEF h
<1>l. \A i \in DOMAIN e : e[i].inc = h.inc /\ e[i].seq = h.seq + i /\ Issued(e[i]) /\ e[i] \in UpMsg
  <2> TAKE i \in DOMAIN e
  <2>1. i \in Nat /\ i + 1 \in DOMAIN d /\ e[i] = d[i + 1] /\ e[i] \in UpMsg
    BY <1>j
  <2>2. d[i + 1].inc = h.inc /\ d[i + 1].seq = h.seq + (i + 1) - 1 /\ Issued(d[i + 1])
    BY <1>c, <2>1, ZenonT(60)
  <2>3. h.seq + (i + 1) - 1 = h.seq + i
    BY <1>k, <2>1
  <2> QED
    BY <2>1, <2>2, <2>3, ZenonT(60)
<1>m. /\ e # <<>> => 1 \in DOMAIN e /\ e[Len(e)] = d[Len(d)]
      /\ e = <<>> => Len(d) = 1
  <2>1. e # <<>> => 1 \in DOMAIN e /\ Len(e) \in 1 .. Len(e) /\ Len(e) + 1 = Len(d)
    BY <1>j
  <2> QED
    BY <1>j, <2>1
<1>o. /\ Len(Append(ptyIn, h)) = n + 1
      /\ DOMAIN Append(ptyIn, h) = 1 .. n + 1
      /\ Append(ptyIn, h)[n + 1] = h
      /\ \A i \in 1 .. n : Append(ptyIn, h)[i] = ptyIn[i]
  <2>1. PICK q \in Seq(UpMsg), m \in UpMsg : q = ptyIn /\ m = h
    BY <1>h, <1>j, ZenonT(60)
  <2>2. /\ Len(Append(q, m)) = Len(q) + 1
        /\ DOMAIN Append(q, m) = 1 .. Len(q) + 1
        /\ Append(q, m)[Len(q) + 1] = m
        /\ \A i \in 1 .. Len(q) : Append(q, m)[i] = q[i]
    OBVIOUS
  <2> QED
    BY <2>1, <2>2, ZenonT(60) DEF n
\* What is on the PTY after the step, and what it was before.
<1>n. /\ DOMAIN ptyIn \subseteq DOMAIN ptyIn'
      /\ \A i \in DOMAIN ptyIn : ptyIn'[i] = ptyIn[i]
      /\ \A i \in DOMAIN ptyIn' :
           i \in DOMAIN ptyIn \/ (k = sconn /\ i = n + 1 /\ i = Len(ptyIn') /\ ptyIn'[i] = h)
  <2>1. CASE ptyIn' = ptyIn
    BY <2>1
  <2>2. CASE k = sconn /\ ptyIn' = Append(ptyIn, h)
    <3>2. /\ Len(ptyIn') = n + 1 /\ DOMAIN ptyIn' = 1 .. n + 1 /\ ptyIn'[n + 1] = h
          /\ \A i \in 1 .. n : ptyIn'[i] = ptyIn[i]
      BY <1>o, <2>2, ZenonT(60)
    <3>3. \A i \in 1 .. n + 1 : i \in 1 .. n \/ i = n + 1
      BY <1>h
    <3>4. 1 .. n \subseteq 1 .. n + 1
      BY <1>h
    <3> QED
      BY <1>h, <2>2, <3>2, <3>3, <3>4, ZenonT(60)
  <2> QED
    BY <1>i, <2>1, <2>2
<1>1. UpRuns'
  <2> SUFFICES ASSUME NEW j \in Conn, NEW i \in DOMAIN upData'[j]
               PROVE  /\ upData'[j][i].inc = upData'[j][1].inc
                      /\ upData'[j][i].seq = upData'[j][1].seq + i - 1
                      /\ Issued(upData[j][i])'
    BY DEF UpRuns
  <2>1. CASE j = k
    <3>0. upData'[j] = e /\ i \in DOMAIN e
      BY <2>1, ZenonT(60) DEF e
    <3>1. upData'[j] = e /\ i \in DOMAIN e /\ 1 \in DOMAIN e /\ i \in Nat
      BY <1>j, <3>0
    <3>2. /\ e[i].inc = h.inc /\ e[1].inc = h.inc /\ e[i].seq = h.seq + i
          /\ e[1].seq = h.seq + 1 /\ Issued(e[i])
      BY <1>l, <3>1, ZenonT(60)
    <3>3. h.seq + i = (h.seq + 1) + i - 1
      BY <1>k, <3>1, ShiftOne, ZenonT(60)
    <3>4. e[i].seq = e[1].seq + i - 1
      BY <3>2, <3>3, ZenonT(60)
    <3>5. Issued(upData[j][i])'
      BY <3>1, <3>2, ZenonT(60) DEF Issued
    <3> QED
      BY <3>1, <3>2, <3>4, <3>5, ZenonT(60)
  <2>2. CASE j # k
    <3>1. upData'[j] = upData[j] /\ i \in DOMAIN upData[j]
      BY <1>b, <2>2, ZenonT(60)
    <3> QED
      BY <1>0, <3>1, ZenonT(60) DEF UpInv, UpRuns, Issued
  <2> QED
    BY <2>1, <2>2
<1>2. RecvIsLastIn'
  <2>1. ASSUME NEW i \in DOMAIN ptyIn' PROVE Issued(ptyIn[i])'
    <3>1. CASE i \in DOMAIN ptyIn
      BY <1>0, <1>n, <3>1, ZenonT(60) DEF UpInv, RecvIsLastIn, Issued
    <3>2. CASE ptyIn'[i] = h
      BY <1>k, <3>2, ZenonT(60) DEF Issued
    <3> QED
      BY <1>n, <3>1, <3>2, ZenonT(60)
  <2>2. sRecvSeq' = IF ptyIn' = <<>> THEN 0 ELSE ptyIn'[Len(ptyIn')].seq
    <3>1. CASE UNCHANGED <<ptyIn, sRecvSeq>>
      BY <1>0, <3>1, ZenonT(60) DEF UpInv, RecvIsLastIn
    <3>2. CASE ptyIn' = Append(ptyIn, h) /\ sRecvSeq' = h.seq
      <4>1. ptyIn' # <<>> /\ ptyIn'[Len(ptyIn')] = h
        <5>1. ptyIn'[Len(ptyIn')] = h /\ DOMAIN ptyIn' = 1 .. n + 1
          BY <1>o, <3>2, ZenonT(60)
        <5>2. 1 \in 1 .. n + 1 /\ DOMAIN <<>> = 1 .. 0
          BY <1>h
        <5>3. 1 \notin 1 .. 0
          OBVIOUS
        <5> QED
          BY <5>1, <5>2, <5>3, ZenonT(60)
      <4> QED
        BY <3>2, <4>1, ZenonT(60)
    <3> QED
      BY <1>i, <3>1, <3>2, ZenonT(60)
  <2> QED
    BY <2>1, <2>2, ZenonT(60) DEF RecvIsLastIn
<1>3. UpContinues'
  <2> SUFFICES ASSUME sconn # NoConn, upData'[sconn] # <<>>, NEW i \in DOMAIN ptyIn'
               PROVE  Before(ptyIn'[i], upData'[sconn][1])
    BY ZenonT(60) DEF UpContinues, Before
  <2>1. CASE sconn = k
    <3>1. upData'[sconn] = e /\ e # <<>> /\ 1 \in DOMAIN e
      BY <1>m, <2>1, ZenonT(60) DEF e
    <3>2. e[1].inc = h.inc /\ e[1].seq = h.seq + 1
      BY <1>l, <3>1, ZenonT(60)
    <3>3. CASE i \in DOMAIN ptyIn
      <4>1. Before(ptyIn[i], h) /\ ptyIn'[i] = ptyIn[i] /\ ptyIn[i].seq \in Nat
        BY <1>d, <1>n, <2>1, <3>3, UpTypes, ZenonT(60)
      <4> QED
        BY <1>k, <3>1, <3>2, <4>1, SMTT(60) DEF Before
    <3>4. CASE ptyIn'[i] = h
      BY <1>k, <3>1, <3>2, <3>4, SMTT(60) DEF Before
    <3> QED
      BY <1>n, <3>3, <3>4, ZenonT(60)
  <2>2. CASE sconn # k
    <3>1. upData'[sconn] = upData[sconn] /\ ptyIn' = ptyIn
      BY <1>b, <1>i, <2>2, UpTypes, ZenonT(60)
    <3> QED
      BY <1>0, <3>1, ZenonT(60) DEF UpInv, UpContinues
  <2> QED
    BY <2>1, <2>2
<1>4. UpEnds'
  <2> SUFFICES ASSUME cpc = "io", alive[cconn], upData'[cconn] # <<>>
               PROVE  upData'[cconn][Len(upData'[cconn])] = [inc |-> cInc, seq |-> cSendSeq]
    BY ZenonT(60) DEF UpEnds
  <2>1. CASE cconn = k
    BY <1>g, <1>m, <2>1, ZenonT(60) DEF e
  <2>2. CASE cconn # k
    <3>1. upData'[cconn] = upData[cconn]
      BY <1>b, <2>2, UpTypes, ZenonT(60)
    <3> QED
      BY <1>0, <3>1, ZenonT(60) DEF UpInv, UpEnds
  <2> QED
    BY <2>1, <2>2
<1>5. PtyInputInOrder'
  <2> SUFFICES ASSUME NEW i \in DOMAIN ptyIn', NEW j \in DOMAIN ptyIn', i < j
               PROVE  Before(ptyIn'[i], ptyIn'[j])
    BY ZenonT(60) DEF PtyInputInOrder, Before
  <2>1. CASE j \in DOMAIN ptyIn
    <3>1. i \in DOMAIN ptyIn
      BY <1>h, <1>n, <2>1
    <3>2. Before(ptyIn[i], ptyIn[j])
      BY <1>0, <2>1, <3>1, ZenonT(60) DEF UpInv, PtyInputInOrder
    <3> QED
      BY <1>n, <2>1, <3>1, <3>2, ZenonT(60)
  <2>2. CASE j \notin DOMAIN ptyIn
    <3>1. k = sconn /\ j = n + 1 /\ ptyIn'[j] = h
      BY <1>n, <2>2, ZenonT(60)
    <3>2. i \in DOMAIN ptyIn
      BY <1>h, <1>n, <3>1
    <3> QED
      BY <1>d, <1>n, <3>1, <3>2, ZenonT(60)
  <2> QED
    BY <2>1, <2>2
<1>6. UpCompleteInv'
  <2> SUFFICES ASSUME cInc = 1 PROVE UpCompleteInv'
    BY DEF UpCompleteInv, UpCovers, PtyInputComplete
  <2>1. \A s \in Nat : Settled(s) => Settled(s)'
    <3>1. ptyLost \subseteq ptyLost' /\ cOldest' = cOldest /\ cOldest \in Nat
      BY <1>i, UpTypes, ZenonT(60)
    <3>2. cOldest' >= cOldest
      BY <3>1
    <3> QED
      BY <1>n, <3>1, <3>2, SettledStays, ZenonT(60)
  <2>2. k = sconn => \A s \in 1 .. h.seq : Settled(s)'
    <3> SUFFICES ASSUME k = sconn, NEW s \in 1 .. h.seq PROVE Settled(s)'
      BY ZenonT(60)
    <3>1. CASE s < h.seq
      <4>1. s \in 1 .. h.seq - 1 /\ s \in Nat
        BY <1>k, <3>1
      <4> QED
        BY <1>f, <2>1, <4>1, ZenonT(60)
    <3>2. CASE s = h.seq
      <4>1. h = [inc |-> cInc, seq |-> s]
        <5>1. cInc \in Nat /\ cSendSeq \in Nat
          BY UpTypes
        <5>2. h.inc = cInc
          BY <1>k, <5>1 DEF Issued
        <5> QED
          BY <1>j, <3>2, <5>2 DEF UpMsg
      <4>2. CASE ptyLost' = ptyLost \cup {h}
        BY <4>1, <4>2, ZenonT(60) DEF Settled
      <4>3. CASE ptyIn' = Append(ptyIn, h)
        <5>1. n + 1 \in DOMAIN ptyIn' /\ ptyIn'[n + 1] = h
          <6>1. n + 1 \in 1 .. n + 1
            BY <1>h
          <6> QED
            BY <1>o, <4>3, <6>1, ZenonT(60)
        <5> QED
          BY <4>1, <5>1, ZenonT(60) DEF Settled, Typed
      <4> QED
        BY <1>i, <4>2, <4>3, ZenonT(60)
    <3> QED
      BY <1>k, <3>1, <3>2
  <2>3. PtyInputComplete'
    <3>1. CASE sRecvSeq' = sRecvSeq
      <4>1. \A s \in 1 .. sRecvSeq : s \in Nat /\ Settled(s)
        BY <1>0, UpTypes, SMTT(60) DEF UpCompleteInv, PtyInputComplete
      <4> QED
        BY <2>1, <3>1, <4>1, ZenonT(60) DEF PtyInputComplete
    <3>2. CASE k = sconn /\ sRecvSeq' = h.seq
      BY <2>2, <3>2, ZenonT(60) DEF PtyInputComplete
    <3> QED
      BY <1>i, <3>1, <3>2, ZenonT(60)
  <2>4. ASSUME sconn # NoConn, NEW i \in DOMAIN upData'[sconn],
               NEW s \in 1 .. upData'[sconn][1].seq - 1
        PROVE  Settled(s)'
    <3>1. CASE sconn = k
      <4>0. upData'[sconn] = e /\ i \in DOMAIN e
        BY <2>4, <3>1, ZenonT(60) DEF e
      <4>1. 1 \in DOMAIN e
        BY <1>j, <4>0
      <4>2. e[1].seq = h.seq + 1
        BY <1>l, <4>1, ZenonT(60)
      <4>3. s \in 1 .. (h.seq + 1) - 1
        BY <2>4, <4>0, <4>2, ZenonT(60)
      <4>4. s \in 1 .. h.seq
        BY <1>k, <4>3
      <4> QED
        BY <2>2, <3>1, <4>4, ZenonT(60)
    <3>2. CASE sconn # k
      <4>1. upData'[sconn] = upData[sconn] /\ sconn \in Conn
        BY <1>b, <2>4, <3>2, UpTypes, ZenonT(60)
      <4>2. Settled(s)
        BY <1>0, <2>4, <4>1, ZenonT(60) DEF UpCompleteInv, UpCovers
      <4> QED
        BY <2>1, <4>2, SMTT(60)
    <3> QED
      BY <3>1, <3>2
  <2>5. ASSUME sconn # NoConn, cpc = "io", cconn = sconn, alive[cconn]
        PROVE  IF upData'[cconn] = <<>>
                 THEN \A s \in 1 .. cSendSeq : Settled(s)'
                 ELSE upData'[cconn][Len(upData'[cconn])].seq = cSendSeq
    <3>1. CASE sconn = k
      <4>1. upData'[cconn] = e /\ d[Len(d)].seq = cSendSeq
        BY <1>f, <2>5, <3>1, ZenonT(60) DEF e
      <4>2. e = <<>> => h.seq = cSendSeq
        BY <1>m, <4>1, ZenonT(60) DEF h
      <4> QED
        BY <1>m, <2>2, <3>1, <4>1, <4>2, ZenonT(60)
    <3>2. CASE sconn # k
      <4>1. upData'[cconn] = upData[cconn]
        BY <1>b, <2>5, <3>2, UpTypes, ZenonT(60)
      <4>2. IF upData[cconn] = <<>>
              THEN \A s \in 1 .. cSendSeq : Settled(s)
              ELSE upData[cconn][Len(upData[cconn])].seq = cSendSeq
        BY <1>0, <2>5, ZenonT(60) DEF UpCompleteInv, UpCovers
      <4>3. \A s \in 1 .. cSendSeq : s \in Nat
        BY UpTypes
      <4> QED
        BY <2>1, <4>1, <4>2, <4>3, ZenonT(60)
    <3> QED
      BY <3>1, <3>2
  <2>6. UpCovers'
    BY <2>4, <2>5, ZenonT(60) DEF UpCovers
  <2> QED
    BY <2>3, <2>6 DEF UpCompleteInv
<1> QED
  BY <1>1, <1>2, <1>3, <1>4, <1>5, <1>6 DEF UpAll, UpInv

\* flushStdinCoalesced keeps the invariants: what it sends follows the stream,
\* or, if the stream is empty, all the client has numbered.
LEMMA UpFlush ==
  ASSUME TypeOK, UpAll, cpc = "io", FlushStdin,
         UNCHANGED <<sconn, ptyIn, sRecvSeq, ptyLost, cInc>>,
         \A k \in Conn : alive'[k] => alive[k],
         cpc' = "io" => cconn' = cconn
  PROVE  UpAll'
<1> DEFINE d == upData[cconn]
           m == [inc |-> cInc, seq |-> cSendSeq + 1]
           e == Append(d, m)
<1>0. UpInv /\ UpCompleteInv
  BY DEF UpAll
<1>a. /\ cconn \in Conn /\ cInc \in Nat \ {0} /\ cSendSeq \in Nat /\ cOldest \in Nat \ {0}
      /\ d \in Seq(UpMsg) /\ upData \in [Conn -> Seq(UpMsg)]
  BY UpTypes
<1>b. /\ cSendSeq' = cSendSeq + 1 /\ cSendSeq' \in Nat /\ cSendSeq' >= cSendSeq
      /\ cOldest' \in Nat /\ cOldest' >= cOldest
  BY <1>a, StoreKeepsType DEF FlushStdin
<1>1. CASE ~ alive[cconn]
  <2>1. upData' = upData
    BY <1>1, ZenonT(60) DEF FlushStdin, Put
  <2>2. cInc' \in Nat
    BY <1>a
  <2>3. ~ (cpc' = "io" /\ alive'[cconn'])
    BY <1>1, <1>a, ZenonT(60)
  <2>4. \A k \in Conn : upData'[k] = upData[k] \/ upData'[k] = <<>>
    BY <2>1, ZenonT(60)
  <2> QED
    BY <1>b, <2>2, <2>3, <2>4, UpFrame, ZenonT(60)
<1>2. CASE alive[cconn]
  <2>1. upData'[cconn] = e /\ \A k \in Conn : k # cconn => upData'[k] = upData[k]
    BY <1>2, <1>a, ZenonT(60) DEF FlushStdin, Put
  <2>2. m \in UpMsg /\ m.inc = cInc /\ m.seq = cSendSeq + 1
    BY <1>a DEF UpMsg
  <2>3. d # <<>> => d[Len(d)] = [inc |-> cInc, seq |-> cSendSeq]
    BY <1>0, <1>2, ZenonT(60) DEF UpInv, UpEnds
  <2>4. \A i \in DOMAIN d : /\ d[i].inc = d[1].inc /\ d[i].seq = d[1].seq + i - 1
                            /\ Issued(d[i]) /\ d[i].seq \in Nat
    BY <1>0, <1>a, UpTypes, ZenonT(60) DEF UpInv, UpRuns
  <2>5. sconn = cconn /\ d # <<>> => \A i \in DOMAIN ptyIn : Before(ptyIn[i], d[1])
    BY <1>0, <1>a, UpTypes, ZenonT(60) DEF UpInv, UpContinues
  <2>6. cInc = 1 /\ sconn = cconn =>
          /\ d # <<>> => \A s \in 1 .. d[1].seq - 1 : Settled(s)
          /\ d = <<>> => \A s \in 1 .. cSendSeq : Settled(s)
    <3>1. d # <<>> => 1 \in DOMAIN d
      BY <1>a
    <3>2. cInc = 1 /\ sconn = cconn /\ d # <<>> => \A s \in 1 .. d[1].seq - 1 : Settled(s)
      BY <1>0, <1>a, <3>1, UpTypes, ZenonT(60) DEF UpCompleteInv, UpCovers
    <3>3. cInc = 1 /\ sconn = cconn /\ d = <<>> => \A s \in 1 .. cSendSeq : Settled(s)
      BY <1>0, <1>2, <1>a, UpTypes, ZenonT(60) DEF UpCompleteInv, UpCovers
    <3> QED
      BY <3>2, <3>3
  <2>7. \A i \in DOMAIN ptyIn : Before(ptyIn[i], m)
    <3> TAKE i \in DOMAIN ptyIn
    <3>1. Issued(ptyIn[i]) /\ ptyIn[i].inc \in Nat /\ ptyIn[i].seq \in Nat
      BY <1>0, UpTypes, ZenonT(60) DEF UpInv, RecvIsLastIn
    <3> QED
      BY <1>a, <2>2, <3>1, SMTT(60) DEF Issued, Before
  <2> HIDE DEF d, m
  <2>8. /\ e \in Seq(UpMsg) /\ Len(e) = Len(d) + 1 /\ DOMAIN e = 1 .. Len(d) + 1
        /\ Len(d) \in Nat /\ DOMAIN d = 1 .. Len(d)
        /\ e[Len(e)] = m /\ e # <<>>
        /\ \A i \in 1 .. Len(d) : e[i] = d[i]
    <3>1. PICK q \in Seq(UpMsg), x \in UpMsg : q = d /\ x = m
      BY <1>a, <2>2, ZenonT(60)
    <3>2. /\ Append(q, x) \in Seq(UpMsg) /\ Len(Append(q, x)) = Len(q) + 1
          /\ DOMAIN Append(q, x) = 1 .. Len(q) + 1 /\ Len(q) \in Nat /\ DOMAIN q = 1 .. Len(q)
          /\ Append(q, x)[Len(q) + 1] = x /\ Append(q, x) # <<>>
          /\ \A i \in 1 .. Len(q) : Append(q, x)[i] = q[i]
      OBVIOUS
    <3> QED
      BY <3>1, <3>2, ZenonT(60)
  <2> HIDE DEF e
  <2>9. d = <<>> => e[1] = m /\ Len(d) = 0
    BY <2>8
  <2>10. d # <<>> => /\ 1 \in 1 .. Len(d) /\ Len(d) \in 1 .. Len(d) /\ e[1] = d[1]
                     /\ d[1].inc = cInc /\ d[1].seq \in Nat
                     /\ cSendSeq = d[1].seq + Len(d) - 1
    <3>1. d # <<>> => 1 \in 1 .. Len(d) /\ Len(d) \in 1 .. Len(d)
      BY <2>8
    <3>2. d # <<>> => /\ e[1] = d[1] /\ d[1].seq \in Nat
                      /\ d[Len(d)].inc = d[1].inc /\ d[Len(d)].seq = d[1].seq + Len(d) - 1
      BY <2>4, <2>8, <3>1, ZenonT(60)
    <3>3. d # <<>> => d[Len(d)].inc = cInc /\ d[Len(d)].seq = cSendSeq
      BY <2>3
    <3> QED
      BY <3>1, <3>2, <3>3, ZenonT(60)
  <2>11. \A i \in DOMAIN e : /\ e[i].inc = cInc
                             /\ e[i].seq = e[1].seq + i - 1
                             /\ e[i].seq <= cSendSeq'
    <3> TAKE i \in DOMAIN e
    <3>1. CASE i = Len(d) + 1
      <4>1. e[i] = m
        BY <2>8, <3>1, ZenonT(60)
      <4>2. CASE d = <<>>
        BY <1>a, <1>b, <2>2, <2>9, <3>1, <4>1, <4>2
      <4>3. CASE d # <<>>
        BY <1>a, <1>b, <2>2, <2>8, <2>10, <3>1, <4>1, <4>3
      <4> QED
        BY <4>2, <4>3
    <3>2. CASE i \in 1 .. Len(d)
      <4>1. d # <<>> /\ i \in DOMAIN d /\ i \in Nat /\ i <= Len(d)
        BY <2>8, <3>2
      <4>2. /\ e[i] = d[i] /\ d[i].inc = d[1].inc /\ d[i].seq = d[1].seq + i - 1
            /\ d[i].seq \in Nat
        BY <2>4, <2>8, <3>2, <4>1, ZenonT(60)
      <4> QED
        BY <1>a, <1>b, <2>8, <2>10, <4>1, <4>2
    <3> QED
      BY <2>8, <3>1, <3>2
  <2>12. e[Len(e)].seq = cSendSeq'
    BY <1>b, <2>2, <2>8, ZenonT(60)
  <2>13. sconn = cconn => \A i \in DOMAIN ptyIn : Before(ptyIn[i], e[1])
    BY <2>5, <2>7, <2>9, <2>10, ZenonT(60)
  <2>14. cInc = 1 /\ sconn = cconn => \A s \in 1 .. e[1].seq - 1 : Settled(s)
    <3>1. CASE d = <<>>
      <4>1. 1 .. (cSendSeq + 1) - 1 = 1 .. cSendSeq
        BY <1>a
      <4> QED
        BY <2>2, <2>6, <2>9, <3>1, <4>1, ZenonT(60)
    <3>2. CASE d # <<>>
      BY <2>6, <2>10, <3>2, ZenonT(60)
    <3> QED
      BY <3>1, <3>2
  <2> QED
    BY <1>a, <1>b, <2>1, <2>8, <2>11, <2>12, <2>13, <2>14, UpExtend, ZenonT(60)
<1> QED
  BY <1>1, <1>2

\* handleSequenceExchange keeps the invariants: the session's header says what
\* the session last received, and the replay continues from there.
LEMMA UpExchange ==
  ASSUME TypeOK, HandshakeInv, UpAll, Exchange,
         UNCHANGED <<sconn, ptyIn, sRecvSeq, ptyLost>>,
         \A k \in Conn : alive'[k] => alive[k],
         cpc' = "io" => cconn' = cconn
  PROVE  UpAll'
<1> DEFINE last   == Head(downCtl[cconn]).n
           missed == ReplaySince(cOldest, cSendSeq, last)
           e      == [i \in DOMAIN missed |-> [inc |-> cInc, seq |-> missed[i]]]
<1>0. UpInv /\ UpCompleteInv
  BY DEF UpAll
<1>a. /\ cconn \in Conn /\ cInc \in Nat \ {0} /\ cSendSeq \in Nat /\ cOldest \in Nat \ {0}
      /\ upData \in [Conn -> Seq(UpMsg)] /\ sRecvSeq \in Nat /\ cOldest <= cSendSeq + 1
      /\ cpc = "seqhdr" /\ UNCHANGED <<cSendSeq, cOldest, cInc>>
  BY UpTypes DEF Exchange, TypeOK, ClientTypeOK
<1>b. last \in Nat
  <2>1. Head(downCtl[cconn]) \in CtlMsg
    BY ExchangeType
  <2> QED
    BY <2>1 DEF CtlMsg
<1>c. upData[cconn] = <<>> /\ (sconn = cconn => last = sRecvSeq)
  BY <1>a, ExchangeType, ZenonT(60) DEF HandshakeInv
<1>d. upData' = PutAll(upData, cconn, e)
  BY Zenon DEF Exchange
<1>1. CASE ~ alive[cconn]
  <2>1. upData' = upData
    BY <1>1, <1>d, ZenonT(60) DEF PutAll
  <2>2. cInc' \in Nat /\ cSendSeq' >= cSendSeq /\ cOldest' >= cOldest
    BY <1>a
  <2>3. ~ (cpc' = "io" /\ alive'[cconn'])
    BY <1>1, <1>a, ZenonT(60)
  <2>4. cSendSeq' \in Nat /\ cOldest' \in Nat
    BY <1>a
  <2> QED
    BY <1>a, <2>1, <2>2, <2>3, <2>4, UpFrame, ZenonT(60)
<1>2. CASE alive[cconn]
  <2> HIDE DEF last
  <2>1. missed \in Seq(Nat \ {0})
    BY <1>a, <1>b, ReplayRun, ZenonT(60)
  <2>2. \A i \in DOMAIN missed : /\ missed[i] = missed[1] + i - 1
                                 /\ missed[i] \in Nat \ {0}
                                 /\ missed[i] > last
                                 /\ missed[i] >= cOldest
                                 /\ missed[i] <= cSendSeq
    BY <1>a, <1>b, ReplayRun, ZenonT(60)
  <2>3. missed = <<>> => cSendSeq <= last \/ cSendSeq < cOldest
    BY <1>a, <1>b, ReplayRun, Zenon
  <2>4. missed # <<>> => /\ missed[1] = last + 1 \/ missed[1] = cOldest
                         /\ missed[Len(missed)] = cSendSeq
    BY <1>a, <1>b, ReplayRun
  <2> HIDE DEF missed
  <2>5. /\ Len(missed) \in Nat /\ DOMAIN missed = 1 .. Len(missed)
        /\ \A i \in DOMAIN missed : [inc |-> cInc, seq |-> missed[i]] \in UpMsg
    BY <1>a, <2>1 DEF UpMsg
  <2>6. /\ e \in Seq(UpMsg) /\ DOMAIN e = 1 .. Len(missed) /\ Len(e) = Len(missed)
        /\ \A i \in DOMAIN e : i \in DOMAIN missed /\ e[i] = [inc |-> cInc, seq |-> missed[i]]
    BY <2>5
  <2>7. /\ e = <<>> <=> missed = <<>>
        /\ e # <<>> => /\ 1 \in DOMAIN e /\ Len(e) \in DOMAIN e
                       /\ e[1] = [inc |-> cInc, seq |-> missed[1]]
                       /\ e[Len(e)] = [inc |-> cInc, seq |-> missed[Len(missed)]]
    BY <2>1, <2>5, <2>6
  <2> HIDE DEF e
  <2>8. /\ upData'[cconn] = e
        /\ \A k \in Conn : k # cconn => upData'[k] = upData[k]
    <3>1. upData' = [upData EXCEPT ![cconn] = @ \o e]
      BY <1>2, <1>d, ZenonT(60) DEF PutAll
    <3>2. <<>> \o e = e
      BY <2>6, SMTT(60)
    <3> QED
      BY <1>a, <1>c, <3>1, <3>2, ZenonT(60)
  <2>9. \A i \in DOMAIN e : /\ e[i].inc = cInc
                            /\ e[i].seq = e[1].seq + i - 1
                            /\ e[i].seq <= cSendSeq'
    <3> TAKE i \in DOMAIN e
    <3>1. e[i] = [inc |-> cInc, seq |-> missed[i]] /\ i \in DOMAIN missed
      BY <2>6, ZenonT(60)
    <3>2. e[1] = [inc |-> cInc, seq |-> missed[1]]
      BY <2>6, <2>7
    <3>3. e[i].inc = cInc /\ e[i].seq = missed[i] /\ e[1].seq = missed[1]
      BY <3>1, <3>2
    <3>4. missed[i] = missed[1] + i - 1 /\ missed[i] <= cSendSeq
      BY <2>2, <3>1, ZenonT(60)
    <3> QED
      BY <1>a, <3>3, <3>4, ZenonT(60)
  <2>10. e # <<>> => e[1].inc = cInc /\ e[1].seq = missed[1] /\ e[Len(e)].seq = cSendSeq'
    BY <1>a, <2>4, <2>7
  <2>11. missed # <<>> => 1 \in DOMAIN missed
    BY <2>5, <2>1
  <2>12. sconn = cconn /\ e # <<>> => \A i \in DOMAIN ptyIn : Before(ptyIn[i], e[1])
    <3> SUFFICES ASSUME sconn = cconn, e # <<>>, NEW i \in DOMAIN ptyIn
                 PROVE  Before(ptyIn[i], e[1])
      BY ZenonT(60)
    <3>1. /\ e[1].inc = cInc /\ e[1].seq = missed[1] /\ missed[1] \in Nat
          /\ missed[1] > last /\ last = sRecvSeq
      BY <1>c, <2>2, <2>7, <2>10, <2>11, ZenonT(60)
    <3>2. Issued(ptyIn[i]) /\ ptyIn[i].inc \in Nat /\ ptyIn[i].seq \in Nat
      BY <1>0, UpTypes, ZenonT(60) DEF UpInv, RecvIsLastIn
    <3>3. ptyIn[i].inc = cInc => ptyIn[i].seq <= sRecvSeq
      BY <1>0, RecvBounds, ZenonT(60) DEF UpInv
    <3> QED
      BY <1>a, <3>1, <3>2, <3>3, SMTT(60) DEF Issued, Before
  <2>13. cInc = 1 /\ sconn = cconn =>
           /\ e # <<>> => \A s \in 1 .. e[1].seq - 1 : Settled(s)
           /\ e = <<>> => \A s \in 1 .. cSendSeq' : Settled(s)
    <3> SUFFICES ASSUME cInc = 1, sconn = cconn,
                        NEW s \in Nat \ {0}, s <= last \/ s < cOldest
                 PROVE  Settled(s)
      <4>1. ASSUME cInc = 1, sconn = cconn, e # <<>>, NEW s \in 1 .. e[1].seq - 1
            PROVE  s \in Nat \ {0} /\ (s <= last \/ s < cOldest)
        <5>1. missed[1] \in Nat \ {0} /\ (missed[1] = last + 1 \/ missed[1] = cOldest)
          BY <2>2, <2>4, <2>7, <2>11, <4>1, ZenonT(60)
        <5>2. s \in 1 .. missed[1] - 1
          BY <2>10, <4>1, ZenonT(60)
        <5> QED
          BY <1>a, <1>b, <5>1, <5>2
      <4>2. ASSUME e = <<>>, NEW s \in 1 .. cSendSeq'
            PROVE  s \in Nat \ {0} /\ (s <= last \/ s < cOldest)
        BY <1>a, <1>b, <2>3, <2>7, <4>2
      <4> QED
        BY <4>1, <4>2, ZenonT(60)
    <3>1. CASE s < cOldest
      BY <3>1, ZenonT(60) DEF Settled
    <3>2. CASE s <= last
      <4>1. s \in 1 .. sRecvSeq
        BY <1>a, <1>c, <3>2
      <4> QED
        BY <1>0, <4>1, ZenonT(60) DEF UpCompleteInv, PtyInputComplete
    <3> QED
      BY <3>1, <3>2
  <2>14. cSendSeq' \in Nat /\ cSendSeq' >= cSendSeq /\ cOldest' \in Nat /\ cOldest' >= cOldest
    BY <1>a
  <2> QED
    BY <1>a, <2>6, <2>8, <2>9, <2>10, <2>12, <2>13, <2>14, UpExtend, ZenonT(60)
<1> QED
  BY <1>1, <1>2
=============================================================================

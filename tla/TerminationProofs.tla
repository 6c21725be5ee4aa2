------------------------- MODULE TerminationProofs --------------------------
(***************************************************************************)
(* How a session ends, for any amount of output and any number of faults:  *)
(* the last output is in front of Shutdown, and Shutdown is not missed.    *)
(***************************************************************************)
EXTENDS Termination, TLAPS

-----------------------------------------------------------------------------
(* Output in order, and where it is.                                       *)

\* The chunks a + 1, ..., b, in this order.
Numbered(s, a, b) == Len(s) = b - a /\ \A k \in 1 .. Len(s) : s[k] = a + k

\* e tells where the messages of q end: together they hold the chunks a + 1 ... b.
Ends(e, q, a, b) ==
  /\ e \in [0 .. Len(q) -> 0 .. MaxOut]
  /\ e[0] = a /\ e[Len(q)] = b
  /\ \A i \in 1 .. Len(q) : Numbered(q[i].chunks, e[i - 1], e[i])

\* q holds the chunks a + 1 ... b, cut into messages somehow.
Carries(q, a, b) == \E e \in [0 .. Len(q) -> 0 .. MaxOut] : Ends(e, q, a, b)

\* An error is the last thing on a stream, and there only once its reader and the
\* connection are gone.
ErrLast ==
  \A t \in Streams : \A i \in DOMAIN down[t] :
    down[t][i].type = "err" => i = Len(down[t]) /\ t \notin cReading /\ ~alive

\* What is on the data stream.
DataStream ==
  \A i \in DOMAIN down["data"] :
    \/ down["data"][i].type = "Data"
    \/ down["data"][i] = Err

\* Whoever left the connection closed it or found it broken.
Closed ==
  /\ cpc \in CExits \cup {"drainctl"} => ~alive /\ down["data"] = <<>>
  /\ cpc = "drainctl" => "data" \notin cReading
  /\ cut => ~alive

\* Events of two readers and of the client's Shutdown.
EventsFit ==
  Len(streamCh) <= (IF "control" \in sReading THEN 0 ELSE 1)
                   + (IF "data" \in sReading THEN 0 ELSE 1)
                   + (IF cpc = "left" /\ ~bye THEN 1 ELSE 0)

\* Shutdown is on its way, or has been taken by the client.
Announced == Holds(down["control"], "Shutdown") \/ cpc \in {"drain", "exitShutdown"}

\* What the shell wrote is, in order, in the PTY, in ptyDataCh and in the coalescer.
PtyRuns ==
  /\ Taken >= 0
  /\ Numbered(tty, written - Len(tty), written)
  /\ Numbered(ptyCh, Taken, Taken + Len(ptyCh))
  /\ spc = "select" => Numbered(coal, Taken - Len(coal), Taken)

\* And before that on stdout and on the data stream, all of it while the session has
\* the connection, and from the moment Shutdown is announced.
OutRuns ==
  /\ Numbered(out, 0, Len(out))
  /\ \E n \in 0 .. MaxOut : Carries(down["data"], Len(out), n)
  /\ alive /\ sconn /\ spc = "select" => Carries(down["data"], Len(out), Taken - Len(coal))
  /\ Announced => spc # "select"
  /\ Announced /\ ~cut => Carries(down["data"], Len(out), Taken)

\* Runs of chunks put together and taken apart.
LEMMA NumberedNone == \A a \in Int : Numbered(<<>>, a, a)
BY DEF Numbered

\* One more at the end.
LEMMA NumberedAppend ==
  ASSUME NEW S, S \subseteq Int, NEW s \in Seq(S), NEW a \in Int, NEW b \in Int, Numbered(s, a, b)
  PROVE  Numbered(Append(s, b + 1), a, b + 1)
<1>1. Len(s) \in Nat /\ Len(s) = b - a /\ \A k \in 1 .. Len(s) : s[k] = a + k
  BY DEF Numbered
<1>2. Len(Append(s, b + 1)) = Len(s) + 1
  OBVIOUS
<1>3. \A k \in 1 .. Len(s) + 1 : Append(s, b + 1)[k] = IF k <= Len(s) THEN s[k] ELSE b + 1
  OBVIOUS
<1>4. \A k \in 1 .. Len(s) + 1 : Append(s, b + 1)[k] = a + k
  BY <1>1, <1>3
<1> QED
  BY <1>1, <1>2, <1>4 DEF Numbered

\* One less at the front.
LEMMA NumberedTail ==
  ASSUME NEW S, S \subseteq Int, NEW s \in Seq(S), NEW a \in Int, NEW b \in Int, Numbered(s, a, b),
         s # <<>>
  PROVE  Head(s) = a + 1 /\ Numbered(Tail(s), a + 1, b)
<1>1. Len(s) \in Nat /\ Len(s) = b - a /\ \A k \in 1 .. Len(s) : s[k] = a + k
  BY DEF Numbered
<1>2. /\ Len(s) > 0 /\ Head(s) = s[1] /\ Len(Tail(s)) = Len(s) - 1
      /\ \A k \in 1 .. Len(s) - 1 : Tail(s)[k] = s[k + 1]
  OBVIOUS
<1> QED
  BY <1>1, <1>2 DEF Numbered

\* Two runs, one after the other.
LEMMA NumberedConcat ==
  ASSUME NEW S, S \subseteq Int, NEW s \in Seq(S), NEW t \in Seq(S),
         NEW a \in Int, NEW b \in Int, NEW c \in Int, Numbered(s, a, b), Numbered(t, b, c)
  PROVE  Numbered(s \o t, a, c)
<1>1. Len(s) \in Nat /\ Len(s) = b - a /\ \A k \in 1 .. Len(s) : s[k] = a + k
  BY DEF Numbered
<1>2. /\ Len(t) \in Nat /\ Len(s \o t) = Len(s) + Len(t)
      /\ \A k \in 1 .. Len(s) + Len(t) :
            (s \o t)[k] = IF k <= Len(s) THEN s[k] ELSE t[k - Len(s)]
  OBVIOUS
<1>3. Len(t) = c - b /\ \A k \in 1 .. Len(t) : t[k] = b + k
  BY DEF Numbered
<1>4. ASSUME NEW k \in 1 .. Len(s) + Len(t)
      PROVE  (s \o t)[k] = a + k
  <2>1. CASE k <= Len(s)
    BY <1>1, <1>2, <2>1
  <2>2. CASE k > Len(s)
    <3>1. k - Len(s) \in 1 .. Len(t) /\ (s \o t)[k] = t[k - Len(s)]
      BY <1>1, <1>2, <2>2
    <3>2. t[k - Len(s)] = b + (k - Len(s))
      BY <1>3, <3>1
    <3> QED
      BY <1>1, <3>1, <3>2
  <2> QED
    BY <1>1, <2>1, <2>2
<1>5. Len(s \o t) = c - a /\ \A k \in 1 .. Len(s \o t) : (s \o t)[k] = a + k
  BY <1>1, <1>2, <1>3, <1>4
<1> QED
  BY <1>5 DEF Numbered

\* A message that is sent behind the others.
LEMMA CarriesSend ==
  ASSUME NEW q \in Seq(Messages), NEW m \in Messages, NEW a, NEW b, NEW c \in 0 .. MaxOut,
         Carries(q, a, b), Numbered(m.chunks, b, c)
  PROVE  Carries(Append(q, m), a, c)
<1> DEFINE r == Append(q, m)
<1>1. PICK e \in [0 .. Len(q) -> 0 .. MaxOut] : Ends(e, q, a, b)
  BY DEF Carries
<1>2. /\ Len(q) \in Nat /\ Len(r) = Len(q) + 1 /\ r[Len(q) + 1] = m
      /\ \A i \in 1 .. Len(q) : r[i] = q[i]
  OBVIOUS
<1> HIDE DEF r
<1> DEFINE f == [i \in 0 .. Len(r) |-> IF i <= Len(q) THEN e[i] ELSE c]
<1>3. f \in [0 .. Len(r) -> 0 .. MaxOut]
  BY <1>2
<1>4. f[0] = a /\ f[Len(q)] = b /\ f[Len(r)] = c
  BY <1>1, <1>2 DEF Ends
<1>5. ASSUME NEW i \in 1 .. Len(r)
      PROVE  Numbered(r[i].chunks, f[i - 1], f[i])
  <2>1. CASE i <= Len(q)
    <3>1. i \in 1 .. Len(q) /\ f[i - 1] = e[i - 1] /\ f[i] = e[i] /\ r[i] = q[i]
      BY <1>2, <2>1
    <3> QED
      BY <1>1, <3>1 DEF Ends
  <2>2. CASE i = Len(q) + 1
    <3>1. r[i] = m /\ f[i - 1] = b /\ f[i] = c
      BY <1>2, <1>4, <2>2
    <3> QED
      BY <3>1
  <2> QED
    BY <1>2, <2>1, <2>2
<1>6. Ends(f, r, a, c)
  BY <1>3, <1>4, <1>5, Zenon DEF Ends
<1> HIDE DEF f
<1>7. Carries(r, a, c)
  BY <1>3, <1>6 DEF Carries
<1> QED
  BY <1>7 DEF r

\* A message that is taken from the front.
LEMMA CarriesTake ==
  ASSUME NEW q \in Seq(Messages), NEW a, NEW b, Carries(q, a, b)
  PROVE  /\ a \in 0 .. MaxOut /\ b \in 0 .. MaxOut
         /\ q = <<>> => a = b
         /\ q # <<>> => \E c \in 0 .. MaxOut :
              Numbered(Head(q).chunks, a, c) /\ Carries(Tail(q), c, b)
<1>1. PICK e \in [0 .. Len(q) -> 0 .. MaxOut] : Ends(e, q, a, b)
  BY DEF Carries
<1>2. /\ Len(q) \in Nat /\ a = e[0] /\ b = e[Len(q)] /\ 0 \in 0 .. Len(q)
      /\ Len(q) \in 0 .. Len(q)
  BY <1>1 DEF Ends
<1>3. q = <<>> => a = b
  BY <1>2
<1>4. ASSUME q # <<>>
      PROVE  \E c \in 0 .. MaxOut : Numbered(Head(q).chunks, a, c) /\ Carries(Tail(q), c, b)
  <2> DEFINE r == Tail(q)
  <2>1. /\ Len(q) > 0 /\ Len(r) = Len(q) - 1 /\ Head(q) = q[1]
        /\ \A i \in 1 .. Len(q) - 1 : r[i] = q[i + 1]
    BY <1>4
  <2> HIDE DEF r
  <2> DEFINE f == [i \in 0 .. Len(r) |-> e[i + 1]]
  <2>2. f \in [0 .. Len(r) -> 0 .. MaxOut]
    BY <1>2, <2>1
  <2>3. f[0] = e[1] /\ f[Len(r)] = b
    BY <1>2, <2>1
  <2>4. ASSUME NEW i \in 1 .. Len(r)
        PROVE  Numbered(r[i].chunks, f[i - 1], f[i])
    <3>1. i + 1 \in 1 .. Len(q) /\ f[i - 1] = e[i] /\ f[i] = e[i + 1] /\ r[i] = q[i + 1]
      BY <1>2, <2>1
    <3>2. Numbered(q[i + 1].chunks, e[(i + 1) - 1], e[i + 1])
      BY <1>1, <3>1 DEF Ends
    <3>3. (i + 1) - 1 = i
      OBVIOUS
    <3> QED
      BY <3>1, <3>2, <3>3
  <2>5. Ends(f, r, e[1], b)
    BY <2>2, <2>3, <2>4, Zenon DEF Ends
  <2> HIDE DEF f
  <2>6. Carries(r, e[1], b)
    BY <2>2, <2>5 DEF Carries
  <2>7. e[1] \in 0 .. MaxOut /\ Numbered(q[1].chunks, e[0], e[1])
    <3>1. 1 \in 1 .. Len(q) /\ 1 \in 0 .. Len(q) /\ 1 - 1 = 0
      BY <1>2, <2>1
    <3>2. Numbered(q[1].chunks, e[1 - 1], e[1])
      BY <1>1, <3>1 DEF Ends
    <3> QED
      BY <3>1, <3>2
  <2> QED
    BY <1>2, <2>1, <2>6, <2>7 DEF r
<1> QED
  BY <1>2, <1>3, <1>4

\* What a reader passes on before its error.
LEMMA CarriesPrefix ==
  ASSUME NEW q \in Seq(Messages), NEW a, NEW b, Carries(q, a, b), NEW n \in 0 .. Len(q)
  PROVE  \E c \in 0 .. MaxOut : Carries(SubSeq(q, 1, n), a, c) /\ (n = Len(q) => c = b)
<1> DEFINE r == SubSeq(q, 1, n)
<1>1. PICK e \in [0 .. Len(q) -> 0 .. MaxOut] : Ends(e, q, a, b)
  BY DEF Carries
<1>2. Len(q) \in Nat /\ Len(r) = n /\ \A i \in 1 .. n : r[i] = q[i]
  OBVIOUS
<1> HIDE DEF r
<1> DEFINE f == [i \in 0 .. n |-> e[i]]
<1>3. f \in [0 .. n -> 0 .. MaxOut] /\ e[n] \in 0 .. MaxOut
  BY <1>2
<1>4. f[0] = a /\ f[n] = e[n] /\ (n = Len(q) => e[n] = b)
  BY <1>1, <1>2 DEF Ends
<1>5. ASSUME NEW i \in 1 .. n
      PROVE  Numbered(r[i].chunks, f[i - 1], f[i])
  <2>1. i \in 1 .. Len(q) /\ f[i - 1] = e[i - 1] /\ f[i] = e[i] /\ r[i] = q[i]
    BY <1>2
  <2> QED
    BY <1>1, <2>1 DEF Ends
<1>6. Ends(f, r, a, e[n])
  BY <1>2, <1>3, <1>4, <1>5, Zenon DEF Ends
<1> HIDE DEF f
<1>7. Carries(r, a, e[n])
  BY <1>2, <1>3, <1>6 DEF Carries
<1> QED
  BY <1>3, <1>4, <1>7 DEF r

\* Nothing is carried from a place to itself, and an error carries nothing.
LEMMA CarriesNone ==
  ASSUME NEW a \in 0 .. MaxOut
  PROVE  Carries(<<>>, a, a) /\ Numbered(Err.chunks, a, a) /\ Err \in Messages
<1> DEFINE f == [i \in 0 .. 0 |-> a]
<1>1. f \in [0 .. Len(<<>>) -> 0 .. MaxOut] /\ f[0] = a
  OBVIOUS
<1>2. Ends(f, <<>>, a, a)
  BY <1>1 DEF Ends
<1> HIDE DEF f
<1>3. Carries(<<>>, a, a)
  BY <1>1, <1>2 DEF Carries
<1>4. Numbered(<<>>, a, a)
  BY DEF Numbered
<1> QED
  BY <1>3, <1>4 DEF Err, Msg, Messages

\* Sending to a stream.
LEMMA Sending ==
  ASSUME NEW q \in [Streams -> Seq(Messages)], NEW m \in Messages
  PROVE  /\ StreamOf(m) \in Streams
         /\ Send(q, m) \in [Streams -> Seq(Messages)]
         /\ Send(q, m)[StreamOf(m)] = Append(q[StreamOf(m)], m)
         /\ \A t \in Streams : t # StreamOf(m) => Send(q, m)[t] = q[t]
<1>1. StreamOf(m) \in Streams
  BY DEF StreamOf, Streams
<1> QED
  BY <1>1 DEF Send

\* The conjuncts of TypeOK, by kind, with the bound on streamCh that it rests on.
Flags ==
  /\ tcp \in BOOLEAN /\ alive \in BOOLEAN /\ bye \in BOOLEAN /\ cut \in BOOLEAN
  /\ sconn \in BOOLEAN /\ ctx \in BOOLEAN /\ shellDone \in BOOLEAN
  /\ ptyEOF \in BOOLEAN /\ ptyOn \in BOOLEAN /\ hup \in BOOLEAN

Places ==
  /\ cpc \in {"select", "drain", "drainctl"} \cup CExits
  /\ spc \in {"select", "sleep", "cleanup", "grace", "exited"}
  /\ shell \in {"running", "exited", "killed"}
  /\ cReading \subseteq Streams /\ sReading \subseteq Streams

Counts == faults \in 0 .. MaxFaults /\ beats \in 0 .. MaxBeats /\ written \in 0 .. MaxOut

Chunks ==
  /\ out \in Seq(1 .. MaxOut) /\ coal \in Seq(1 .. MaxOut)
  /\ tty \in Seq(1 .. MaxOut) /\ ptyCh \in Seq(1 .. MaxOut)

Wires == down \in [Streams -> Seq(Messages)]

Events ==
  /\ streamCh \in Seq({"Shutdown", "err"}) /\ EventsFit
  /\ bye => cpc = "left"

EndTypes == Flags /\ Places /\ Counts /\ Chunks /\ Wires /\ Events

\* Every step keeps the types, and streamEventCh has room for what the readers send.
LEMMA EndTypeStep ==
  ASSUME EndTypes, [Next]_vars
  PROVE  EndTypes'
<1> USE TerminationAssumption DEF netVars, cVars, sVars, ptyVars
<1> DEFINE K == 1 .. MaxOut
<1>h. Flags /\ Places /\ Counts /\ Chunks /\ Wires /\ Events
  BY DEF EndTypes
<1>a. [t \in Streams |-> <<>>] \in [Streams -> Seq(Messages)]
  OBVIOUS
<1>b. \A t \in Streams : down[t] # <<>> =>
        [down EXCEPT ![t] = Tail(@)] \in [Streams -> Seq(Messages)] /\ Head(down[t]) \in Messages
  BY <1>h DEF Wires
<1>c. \A q \in [Streams -> Seq(Messages)], m \in Messages : Send(q, m) \in [Streams -> Seq(Messages)]
  BY Sending
<1>d. /\ Msg("Heartbeat", <<>>) \in Messages /\ Msg("Shutdown", <<>>) \in Messages
      /\ \A c \in Seq(1 .. MaxOut) : Msg("Data", c) \in Messages
  BY DEF Msg, Messages
<1>e. /\ \A c, d \in Seq(K) : c \o d \in Seq(K)
      /\ \A c \in Seq(K), x \in K : Append(c, x) \in Seq(K)
      /\ \A c \in Seq(K) : c # <<>> => Head(c) \in K /\ Tail(c) \in Seq(K)
  <2> HIDE DEF K
  <2> QED
    OBVIOUS
<1>f. "control" \in Streams /\ "data" \in Streams /\ \A m \in Messages : m.chunks \in Seq(K)
  BY DEF Streams, Messages
<1>1. CASE NetBreak
  <2>1. Counts'
    BY <1>1, <1>h DEF NetBreak, Fault, Counts
  <2>2. Flags'
    BY <1>1, <1>h, Zenon DEF NetBreak, Fault, Flags
  <2>3. Places' /\ Chunks' /\ Wires' /\ Events'
    BY <1>1, <1>h, <1>a DEF NetBreak, Fault, Places, CExits, Reconnects, Chunks, Wires,
       Events, EventsFit
  <2> QED
    BY <2>1, <2>2, <2>3 DEF EndTypes
<1>2. CASE ClientControl
  <2>1. Wires'
    BY <1>2, <1>h, <1>a, <1>b, <1>f, Zenon DEF ClientControl, Exit, Take, Wires
  <2>2. Places'
    BY <1>2, <1>h DEF ClientControl, Exit, Take, Places, CExits, Reconnects
  <2>3. Flags' /\ Counts' /\ Chunks' /\ Events'
    BY <1>2, <1>h DEF ClientControl, Exit, Take, Flags, Counts, Chunks, Events, EventsFit
  <2> QED
    BY <2>1, <2>2, <2>3 DEF EndTypes
<1>3. CASE ClientData
  <2>1. Chunks'
    <3>1. /\ UNCHANGED <<coal, tty, ptyCh>> /\ Head(down["data"]) \in Messages
          /\ out' = out \/ out' = out \o Head(down["data"]).chunks
      BY <1>3, <1>b, <1>f DEF ClientData
    <3>2. out \in Seq(K) /\ coal \in Seq(K) /\ tty \in Seq(K) /\ ptyCh \in Seq(K)
      BY <1>h DEF Chunks
    <3> HIDE DEF K
    <3>3. out' \in Seq(K) /\ coal' \in Seq(K) /\ tty' \in Seq(K) /\ ptyCh' \in Seq(K)
      <4>1. out \o Head(down["data"]).chunks \in Seq(K)
        BY <1>e, <1>f, <3>1, <3>2
      <4> QED
        BY <3>1, <3>2, <4>1, Zenon
    <3> QED
      BY <3>3 DEF Chunks, K
  <2>2. Wires'
    BY <1>3, <1>h, <1>a, <1>b, <1>f, Zenon DEF ClientData, Exit, Take, Wires
  <2>3. Places'
    BY <1>3, <1>h DEF ClientData, Exit, Take, Places, CExits, Reconnects
  <2>4. Flags' /\ Counts' /\ Events'
    BY <1>3, <1>h DEF ClientData, Exit, Take, Flags, Counts, Events, EventsFit
  <2> QED
    BY <2>1, <2>2, <2>3, <2>4 DEF EndTypes
<1>4. CASE DrainTimeout
  <2>1. Flags'
    BY <1>4, <1>h, Zenon DEF DrainTimeout, Exit, Flags
  <2>2. Places' /\ Counts' /\ Chunks' /\ Wires' /\ Events'
    BY <1>4, <1>h, <1>a DEF DrainTimeout, Exit, Places, CExits, Reconnects, Counts, Chunks,
       Wires, Events, EventsFit
  <2> QED
    BY <2>1, <2>2 DEF EndTypes
<1>5. CASE DrainForShutdown
  BY <1>5, <1>h, <1>a DEF DrainForShutdown, Exit, EndTypes, Flags, Places, Counts, Chunks,
     Wires, Events, EventsFit,
    CExits, Reconnects
<1>6. CASE DrainForShutdownTimeout
  BY <1>6, <1>h, <1>a DEF DrainForShutdownTimeout, Exit, EndTypes, Flags, Places, Counts,
     Chunks, Wires, Events, EventsFit,
    CExits, Reconnects
<1>7. CASE ClientWriteFails
  BY <1>7, <1>h, <1>a DEF ClientWriteFails, Exit, EndTypes, Flags, Places, Counts, Chunks,
     Wires, Events, EventsFit,
    CExits, Reconnects
<1>8. CASE ClientTimeout
  <2>1. Counts'
    BY <1>8, <1>h DEF ClientTimeout, Fault, Exit, Counts
  <2>2. Flags'
    BY <1>8, <1>h, Zenon DEF ClientTimeout, Fault, Exit, Flags
  <2>3. Places' /\ Chunks' /\ Wires' /\ Events'
    BY <1>8, <1>h, <1>a DEF ClientTimeout, Fault, Exit, Places, CExits, Reconnects, Chunks,
       Wires, Events, EventsFit
  <2> QED
    BY <2>1, <2>2, <2>3 DEF EndTypes
<1>9. CASE ClientLeaves
  <2>1. Flags'
    BY <1>9, <1>h, Zenon DEF ClientLeaves, Exit, Flags
  <2>2. Events'
    BY <1>9, <1>h DEF ClientLeaves, Exit, Events, EventsFit
  <2>3. Places' /\ Counts' /\ Chunks' /\ Wires'
    BY <1>9, <1>h, <1>a DEF ClientLeaves, Exit, Places, CExits, Reconnects, Counts, Chunks,
       Wires
  <2> QED
    BY <2>1, <2>2, <2>3 DEF EndTypes
<1>10. CASE SessionReads
  <2>1. Events'
    BY <1>10, <1>h DEF SessionReads, Events, EventsFit
  <2>2. Flags'
    BY <1>10, <1>h, Zenon DEF SessionReads, Flags
  <2>3. Places' /\ Counts' /\ Chunks' /\ Wires'
    BY <1>10, <1>h, <1>a DEF SessionReads, Places, CExits, Reconnects, Counts, Chunks, Wires
  <2> QED
    BY <2>1, <2>2, <2>3 DEF EndTypes
<1>11. CASE PtyData
  <2>1. Chunks'
    <3>1. /\ UNCHANGED <<out, tty>> /\ ptyCh # <<>> /\ ptyCh' = Tail(ptyCh)
          /\ coal' = <<>> \/ coal' = Append(coal, Head(ptyCh))
      BY <1>11 DEF PtyData, FlushCoalesced
    <3>2. out \in Seq(K) /\ coal \in Seq(K) /\ tty \in Seq(K) /\ ptyCh \in Seq(K)
      BY <1>h DEF Chunks
    <3> HIDE DEF K
    <3>3. out' \in Seq(K) /\ coal' \in Seq(K) /\ tty' \in Seq(K) /\ ptyCh' \in Seq(K)
      <4>1. ptyCh' \in Seq(K) /\ Append(coal, Head(ptyCh)) \in Seq(K)
        BY <1>e, <3>1, <3>2
      <4>2. <<>> \in Seq(K)
        OBVIOUS
      <4>3. coal' \in Seq(K)
        BY <3>1, <4>1, <4>2, Zenon
      <4> QED
        BY <3>1, <3>2, <4>1, <4>3
    <3> QED
      BY <3>3 DEF Chunks, K
  <2>2. Wires'
    BY <1>11, <1>h, <1>c, <1>d, <1>e, Zenon DEF PtyData, FlushCoalesced, Wires, Chunks
  <2>3. Flags'
    BY <1>11, <1>h DEF PtyData, FlushCoalesced, Flags
  <2>4. Places' /\ Counts' /\ Events'
    BY <1>11, <1>h DEF PtyData, FlushCoalesced, Places, CExits, Reconnects, Counts, Events,
       EventsFit
  <2> QED
    BY <2>1, <2>2, <2>3, <2>4 DEF EndTypes
<1>12. CASE PtyClosed
  <2>1. Wires'
    BY <1>12, <1>h, <1>c, <1>d, Zenon DEF PtyClosed, FlushCoalesced, Wires, Chunks
  <2>2. Flags'
    BY <1>12, <1>h, Zenon DEF PtyClosed, FlushCoalesced, Flags
  <2>3. Places' /\ Counts' /\ Chunks' /\ Events'
    BY <1>12, <1>h DEF PtyClosed, FlushCoalesced, Places, CExits, Reconnects, Counts,
       Chunks, Events, EventsFit
  <2> QED
    BY <2>1, <2>2, <2>3 DEF EndTypes
<1>13. CASE CoalTimer
  <2>1. Wires'
    BY <1>13, <1>h, <1>c, <1>d, Zenon DEF CoalTimer, FlushCoalesced, Wires, Chunks
  <2>2. Flags'
    BY <1>13, <1>h DEF CoalTimer, FlushCoalesced, Flags
  <2>3. Places' /\ Counts' /\ Chunks' /\ Events'
    BY <1>13, <1>h DEF CoalTimer, FlushCoalesced, Places, CExits, Reconnects, Counts,
       Chunks, Events, EventsFit
  <2> QED
    BY <2>1, <2>2, <2>3 DEF EndTypes
<1>14. CASE Heartbeat
  <2>1. Counts'
    <3>1. beats' = beats + 1 /\ beats < MaxBeats /\ UNCHANGED written
      BY <1>14 DEF Heartbeat
    <3>2. faults' = faults \/ (faults < MaxFaults /\ faults' = faults + 1)
      BY <1>14, Zenon DEF Heartbeat, Fault
    <3> QED
      BY <1>h, <3>1, <3>2 DEF Counts
  <2>2. Wires'
    BY <1>14, <1>h, <1>c, <1>d DEF Heartbeat, Fault, Wires
  <2>3. Flags'
    BY <1>14, <1>h, Zenon DEF Heartbeat, Fault, Flags
  <2>4. Places' /\ Chunks' /\ Events'
    BY <1>14, <1>h DEF Heartbeat, Fault, Places, CExits, Reconnects, Chunks, Events,
       EventsFit
  <2> QED
    BY <2>1, <2>2, <2>3, <2>4 DEF EndTypes
<1>15. CASE StreamEvent
  <2>1. Events'
    BY <1>15, <1>h DEF StreamEvent, Events, EventsFit
  <2>2. Flags'
    BY <1>15, <1>h, Zenon DEF StreamEvent, Flags
  <2>3. Places' /\ Counts' /\ Chunks' /\ Wires'
    BY <1>15, <1>h, <1>a DEF StreamEvent, Places, CExits, Reconnects, Counts, Chunks, Wires
  <2> QED
    BY <2>1, <2>2, <2>3 DEF EndTypes
<1>16. CASE Cancel
  BY <1>16, <1>h, <1>a DEF Cancel, EndTypes, Flags, Places, Counts, Chunks, Wires, Events,
     EventsFit,
    CExits, Reconnects
<1>17. CASE GracefulShutdown
  <2>1. Wires'
    BY <1>17, <1>h, <1>c, <1>d, Zenon DEF GracefulShutdown, Wires, Chunks
  <2>2. Flags'
    BY <1>17, <1>h DEF GracefulShutdown, Flags
  <2>3. Chunks'
    BY <1>17, <1>h DEF GracefulShutdown, Chunks
  <2>4. Places' /\ Counts' /\ Events'
    BY <1>17, <1>h DEF GracefulShutdown, Places, CExits, Reconnects, Counts, Events,
       EventsFit
  <2> QED
    BY <2>1, <2>2, <2>3, <2>4 DEF EndTypes
<1>18. CASE AcceptCancelled
  BY <1>18, <1>h, <1>a DEF AcceptCancelled, EndTypes, Flags, Places, Counts, Chunks, Wires,
     Events, EventsFit,
    CExits, Reconnects
<1>19. CASE Slept
  BY <1>19, <1>h, <1>a DEF Slept, EndTypes, Flags, Places, Counts, Chunks, Wires, Events,
     EventsFit,
    CExits, Reconnects
<1>20. CASE Cleanup
  <2>1. Events'
    BY <1>20, <1>h DEF Cleanup, Events, EventsFit
  <2>2. Flags'
    BY <1>20, <1>h, Zenon DEF Cleanup, Flags
  <2>3. Places' /\ Counts' /\ Chunks' /\ Wires'
    BY <1>20, <1>h, <1>a DEF Cleanup, Places, CExits, Reconnects, Counts, Chunks, Wires
  <2> QED
    BY <2>1, <2>2, <2>3 DEF EndTypes
<1>21. CASE CleanupShell
  BY <1>21, <1>h, <1>a DEF CleanupShell, EndTypes, Flags, Places, Counts, Chunks, Wires,
     Events, EventsFit,
    CExits, Reconnects
<1>22. CASE ShellWrites
  <2>1. Counts'
    BY <1>22, <1>h DEF ShellWrites, ptyRest, Counts
  <2>2. Chunks'
    BY <1>22, <1>h, <1>e DEF ShellWrites, ptyRest, Chunks, Counts
  <2>3. Flags' /\ Places' /\ Wires' /\ Events'
    BY <1>22, <1>h, <1>a DEF ShellWrites, ptyRest, Flags, Places, CExits, Reconnects,
       Wires, Events, EventsFit
  <2> QED
    BY <2>1, <2>2, <2>3 DEF EndTypes
<1>23. CASE ShellExits
  BY <1>23, <1>h, <1>a DEF ShellExits, ptyRest, EndTypes, Flags, Places, Counts, Chunks,
     Wires, Events, EventsFit,
    CExits, Reconnects
<1>24. CASE WaitShell
  BY <1>24, <1>h, <1>a DEF WaitShell, ptyRest, EndTypes, Flags, Places, Counts, Chunks,
     Wires, Events, EventsFit,
    CExits, Reconnects
<1>25. CASE ReadPTY
  <2>1. Chunks'
    BY <1>25, <1>h, <1>e DEF ReadPTY, ptyRest, Chunks
  <2>2. Flags' /\ Places' /\ Counts' /\ Wires' /\ Events'
    BY <1>25, <1>h, <1>a DEF ReadPTY, ptyRest, Flags, Places, CExits, Reconnects, Counts,
       Wires, Events, EventsFit
  <2> QED
    BY <2>1, <2>2 DEF EndTypes
<1>26. CASE ReadPTYError
  BY <1>26, <1>h, <1>a DEF ReadPTYError, ptyRest, EndTypes, Flags, Places, Counts, Chunks,
     Wires, Events, EventsFit,
    CExits, Reconnects
<1>27. CASE \E ts \in Readers : ClientReadError(ts)
  <2>1. Wires'
    <3>1. PICK ts \in Readers : ClientReadError(ts)
      BY <1>27
    <3>2. \A t \in Streams : \A i \in 0 .. Len(down[t]) :
            Append(SubSeq(down[t], 1, i), Err) \in Seq(Messages) /\ down[t] \in Seq(Messages)
      <4>1. \A q \in Seq(Messages) : \A i \in 0 .. Len(q) : SubSeq(q, 1, i) \in Seq(Messages)
        OBVIOUS
      <4>2. Err \in Messages
        BY DEF Err, Msg, Messages
      <4> QED
        BY <1>h, <4>1, <4>2 DEF Wires
    <3>3. PICK n \in [ts -> 0 .. MaxOut + MaxBeats + 1] :
            /\ \A t \in ts : n[t] <= Len(down[t])
            /\ down' = [t \in Streams |->
                 IF t \in ts THEN Append(SubSeq(down[t], 1, n[t]), Err) ELSE down[t]]
      BY <3>1 DEF ClientReadError
    <3>4. \A t \in ts : n[t] \in 0 .. Len(down[t])
      BY <1>h, <3>3 DEF Wires
    <3> QED
      BY <3>2, <3>3, <3>4 DEF Wires
  <2>2. Flags'
    BY <1>27, <1>h DEF ClientReadError, Flags
  <2>3. Places' /\ Counts' /\ Chunks' /\ Events'
    BY <1>27, <1>h DEF ClientReadError, Places, CExits, Reconnects, Counts, Chunks, Events,
       EventsFit
  <2> QED
    BY <2>1, <2>2, <2>3 DEF EndTypes
<1>28. CASE \E t \in Streams : SessionReadError(t)
  <2>1. Events'
    <3>1. PICK t \in Streams : SessionReadError(t)
      BY <1>28
    <3>2. streamCh' \in Seq({"Shutdown", "err"}) /\ Len(streamCh') = Len(streamCh) + 1
      BY <1>h, <3>1 DEF SessionReadError, Events
    <3>3. CASE t = "control"
      BY <1>h, <3>1, <3>2, <3>3 DEF SessionReadError, Events, EventsFit
    <3>4. CASE t = "data"
      BY <1>h, <3>1, <3>2, <3>4 DEF SessionReadError, Events, EventsFit
    <3> QED
      BY <3>3, <3>4 DEF Streams
  <2>2. Flags'
    BY <1>28, <1>h, Zenon DEF SessionReadError, Flags
  <2>3. Places' /\ Counts' /\ Chunks' /\ Wires'
    BY <1>28, <1>h, <1>a DEF SessionReadError, Places, CExits, Reconnects, Counts, Chunks,
       Wires
  <2> QED
    BY <2>1, <2>2, <2>3 DEF EndTypes
<1>29. CASE UNCHANGED vars
  BY <1>29, <1>h DEF vars, EndTypes, Flags, Places, Counts, Chunks, Wires, Events, EventsFit
<1> QED
  BY <1>1, <1>2, <1>3, <1>4, <1>5, <1>6, <1>7, <1>8, <1>9, <1>10, <1>11, <1>12, <1>13,
     <1>14, <1>15, <1>16, <1>17, <1>18, <1>19, <1>20, <1>21, <1>22, <1>23, <1>24, <1>25,
     <1>26, <1>27, <1>28, <1>29 DEF Next, ClientStep, SessionStep, Environment

-----------------------------------------------------------------------------

\* What is left of a queue when its first element is taken.
LEMMA TailIs ==
  ASSUME NEW S, NEW q \in Seq(S), q # <<>>
  PROVE  /\ Len(q) \in Nat /\ Len(q) > 0 /\ Len(Tail(q)) = Len(q) - 1
         /\ \A i \in DOMAIN Tail(q) : i \in Nat /\ i + 1 \in DOMAIN q /\ Tail(q)[i] = q[i + 1]
OBVIOUS

\* A sequence without elements.
LEMMA NoneLeft ==
  ASSUME NEW S, NEW q \in Seq(S), Len(q) = 0
  PROVE  q = <<>>
OBVIOUS

\* No error and nothing but data on the data stream.
Clean(q) ==
  \A t \in Streams : \A i \in DOMAIN q[t] :
    q[t][i].type # "err" /\ (t = "data" => q[t][i].type = "Data")

\* A stream of a live connection is clean, and stays so when something is sent.
LEMMA CleanSend ==
  ASSUME NEW q \in [Streams -> Seq(Messages)], Clean(q), NEW m \in Messages, m.type # "err"
  PROVE  Clean(Send(q, m))
<1>1. SUFFICES ASSUME NEW t \in Streams, NEW i \in DOMAIN Send(q, m)[t]
               PROVE  /\ Send(q, m)[t][i].type # "err"
                      /\ t = "data" => Send(q, m)[t][i].type = "Data"
  BY DEF Clean
<1>2. CASE t # StreamOf(m)
  <2>1. Send(q, m)[t] = q[t]
    BY <1>2, Sending
  <2> QED
    BY <2>1 DEF Clean
<1>3. CASE t = StreamOf(m)
  <2>1. Send(q, m)[t] = Append(q[t], m) /\ q[t] \in Seq(Messages)
    BY <1>3, Sending, Zenon
  <2>2. (i \in DOMAIN q[t] /\ Append(q[t], m)[i] = q[t][i]) \/ Append(q[t], m)[i] = m
    BY <2>1
  <2>3. t = "data" => m.type = "Data"
    BY <1>3 DEF StreamOf
  <2> QED
    BY <2>1, <2>2, <2>3 DEF Clean
<1> QED
  BY <1>2, <1>3

\* Which is what the invariant says while the connection is alive.
LEMMA CleanWhileAlive ==
  /\ ErrLast /\ DataStream /\ alive /\ Wires => Clean(down)
  /\ Clean(down) => ErrLast /\ DataStream
<1>1. ASSUME ErrLast, DataStream, alive, Wires
      PROVE  Clean(down)
  <2>1. \A t \in Streams : \A i \in DOMAIN down[t] : down[t][i].type # "err"
    BY <1>1 DEF ErrLast
  <2>2. \A i \in DOMAIN down["data"] : down["data"][i].type = "Data" \/ down["data"][i].type = "err"
    BY <1>1 DEF DataStream, Err, Msg
  <2> QED
    BY <2>1, <2>2 DEF Clean, Streams
<1>2. Clean(down) => ErrLast /\ DataStream
  BY DEF Clean, ErrLast, DataStream, Streams
<1> QED
  BY <1>1, <1>2

\* An error at the head of a stream is all there is on it, and the connection is gone.
LEMMA ErrAtHead ==
  ASSUME Wires, ErrLast, NEW t \in Streams, down[t] # <<>>, Head(down[t]).type = "err"
  PROVE  /\ ~alive /\ t \notin cReading /\ Tail(down[t]) = <<>>
         /\ ~Holds(down[t], "Shutdown")
<1> DEFINE q == down[t]
<1>1. q \in Seq(Messages) /\ q # <<>>
  BY DEF Wires
<1>2. Head(q) = q[1] /\ 1 \in DOMAIN q
  BY <1>1
<1>3. Len(q) = 1 /\ ~alive /\ t \notin cReading
  BY <1>2, Zenon DEF ErrLast
<1>4. DOMAIN q = {1} /\ Len(Tail(q)) = 0 /\ Tail(q) \in Seq(Messages)
  BY <1>1, <1>3
<1> QED
  BY <1>2, <1>3, <1>4, NoneLeft, Zenon DEF Holds

\* A message of another type does not bring one.
LEMMA HoldsBefore ==
  ASSUME NEW r \in Seq(Messages), NEW m, NEW k, m.type # k, Holds(Append(r, m), k)
  PROVE  Holds(r, k)
<1>1. PICK i \in DOMAIN Append(r, m) : Append(r, m)[i].type = k
  BY DEF Holds
<1>2. (i \in DOMAIN r /\ Append(r, m)[i] = r[i]) \/ Append(r, m)[i] = m
  BY <1>1
<1> QED
  BY <1>1, <1>2 DEF Holds

\* Nor does a stream that is empty or has failed hold output.
LEMMA NothingCarried ==
  ASSUME Wires, ErrLast, down["data"] = <<>> \/ Head(down["data"]) = Err,
         NEW a, NEW b, Carries(down["data"], a, b)
  PROVE  a = b
<1> DEFINE q == down["data"]
<1>1. q \in Seq(Messages) /\ "data" \in Streams /\ <<>> \in Seq(Messages)
  BY DEF Wires, Streams
<1>2. CASE q = <<>>
  BY <1>1, <1>2, CarriesTake, Zenon
<1>3. CASE q # <<>> /\ Head(q) = Err
  <2>1. Head(q).chunks = <<>> /\ Head(q).type = "err"
    BY <1>3 DEF Err, Msg
  <2>2. Tail(q) = <<>>
    BY <1>1, <1>3, <2>1, ErrAtHead
  <2>3. PICK c \in 0 .. MaxOut : Numbered(<<>>, a, c) /\ Carries(<<>>, c, b)
    <3>1. \E c \in 0 .. MaxOut : Numbered(Head(q).chunks, a, c) /\ Carries(Tail(q), c, b)
      BY <1>1, <1>3, CarriesTake
    <3> QED
      BY <2>1, <2>2, <3>1, Zenon
  <2>4. c = b
    BY <1>1, <2>3, CarriesTake, Zenon
  <2>5. 0 = c - a /\ a \in Int
    BY <1>1, <2>3, CarriesTake DEF Numbered
  <2> QED
    BY <2>4, <2>5
<1> QED
  BY <1>2, <1>3

\* The steps that touch neither the connection nor the output.
Quiet ==
  \/ SessionReads \/ Cancel \/ AcceptCancelled \/ Slept \/ CleanupShell
  \/ ShellExits \/ WaitShell \/ ReadPTYError \/ UNCHANGED vars

\* They do not.
LEMMA QuietFrame ==
  ASSUME Quiet
  PROVE  UNCHANGED <<down, cReading, cpc, alive, cut, out, sconn, coal, written, tty,
  ptyCh>>
<1> USE DEF netVars, cVars, sVars, ptyVars
<1>1. CASE SessionReads \/ Cancel \/ AcceptCancelled \/ Slept
  BY <1>1, Zenon DEF SessionReads, Cancel, AcceptCancelled, Slept
<1>2. CASE CleanupShell \/ UNCHANGED vars
  BY <1>2, Zenon DEF CleanupShell, vars
<1>3. CASE ShellExits \/ WaitShell \/ ReadPTYError
  BY <1>3, Zenon DEF ShellExits, WaitShell, ReadPTYError, ptyRest
<1> QED
  BY <1>1, <1>2, <1>3, Zenon DEF Quiet

\* The order on the streams, and who closes the connection when.
LEMMA WireStep ==
  ASSUME EndTypes, ErrLast, DataStream, Closed, [Next]_vars
  PROVE  ErrLast' /\ DataStream' /\ Closed'
<1> USE DEF netVars, cVars, sVars, ptyVars
<1>h. Flags /\ Places /\ Counts /\ Chunks /\ Wires /\ Events /\ Wires'
  BY EndTypeStep DEF EndTypes
<1>a. ASSUME down' = [t \in Streams |-> <<>>]
      PROVE  ErrLast' /\ DataStream' /\ down'["data"] = <<>>
  <2>1. Clean(down')
    BY <1>a DEF Clean
  <2> QED
    BY <1>a, <2>1 DEF Clean, ErrLast, DataStream, Streams
<1>b. ASSUME UNCHANGED <<down, cReading>>, alive' => alive
      PROVE  ErrLast' /\ DataStream'
  BY <1>b DEF ErrLast, DataStream
<1>c. ASSUME NEW t \in Streams, down[t] # <<>>, down' = [down EXCEPT ![t] = Tail(@)],
             UNCHANGED <<cReading, alive>>
      PROVE  ErrLast' /\ DataStream'
  <2>1. \A u \in Streams : down[u] \in Seq(Messages)
    BY <1>h DEF Wires
  <2>2. /\ \A u \in Streams : u # t => down'[u] = down[u]
        /\ down'[t] = Tail(down[t])
    BY <1>c, <1>h DEF Wires
  <2>3. /\ Len(down'[t]) = Len(down[t]) - 1 /\ Len(down[t]) \in Nat
        /\ \A i \in DOMAIN down'[t] : i + 1 \in DOMAIN down[t] /\ down'[t][i] = down[t][i + 1]
        /\ \A i \in DOMAIN down'[t] : i \in Nat
    <3>1. /\ Len(Tail(down[t])) = Len(down[t]) - 1 /\ Len(down[t]) \in Nat
          /\ \A i \in DOMAIN Tail(down[t]) :
                i \in Nat /\ i + 1 \in DOMAIN down[t] /\ Tail(down[t])[i] = down[t][i + 1]
      BY <1>c, <2>1, TailIs
    <3> QED
      BY <2>2, <3>1
  <2>4. ErrLast'
    <3>1. ASSUME NEW u \in Streams, NEW i \in DOMAIN down'[u], down'[u][i].type = "err"
          PROVE  i = Len(down'[u]) /\ u \notin cReading' /\ ~alive'
      <4>1. CASE u # t
        BY <1>c, <2>2, <3>1, <4>1 DEF ErrLast
      <4>2. CASE u = t
        <5>1. i + 1 = Len(down[t]) /\ t \notin cReading /\ ~alive
          BY <2>3, <3>1, <4>2 DEF ErrLast
        <5> QED
          BY <1>c, <2>3, <4>2, <5>1
      <4> QED
        BY <4>1, <4>2
    <3> QED
      BY <3>1 DEF ErrLast
  <2>5. DataStream'
    <3>1. CASE t = "data"
      BY <2>3, <3>1 DEF DataStream
    <3>2. CASE t # "data"
      <4>1. down'["data"] = down["data"]
        BY <2>2, <3>2 DEF Streams
      <4> QED
        BY <4>1 DEF DataStream
    <3> QED
      BY <3>1, <3>2
  <2> QED
    BY <2>4, <2>5
<1>d. ASSUME alive, Clean(down')
      PROVE  ErrLast' /\ DataStream'
  BY <1>d DEF Clean, ErrLast, DataStream, Streams
<1>e. ASSUME NEW c \in Seq(1 .. MaxOut), FlushCoalesced(c), UNCHANGED <<alive, cReading, cpc, cut>>
      PROVE  ErrLast' /\ DataStream' /\ Closed'
  <2>1. CASE down' = down
    BY <1>b, <1>e, <2>1 DEF Closed
  <2>2. CASE alive /\ down' = Send(down, Msg("Data", c))
    <3>1. Msg("Data", c) \in Messages /\ Msg("Data", c).type # "err"
      BY DEF Msg, Messages
    <3>2. Clean(down')
      BY <1>h, <2>2, <3>1, CleanWhileAlive, CleanSend DEF Wires
    <3> QED
      BY <1>d, <1>e, <2>2, <3>2 DEF Closed
  <2> QED
    BY <1>e, <2>1, <2>2 DEF FlushCoalesced
<1>f. ASSUME UNCHANGED <<down, cReading, cpc>>, alive' => alive, cut' => ~alive'
      PROVE  ErrLast' /\ DataStream' /\ Closed'
  BY <1>b, <1>f DEF Closed
<1>1. CASE NetBreak
  BY <1>1, <1>b DEF NetBreak, Closed, CExits, Reconnects
<1>2. CASE ClientControl
  <2>1. ErrLast' /\ DataStream'
    BY <1>2, <1>a, <1>c DEF ClientControl, Exit, Take, Streams
  <2>2. CASE Head(down["control"]).type = "err"
    <3>1. ~alive
      BY <1>2, <1>h, <2>2, ErrAtHead DEF ClientControl, Streams
    <3> QED
      BY <1>2, <1>a, <1>h, <2>1, <2>2, <3>1 DEF ClientControl, Exit, Take, Closed
  <2>3. CASE Head(down["control"]).type # "err"
    BY <1>2, <1>h, <2>1, <2>3 DEF ClientControl, Take, Closed, CExits, Reconnects
  <2> QED
    BY <2>2, <2>3
<1>3. CASE ClientData
  <2>1. ErrLast' /\ DataStream'
    BY <1>3, <1>a, <1>c DEF ClientData, Exit, Take, Streams
  <2>2. CASE Head(down["data"]) = Err
    <3>1. down["data"] # <<>> /\ Head(down["data"]).type = "err"
      BY <1>3, <2>2 DEF ClientData, Err, Msg
    <3>2. ~alive /\ "data" \notin cReading /\ Tail(down["data"]) = <<>>
      BY <1>h, <3>1, ErrAtHead DEF Streams
    <3>3. [down EXCEPT !["data"] = Tail(@)]["data"] = <<>>
      BY <1>h, <3>2 DEF Wires, Streams
    <3> QED
      BY <1>3, <1>a, <1>h, <2>1, <2>2, <3>2, <3>3 DEF ClientData, Exit, Take, Closed
  <2>3. CASE Head(down["data"]) # Err
    BY <1>3, <1>h, <2>1, <2>3 DEF ClientData, Take, Closed, CExits, Reconnects
  <2> QED
    BY <2>2, <2>3, Zenon
<1>4. CASE DrainTimeout
  BY <1>4, <1>a DEF DrainTimeout, Exit, Closed
<1>5. CASE DrainForShutdown
  BY <1>5, <1>a DEF DrainForShutdown, Exit, Closed
<1>6. CASE DrainForShutdownTimeout
  BY <1>6, <1>a DEF DrainForShutdownTimeout, Exit, Closed
<1>7. CASE ClientWriteFails
  BY <1>7, <1>a DEF ClientWriteFails, Exit, Closed
<1>8. CASE ClientTimeout
  BY <1>8, <1>a DEF ClientTimeout, Exit, Closed
<1>9. CASE ClientLeaves
  BY <1>9, <1>a DEF ClientLeaves, Exit, Closed
<1>10. CASE PtyData
  <2>1. CASE FlushCoalesced(Append(coal, Head(ptyCh)))
    <3>1. Append(coal, Head(ptyCh)) \in Seq(1 .. MaxOut)
      <4> DEFINE K == 1 .. MaxOut
      <4>1. coal \in Seq(K) /\ ptyCh \in Seq(K) /\ ptyCh # <<>>
        BY <1>10, <1>h DEF PtyData, Chunks
      <4> HIDE DEF K
      <4>2. Append(coal, Head(ptyCh)) \in Seq(K)
        BY <4>1
      <4> QED
        BY <4>2 DEF K
    <3> QED
      BY <1>10, <1>e, <2>1, <3>1, Zenon DEF PtyData
  <2>2. CASE UNCHANGED down
    BY <1>10, <1>f, <2>2 DEF PtyData, Closed
  <2> QED
    BY <1>10, <2>1, <2>2 DEF PtyData
<1>11. CASE PtyClosed
  BY <1>11, <1>e, <1>h DEF PtyClosed, Chunks
<1>12. CASE CoalTimer
  BY <1>12, <1>e, <1>h DEF CoalTimer, Chunks
<1>13. CASE Heartbeat
  <2>1. CASE ~alive
    <3>1. UNCHANGED <<down, cReading, cpc, alive, cut>>
      BY <1>13, <2>1, Zenon DEF Heartbeat
    <3> QED
      BY <1>f, <2>1, <3>1
  <2>2. CASE alive
    <3>1. Msg("Heartbeat", <<>>) \in Messages /\ Msg("Heartbeat", <<>>).type # "err"
      BY DEF Msg, Messages
    <3>2. Clean(down')
      BY <1>13, <1>h, <2>2, <3>1, CleanWhileAlive, CleanSend DEF Heartbeat, Wires
    <3> QED
      BY <1>13, <1>d, <2>2, <3>2 DEF Heartbeat, Closed
  <2> QED
    BY <2>1, <2>2
<1>14. CASE GracefulShutdown
  <2>1. CASE ~ (sconn /\ alive)
    BY <1>14, <1>f, <2>1 DEF GracefulShutdown, Closed
  <2>2. CASE sconn /\ alive
    <3> DEFINE q == IF coal = <<>> THEN down ELSE Send(down, Msg("Data", coal))
    <3>1. Msg("Shutdown", <<>>) \in Messages /\ Msg("Shutdown", <<>>).type # "err"
      BY DEF Msg, Messages
    <3>2. Msg("Data", coal) \in Messages /\ Msg("Data", coal).type # "err"
      BY <1>h DEF Msg, Messages, Chunks
    <3>3. Clean(q) /\ q \in [Streams -> Seq(Messages)]
      BY <1>h, <2>2, <3>2, CleanWhileAlive, CleanSend, Sending, Zenon DEF Wires
    <3> HIDE DEF q
    <3>4. Clean(Send(q, Msg("Shutdown", <<>>)))
      BY <3>1, <3>3, CleanSend
    <3>5. down' = Send(q, Msg("Shutdown", <<>>))
      BY <1>14, <2>2 DEF GracefulShutdown, q
    <3>6. Clean(down')
      BY <3>4, <3>5
    <3> QED
      BY <1>14, <1>d, <2>2, <3>6 DEF GracefulShutdown, Closed
  <2> QED
    BY <2>1, <2>2, Zenon
<1>15. CASE Quiet
  <2>1. UNCHANGED <<down, cReading, cpc, alive, cut>>
    BY <1>15, QuietFrame
  <2> QED
    BY <1>f, <2>1 DEF Closed
<1>16. CASE ShellWrites \/ ReadPTY
  <2>1. UNCHANGED <<down, cReading, cpc, alive, cut>>
    BY <1>16, Zenon DEF ShellWrites, ReadPTY, ptyRest
  <2> QED
    BY <1>f, <2>1 DEF Closed
<1>17. CASE StreamEvent \/ Cleanup
  <2>1. UNCHANGED <<down, cReading, cpc, cut>>
    BY <1>17, Zenon DEF StreamEvent, Cleanup
  <2>2. alive' => alive
    BY <1>17, Zenon DEF StreamEvent, Cleanup
  <2> QED
    BY <1>f, <2>1, <2>2 DEF Closed
<1>18. CASE \E t \in Streams : SessionReadError(t)
  <2>1. UNCHANGED <<down, cReading, cpc, alive>> /\ ~alive
    BY <1>18, Zenon DEF SessionReadError
  <2> QED
    BY <1>f, <2>1
<1>19. CASE \E ts \in Readers : ClientReadError(ts)
  <2>1. PICK ts \in Readers : ClientReadError(ts)
    BY <1>19
  <2>2. /\ ~alive /\ UNCHANGED <<alive, cpc>> /\ cReading' = cReading \ ts /\ ts \subseteq cReading
        /\ ts \subseteq Streams
    BY <1>h, <2>1 DEF ClientReadError, Places
  <2>3. PICK n \in [ts -> 0 .. MaxOut + MaxBeats + 1] :
          /\ \A t \in ts : n[t] <= Len(down[t])
          /\ down' = [t \in Streams |->
               IF t \in ts THEN Append(SubSeq(down[t], 1, n[t]), Err) ELSE down[t]]
    BY <2>1 DEF ClientReadError
  <2>4. \A t \in Streams : t \notin ts => down'[t] = down[t]
    BY <2>3
  <2>5. ASSUME NEW t \in ts
        PROVE  /\ Len(down'[t]) = n[t] + 1 /\ n[t] \in Nat
               /\ down'[t][n[t] + 1] = Err
               /\ DOMAIN down'[t] = 1 .. n[t] + 1
               /\ \A i \in 1 .. n[t] : i \in DOMAIN down[t] /\ down'[t][i] = down[t][i]
               /\ \A i \in 1 .. n[t] : down'[t][i].type # "err"
    <3> DEFINE q == SubSeq(down[t], 1, n[t])
    <3>1. down[t] \in Seq(Messages) /\ n[t] \in 0 .. Len(down[t])
      BY <1>h, <2>2, <2>3 DEF Wires
    <3>2. /\ q \in Seq(Messages) /\ Len(q) = n[t]
          /\ \A i \in 1 .. n[t] : i \in DOMAIN down[t] /\ q[i] = down[t][i]
      BY <3>1
    <3> HIDE DEF q
    <3>3. down'[t] = Append(q, Err)
      BY <2>2, <2>3 DEF q
    <3>4. /\ Len(Append(q, Err)) = n[t] + 1 /\ Append(q, Err)[n[t] + 1] = Err
          /\ DOMAIN Append(q, Err) = 1 .. n[t] + 1
          /\ \A i \in 1 .. n[t] : Append(q, Err)[i] = q[i]
      BY <3>1, <3>2
    <3>5. \A i \in DOMAIN down[t] : down[t][i].type # "err"
      BY <2>2 DEF ErrLast
    <3> QED
      BY <3>1, <3>2, <3>3, <3>4, <3>5
  <2>6. ErrLast'
    <3>1. ASSUME NEW t \in Streams, NEW i \in DOMAIN down'[t], down'[t][i].type = "err"
          PROVE  i = Len(down'[t]) /\ t \notin cReading' /\ ~alive'
      <4>1. CASE t \in ts
        <5>1. i \in 1 .. n[t] + 1 /\ n[t] \in Nat
          BY <2>5, <4>1
        <5>2. i \notin 1 .. n[t]
          BY <2>5, <3>1, <4>1
        <5> QED
          BY <2>2, <2>5, <4>1, <5>1, <5>2
      <4>2. CASE t \notin ts
        BY <2>2, <2>4, <3>1, <4>2 DEF ErrLast
      <4> QED
        BY <4>1, <4>2
    <3> QED
      BY <3>1, Zenon DEF ErrLast
  <2>7. DataStream'
    <3>1. CASE "data" \in ts
      <4>1. ASSUME NEW i \in DOMAIN down'["data"]
            PROVE  down'["data"][i].type = "Data" \/ down'["data"][i] = Err
        <5>1. i \in 1 .. n["data"] \/ i = n["data"] + 1
          BY <2>5, <3>1
        <5> QED
          BY <2>5, <3>1, <5>1 DEF DataStream
      <4> QED
        BY <4>1 DEF DataStream
    <3>2. CASE "data" \notin ts
      BY <2>4, <3>2 DEF DataStream, Streams
    <3> QED
      BY <3>1, <3>2, Zenon
  <2>8. Closed'
    <3>1. cpc \in CExits \cup {"drainctl"} => down'["data"] = down["data"]
      BY <2>1, <2>2, <2>4 DEF ClientReadError, Closed, Streams
    <3> QED
      BY <2>2, <3>1 DEF Closed
  <2> QED
    BY <2>6, <2>7, <2>8
<1> QED
  BY <1>1, <1>2, <1>3, <1>4, <1>5, <1>6, <1>7, <1>8, <1>9, <1>10, <1>11, <1>12, <1>13,
     <1>14,
     <1>15, <1>16, <1>17, <1>18, <1>19 DEF Next, ClientStep, SessionStep, Environment, Quiet

\* A chunk that moves on keeps its place; only PtyData takes one from ptyDataCh.
LEMMA PtyStep ==
  ASSUME EndTypes, PtyRuns, [Next]_vars
  PROVE  /\ PtyRuns'
         /\ spc' = "select" => spc = "select"
         /\ PtyData \/ Taken' = Taken
<1> USE TerminationAssumption DEF netVars, cVars, sVars, ptyVars
<1> DEFINE K == 1 .. MaxOut
<1>h. /\ Chunks /\ Chunks' /\ Counts
  BY EndTypeStep DEF EndTypes
<1>i. /\ Len(tty) \in Nat /\ Len(ptyCh) \in Nat /\ Len(coal) \in Nat /\ written \in Nat
      /\ Taken \in Int /\ K \subseteq Int
      /\ tty \in Seq(K) /\ ptyCh \in Seq(K) /\ coal \in Seq(K)
  BY <1>h DEF Chunks, Counts, Taken
<1>j. /\ written - Len(tty) \in Int /\ Taken + Len(ptyCh) \in Int /\ Taken - Len(coal) \in Int
      /\ written \in Int
  BY <1>i
<1> HIDE DEF K
<1>a. ASSUME UNCHANGED <<written, tty, ptyCh>>, spc' = "select" => spc = "select",
             spc' = "select" => coal' = coal \/ coal' = <<>>
      PROVE  PtyRuns' /\ Taken' = Taken
  <2>1. Taken' = Taken
    BY <1>a DEF Taken
  <2>2. Numbered(tty', written' - Len(tty'), written') /\ Taken' >= 0
    BY <1>a, <2>1 DEF PtyRuns
  <2>3. Numbered(ptyCh', Taken', Taken' + Len(ptyCh'))
    BY <1>a, <2>1 DEF PtyRuns
  <2>4. ASSUME spc' = "select"
        PROVE  Numbered(coal', Taken' - Len(coal'), Taken')
    <3>1. CASE coal' = coal
      BY <1>a, <2>1, <2>4, <3>1 DEF PtyRuns
    <3>2. CASE coal' = <<>>
      BY <1>i, <2>1, <3>2 DEF Numbered
    <3> QED
      BY <1>a, <2>4, <3>1, <3>2
  <2> QED
    BY <2>1, <2>2, <2>3, <2>4 DEF PtyRuns
<1>1. CASE ClientStep
  BY <1>1, <1>a DEF ClientStep, ClientControl, ClientData, DrainTimeout, DrainForShutdown,
    DrainForShutdownTimeout, ClientWriteFails, ClientReadError
<1>2. CASE PtyData
  <2>1. ptyCh # <<>> /\ ptyCh' = Tail(ptyCh) /\ UNCHANGED <<written, tty, spc>> /\ spc = "select"
    BY <1>2 DEF PtyData
  <2>2. /\ Len(ptyCh') = Len(ptyCh) - 1 /\ Head(ptyCh) = Taken + 1
        /\ Numbered(ptyCh', Taken + 1, Taken + Len(ptyCh))
    <3>1. Numbered(ptyCh, Taken, Taken + Len(ptyCh))
      BY DEF PtyRuns
    <3>2. Head(ptyCh) = Taken + 1 /\ Numbered(Tail(ptyCh), Taken + 1, Taken + Len(ptyCh))
      BY <1>i, <1>j, <2>1, <3>1, NumberedTail, Zenon
    <3> QED
      BY <1>i, <2>1, <3>2
  <2>3. Taken' = Taken + 1
    BY <1>i, <2>1, <2>2 DEF Taken
  <2>4. Numbered(coal', Taken' - Len(coal'), Taken')
    <3>1. CASE coal' = <<>>
      BY <1>i, <2>3, <3>1 DEF Numbered
    <3>2. CASE coal' = Append(coal, Head(ptyCh))
      <4>1. Len(coal') = Len(coal) + 1
        BY <1>i, <2>2, <3>2
      <4>2. Numbered(coal', Taken - Len(coal), Taken + 1)
        <5>1. Numbered(coal, Taken - Len(coal), Taken)
          BY <2>1 DEF PtyRuns
        <5> QED
          BY <1>i, <1>j, <2>2, <3>2, <5>1, NumberedAppend, Zenon
      <4>3. Taken' - Len(coal') = Taken - Len(coal)
        BY <1>i, <2>3, <4>1
      <4> QED
        BY <2>3, <4>2, <4>3
    <3> QED
      BY <1>2, <3>1, <3>2 DEF PtyData, FlushCoalesced
  <2>5. Taken' + Len(ptyCh') = Taken + Len(ptyCh) /\ Taken' >= 0
    BY <1>i, <2>2, <2>3 DEF PtyRuns
  <2> QED
    BY <1>2, <2>1, <2>2, <2>3, <2>4, <2>5 DEF PtyRuns
<1>3. CASE PtyClosed \/ CoalTimer
  BY <1>3, <1>a DEF PtyClosed, CoalTimer, FlushCoalesced
<1>4. CASE SessionReads \/ StreamEvent \/ Cancel \/ AcceptCancelled \/ Slept \/ CleanupShell \/ Heartbeat
  BY <1>4, <1>a DEF SessionReads, StreamEvent, Cancel, AcceptCancelled, Slept,
     CleanupShell, Heartbeat
<1>5. CASE Cleanup \/ GracefulShutdown
  BY <1>5, <1>a DEF Cleanup, GracefulShutdown
<1>6. CASE ShellExits \/ WaitShell \/ ReadPTYError
  BY <1>6, <1>a, Zenon DEF ShellExits, WaitShell, ReadPTYError, ptyRest
<1>7. CASE NetBreak \/ ClientTimeout \/ ClientLeaves \/ \E t \in Streams : SessionReadError(t)
  BY <1>7, <1>a DEF NetBreak, ClientTimeout, ClientLeaves, SessionReadError
<1>8. CASE ShellWrites
  <2>1. /\ written' = written + 1 /\ tty' = Append(tty, written + 1)
        /\ UNCHANGED <<ptyCh, coal, spc>>
    BY <1>8 DEF ShellWrites, ptyRest
  <2>2. Len(tty') = Len(tty) + 1
    BY <1>i, <2>1
  <2>3. Taken' = Taken /\ written' - Len(tty') = written - Len(tty)
    BY <1>i, <2>1, <2>2 DEF Taken
  <2>4. Numbered(tty', written - Len(tty), written + 1)
    <3>1. Numbered(tty, written - Len(tty), written)
      BY DEF PtyRuns
    <3> QED
      BY <1>i, <1>j, <2>1, <3>1, NumberedAppend, Zenon
  <2> QED
    BY <2>1, <2>3, <2>4 DEF PtyRuns
<1>9. CASE ReadPTY
  <2>1. /\ tty # <<>> /\ tty' = Tail(tty) /\ ptyCh' = Append(ptyCh, Head(tty))
        /\ UNCHANGED <<written, coal, spc>>
    BY <1>9 DEF ReadPTY, ptyRest
  <2>2. /\ Len(tty') = Len(tty) - 1 /\ Len(ptyCh') = Len(ptyCh) + 1
    BY <1>i, <2>1
  <2>3. Taken' = Taken
    BY <1>i, <2>1, <2>2 DEF Taken
  <2>4. Head(tty) = written - Len(tty) + 1 /\ Numbered(tty', written - Len(tty) + 1, written)
    <3>1. Numbered(tty, written - Len(tty), written)
      BY DEF PtyRuns
    <3> QED
      BY <1>i, <1>j, <2>1, <3>1, NumberedTail, Zenon
  <2>5. Head(tty) = (Taken + Len(ptyCh)) + 1
    BY <1>i, <2>4 DEF Taken
  <2>6. Numbered(ptyCh', Taken, (Taken + Len(ptyCh)) + 1)
    <3>1. Numbered(ptyCh, Taken, Taken + Len(ptyCh))
      BY DEF PtyRuns
    <3> QED
      BY <1>i, <1>j, <2>1, <2>5, <3>1, NumberedAppend, Zenon
  <2>7. Taken' + Len(ptyCh') = (Taken + Len(ptyCh)) + 1 /\ written' - Len(tty') = written - Len(tty) + 1
    BY <1>i, <2>1, <2>2, <2>3
  <2> QED
    BY <2>1, <2>3, <2>4, <2>6, <2>7 DEF PtyRuns
<1>10. CASE UNCHANGED vars
  BY <1>10, <1>a DEF vars
<1> QED
  BY <1>1, <1>2, <1>3, <1>4, <1>5, <1>6, <1>7, <1>8, <1>9, <1>10 DEF Next, SessionStep,
     Environment

\* What the client prints and what is on its way to it.
LEMMA OutStep ==
  ASSUME EndTypes, ErrLast, DataStream, Closed, PtyRuns, OutRuns, [Next]_vars
  PROVE  OutRuns'
<1> USE TerminationAssumption DEF netVars, cVars, sVars, ptyVars
<1> DEFINE K == 1 .. MaxOut
           q == down["data"]
<1>h. Flags /\ Places /\ Counts /\ Chunks /\ Wires /\ Events /\ Chunks' /\ Wires'
  BY EndTypeStep DEF EndTypes
<1>i. /\ Len(tty) \in Nat /\ Len(ptyCh) \in Nat /\ Len(coal) \in Nat /\ Len(out) \in Nat
      /\ written \in 0 .. MaxOut /\ Taken \in Int
      /\ K \subseteq Int /\ out \in Seq(K) /\ coal \in Seq(K) /\ ptyCh \in Seq(K)
      /\ "data" \in Streams /\ "control" \in Streams /\ q \in Seq(Messages)
      /\ Taken + Len(tty) + Len(ptyCh) = written
  BY <1>h DEF Chunks, Counts, Taken, Wires, Streams
<1>j. /\ Len(out) \in 0 .. MaxOut /\ \E n \in 0 .. MaxOut : Carries(q, Len(out), n)
      /\ Numbered(out, 0, Len(out))
  BY <1>i, CarriesTake DEF OutRuns
<1>w. Closed' /\ PtyRuns' /\ (spc' = "select" => spc = "select") /\ (PtyData \/ Taken' = Taken)
  BY WireStep, PtyStep
<1> HIDE DEF K, q
<1>a. ASSUME down'["data"] = q, out' = out, Taken' = Taken,
             alive' /\ sconn' /\ spc' = "select" => alive /\ sconn /\ coal' = coal,
             cut => cut', Announced' => Announced
      PROVE  OutRuns'
  <2>1. Numbered(out', 0, Len(out')) /\ \E n \in 0 .. MaxOut : Carries(down'["data"], Len(out'), n)
    BY <1>a, <1>j, Zenon
  <2>2. ASSUME alive', sconn', spc' = "select"
        PROVE  Carries(down'["data"], Len(out'), Taken' - Len(coal'))
    BY <1>a, <1>w, <2>2 DEF OutRuns, q
  <2>3. Announced' => spc' # "select"
    BY <1>a, <1>w DEF OutRuns
  <2>4. ASSUME Announced', ~cut'
        PROVE  Carries(down'["data"], Len(out'), Taken')
    BY <1>a, <2>4 DEF OutRuns, q
  <2> QED
    BY <2>1, <2>2, <2>3, <2>4 DEF OutRuns
<1>b. ASSUME down' = [t \in Streams |-> <<>>], out' = out, Taken' = Taken, cpc' \in CExits,
             cpc' = "exitShutdown" => spc # "select" /\ (~cut' => Len(out) = Taken)
      PROVE  OutRuns'
  <2>1. down'["data"] = <<>> /\ down'["control"] = <<>> /\ ~alive'
    BY <1>b, <1>i, <1>w DEF Closed
  <2>2. Announced' => cpc' = "exitShutdown"
    BY <1>b, <2>1 DEF Announced, Holds, CExits, Reconnects
  <2>3. Carries(<<>>, Len(out), Len(out))
    BY <1>j, CarriesNone
  <2> QED
    BY <1>b, <1>j, <1>w, <2>1, <2>2, <2>3 DEF OutRuns
<1>c. ASSUME down[ "control" ] # <<>>, Holds(Tail(down["control"]), "Shutdown")
      PROVE  Holds(down["control"], "Shutdown")
  <2>1. down["control"] \in Seq(Messages)
    BY <1>h, <1>i DEF Wires
  <2>2. PICK i \in DOMAIN Tail(down["control"]) : Tail(down["control"])[i].type = "Shutdown"
    BY <1>c DEF Holds
  <2>3. i + 1 \in DOMAIN down["control"] /\ Tail(down["control"])[i] = down["control"][i + 1]
    BY <1>c, <2>1, TailIs, Zenon
  <2> QED
    BY <2>2, <2>3 DEF Holds
<1>d. ASSUME down["control"] # <<>>, Head(down["control"]).type = "Shutdown"
      PROVE  Holds(down["control"], "Shutdown")
  <2>1. down["control"] \in Seq(Messages)
    BY <1>h, <1>i DEF Wires
  <2>2. 1 \in DOMAIN down["control"] /\ Head(down["control"]) = down["control"][1]
    BY <1>d, <2>1
  <2> QED
    BY <1>d, <2>2, Zenon DEF Holds
<1>1. CASE ClientControl
  <2>1. UNCHANGED <<out, cut, alive, sconn, spc, coal>> /\ Taken' = Taken /\ cpc = "select"
        /\ down["control"] # <<>>
    BY <1>1 DEF ClientControl, Taken
  <2>2. CASE Exit("exitNetwork")
    BY <1>b, <2>1, <2>2 DEF Exit, CExits, Reconnects
  <2>3. CASE Take("control") /\ Head(down["control"]).type = "Shutdown" /\ cpc' = "drain"
    <3>1. down'["data"] = q /\ Announced
      BY <1>d, <1>h, <1>i, <2>1, <2>3 DEF Take, Announced, Wires, q
    <3> QED
      BY <1>a, <2>1, <3>1
  <2>4. CASE Take("control") /\ cpc' = cpc
    <3>1. down'["data"] = q /\ down'["control"] = Tail(down["control"])
      BY <1>h, <1>i, <2>4 DEF Take, Wires, q
    <3>2. Announced' => Announced
      BY <1>c, <2>1, <2>4, <3>1, Zenon DEF Announced
    <3> QED
      BY <1>a, <2>1, <3>1, <3>2
  <2> QED
    BY <1>1, <2>2, <2>3, <2>4 DEF ClientControl
<1>2. CASE ClientData
  <2>1. /\ UNCHANGED <<cut, alive, sconn, spc, coal>> /\ Taken' = Taken /\ q # <<>>
        /\ cpc \in {"select", "drain"}
    BY <1>2 DEF ClientData, Taken, q
  <2>2. /\ Head(q) \in Messages /\ Head(q).chunks \in Seq(K) /\ Tail(q) \in Seq(Messages)
    <3>1. Head(q) \in Messages /\ Tail(q) \in Seq(Messages)
      BY <1>i, <2>1
    <3>2. Head(q).chunks \in Seq(K)
      BY <3>1 DEF Messages, K
    <3> QED
      BY <3>1, <3>2
  <2>3. ASSUME NEW n, Carries(q, Len(out), n)
        PROVE  /\ Numbered(Head(q).chunks, Len(out), Len(out) + Len(Head(q).chunks))
               /\ Carries(Tail(q), Len(out) + Len(Head(q).chunks), n)
    <3>1. PICK c \in 0 .. MaxOut : Numbered(Head(q).chunks, Len(out), c) /\ Carries(Tail(q), c, n)
      BY <1>i, <2>1, <2>3, CarriesTake
    <3>2. c = Len(out) + Len(Head(q).chunks)
      <4>1. Len(Head(q).chunks) = c - Len(out) /\ c \in Int
        BY <3>1 DEF Numbered
      <4> QED
        BY <1>i, <4>1
    <3> QED
      BY <3>1, <3>2
  <2>4. ASSUME Take("data"), out' = out \o Head(q).chunks \/ (out' = out /\ Head(q).chunks = <<>>),
               cpc' = cpc \/ cpc' = "drainctl"
        PROVE  OutRuns'
    <3>1. down'["data"] = Tail(q) /\ down'["control"] = down["control"]
      BY <1>h, <1>i, <2>4 DEF Take, Wires, q
    <3>2. PICK n \in 0 .. MaxOut : Carries(q, Len(out), n)
      BY <1>j
    <3>3. Len(out') = Len(out) + Len(Head(q).chunks) /\ Numbered(out', 0, Len(out'))
      <4>1. Numbered(Head(q).chunks, Len(out), Len(out) + Len(Head(q).chunks))
        BY <2>3, <3>2
      <4>2. CASE out' = out \o Head(q).chunks
        <5>1. Len(out') = Len(out) + Len(Head(q).chunks) /\ Len(Head(q).chunks) \in Nat
          BY <1>i, <2>2, <4>2
        <5>2. Numbered(out \o Head(q).chunks, 0, Len(out) + Len(Head(q).chunks))
          <6>1. 0 \in Int /\ Len(out) \in Int /\ Len(out) + Len(Head(q).chunks) \in Int
            BY <1>i, <5>1
          <6> QED
            BY <1>i, <1>j, <2>2, <4>1, <6>1, NumberedConcat, Zenon
        <5> QED
          BY <4>2, <5>1, <5>2
      <4>3. CASE out' = out /\ Head(q).chunks = <<>>
        BY <1>i, <1>j, <4>3
      <4> QED
        BY <2>4, <4>2, <4>3
    <3>4. Announced' => Announced
      BY <2>4, <3>1 DEF Announced
    <3>5. \E m \in 0 .. MaxOut : Carries(down'["data"], Len(out'), m)
      BY <2>3, <3>1, <3>2, <3>3
    <3>6. ASSUME alive', sconn', spc' = "select"
          PROVE  Carries(down'["data"], Len(out'), Taken' - Len(coal'))
      <4>1. Carries(q, Len(out), Taken - Len(coal))
        BY <2>1, <3>6 DEF OutRuns, q
      <4> QED
        BY <2>1, <2>3, <3>1, <3>3, <4>1
    <3>7. ASSUME Announced', ~cut'
          PROVE  Carries(down'["data"], Len(out'), Taken')
      <4>1. Carries(q, Len(out), Taken)
        BY <2>1, <3>4, <3>7 DEF OutRuns, q
      <4> QED
        BY <2>1, <2>3, <3>1, <3>3, <4>1
    <3>8. Announced' => spc' # "select"
      BY <2>1, <3>4 DEF OutRuns
    <3> QED
      BY <3>3, <3>5, <3>6, <3>7, <3>8 DEF OutRuns
  <2>5. CASE Head(q) = Err /\ cpc = "drain" /\ Exit("exitShutdown") /\ UNCHANGED out
    <3>1. Len(out) = Taken \/ cut
      <4>1. Announced
        BY <2>5 DEF Announced
      <4>2. ASSUME ~cut
            PROVE  Carries(q, Len(out), Taken)
        BY <4>1, <4>2 DEF OutRuns, q
      <4> QED
        BY <1>h, <2>5, <4>2, NothingCarried DEF q
    <3>2. spc # "select"
      BY <2>5 DEF OutRuns, Announced
    <3> QED
      BY <1>b, <2>1, <2>5, <3>1, <3>2 DEF Exit, CExits
  <2>6. /\ Head(q) = Err => Head(q).chunks = <<>>
    BY DEF Err, Msg
  <2> QED
    BY <1>2, <2>4, <2>5, <2>6 DEF ClientData, q
<1>3. CASE DrainTimeout
  <2>1. /\ cpc = "drain" /\ Exit("exitShutdown") /\ UNCHANGED out /\ Taken' = Taken
        /\ cut' = (cut \/ Holds(q, "Data"))
    BY <1>3 DEF DrainTimeout, Taken, q
  <2>2. Announced
    BY <2>1 DEF Announced
  <2>3. ASSUME ~cut'
        PROVE  Len(out) = Taken
    <3>1. Carries(q, Len(out), Taken) /\ \A i \in DOMAIN q : q[i] = Err
      BY <2>1, <2>2, <2>3, Zenon DEF OutRuns, Holds, DataStream, q
    <3>2. q = <<>> \/ Head(q) = Err
      BY <1>i, <3>1
    <3> QED
      BY <1>h, <3>1, <3>2, NothingCarried DEF q
  <2>4. spc # "select"
    BY <2>2 DEF OutRuns
  <2> QED
    BY <1>b, <2>1, <2>3, <2>4 DEF Exit, CExits
<1>4. CASE DrainForShutdown
  <2>1. /\ cpc = "drainctl" /\ UNCHANGED <<out, cut>> /\ Taken' = Taken /\ down["control"] # <<>>
        /\ down' = [t \in Streams |-> <<>>] /\ cpc' \in CExits
        /\ cpc' = "exitShutdown" => Head(down["control"]).type = "Shutdown"
    BY <1>4 DEF DrainForShutdown, Taken, Exit, CExits, Reconnects
  <2>2. ASSUME cpc' = "exitShutdown"
        PROVE  spc # "select" /\ (~cut' => Len(out) = Taken)
    <3>1. Announced
      BY <1>d, <2>1, <2>2 DEF Announced
    <3>2. q = <<>>
      BY <2>1, Zenon DEF Closed, q
    <3>3. ASSUME ~cut
          PROVE  Len(out) = Taken
      <4>1. Carries(q, Len(out), Taken)
        BY <3>1, <3>3 DEF OutRuns, q
      <4> QED
        BY <1>h, <3>2, <4>1, NothingCarried DEF q
    <3> QED
      BY <2>1, <3>1, <3>3 DEF OutRuns
  <2> QED
    BY <1>b, <2>1, <2>2
<1>5. CASE DrainForShutdownTimeout \/ ClientWriteFails \/ ClientTimeout \/ ClientLeaves
  BY <1>5, <1>b, Zenon DEF DrainForShutdownTimeout, ClientWriteFails, ClientTimeout, ClientLeaves,
     Exit,
    Taken, CExits, Reconnects
<1>6. CASE \E ts \in Readers : ClientReadError(ts)
  <2>1. PICK ts \in Readers : ClientReadError(ts)
    BY <1>6, Zenon
  <2>2. /\ ~alive /\ ~alive' /\ UNCHANGED <<cpc, spc, out, coal, sconn>> /\ Taken' = Taken
        /\ ts \subseteq Streams
    BY <1>h, <2>1 DEF ClientReadError, Places, Taken
  <2>3. PICK n \in [ts -> 0 .. MaxOut + MaxBeats + 1] :
          /\ \A t \in ts : n[t] <= Len(down[t])
          /\ down' = [t \in Streams |->
               IF t \in ts THEN Append(SubSeq(down[t], 1, n[t]), Err) ELSE down[t]]
          /\ cut' = (cut \/ \E t \in ts : n[t] < Len(down[t]))
    BY <2>1 DEF ClientReadError
  <2>4. ASSUME NEW b, Carries(q, Len(out), b)
        PROVE  \E c \in 0 .. MaxOut : Carries(down'["data"], Len(out), c) /\ (~cut' => c = b)
    <3>1. CASE "data" \notin ts
      <4>1. down'["data"] = q /\ b \in 0 .. MaxOut
        BY <1>i, <2>3, <2>4, <3>1, CarriesTake DEF q
      <4> QED
        BY <2>4, <4>1
    <3>2. CASE "data" \in ts
      <4>1. /\ n["data"] \in 0 .. Len(q) /\ (~cut' => n["data"] = Len(q))
            /\ down'["data"] = Append(SubSeq(q, 1, n["data"]), Err)
        <5>1. down'["data"] = Append(SubSeq(q, 1, n["data"]), Err)
          BY <1>i, <2>3, <3>2 DEF q
        <5>2. n["data"] \in Nat /\ n["data"] <= Len(q) /\ Len(q) \in Nat
          BY <1>i, <2>3, <3>2 DEF q
        <5>3. ~cut' => ~ (n["data"] < Len(q))
          BY <2>3, <3>2, Zenon DEF q
        <5> QED
          BY <5>1, <5>2, <5>3
      <4>2. PICK c \in 0 .. MaxOut : Carries(SubSeq(q, 1, n["data"]), Len(out), c)
                                    /\ (n["data"] = Len(q) => c = b)
        BY <1>i, <2>4, <4>1, CarriesPrefix
      <4>3. SubSeq(q, 1, n["data"]) \in Seq(Messages)
        BY <1>i, <4>1
      <4>4. Carries(Append(SubSeq(q, 1, n["data"]), Err), Len(out), c)
        BY <4>2, <4>3, CarriesNone, CarriesSend, Zenon
      <4> QED
        BY <4>1, <4>2, <4>4
    <3> QED
      BY <3>1, <3>2
  <2>5. Announced' => Announced
    <3>1. ASSUME Holds(down'["control"], "Shutdown")
          PROVE  Holds(down["control"], "Shutdown")
      <4>1. CASE "control" \notin ts
        BY <1>i, <2>3, <3>1, <4>1
      <4>2. CASE "control" \in ts
        <5> DEFINE r == down["control"]
                   s == SubSeq(r, 1, n["control"])
        <5>1. r \in Seq(Messages) /\ n["control"] \in 0 .. Len(r)
          BY <1>h, <1>i, <2>3, <4>2 DEF Wires
        <5>2. s \in Seq(Messages) /\ \A i \in DOMAIN s : i \in DOMAIN r /\ s[i] = r[i]
          BY <5>1
        <5> HIDE DEF r, s
        <5>3. down'["control"] = Append(s, Err)
          BY <1>i, <2>3, <4>2 DEF r, s
        <5>4. Holds(s, "Shutdown")
          BY <3>1, <5>2, <5>3, HoldsBefore DEF Err, Msg
        <5> QED
          BY <5>2, <5>4 DEF Holds, r
      <4> QED
        BY <4>1, <4>2
    <3> QED
      BY <2>2, <3>1 DEF Announced
  <2>6. \E c \in 0 .. MaxOut : Carries(down'["data"], Len(out'), c)
    BY <1>j, <2>2, <2>4
  <2>7. ASSUME Announced', ~cut'
        PROVE  Carries(down'["data"], Len(out'), Taken')
    <3>1. Carries(q, Len(out), Taken)
      BY <2>3, <2>5, <2>7, Zenon DEF OutRuns, q
    <3> QED
      BY <2>2, <2>4, <2>7, <3>1
  <2> QED
    BY <1>j, <2>2, <2>5, <2>6, <2>7, Zenon DEF OutRuns
<1>e. ASSUME NEW c \in Seq(K), FlushCoalesced(c), UNCHANGED <<out, alive, cut, cpc, spc>>, spc = "select",
             Taken' \in 0 .. MaxOut, Numbered(c, Taken - Len(coal), Taken')
      PROVE  OutRuns'
  <2>1. ~ Announced
    BY <1>e DEF OutRuns
  <2>2. CASE c = <<>>
    <3>1. Taken' = Taken - Len(coal) /\ down' = down /\ coal' = <<>> /\ (sconn' => sconn)
      <4>1. down' = down /\ coal' = <<>> /\ (sconn' => sconn)
        BY <1>e, <2>2, Zenon DEF FlushCoalesced
      <4>2. 0 = Taken' - (Taken - Len(coal))
        BY <1>e, <2>2 DEF Numbered
      <4>3. Taken' \in Int
        BY <1>e
      <4> QED
        BY <1>i, <4>1, <4>2, <4>3
    <3>2. ~ Announced'
      BY <1>e, <2>1, <3>1 DEF Announced
    <3>3. Taken' - Len(coal') = Taken - Len(coal)
      BY <1>i, <3>1
    <3>4. alive' /\ sconn' => Carries(down'["data"], Len(out'), Taken' - Len(coal'))
      BY <1>e, <3>1, <3>3 DEF OutRuns
    <3> QED
      BY <1>e, <1>j, <3>1, <3>2, <3>4 DEF OutRuns, q
  <2>3. CASE c # <<>> /\ ~ (sconn /\ alive)
    <3>1. down' = down /\ ~ (alive' /\ sconn')
      BY <1>e, <2>3, Zenon DEF FlushCoalesced
    <3>2. ~ Announced'
      BY <1>e, <2>1, <3>1, Zenon DEF Announced
    <3> QED
      BY <1>e, <1>j, <3>1, <3>2 DEF OutRuns, q
  <2>4. CASE c # <<>> /\ sconn /\ alive
    <3> DEFINE m == Msg("Data", c)
    <3>1. m \in Messages /\ m.chunks = c /\ StreamOf(m) = "data"
      BY DEF Msg, Messages, StreamOf, K
    <3> HIDE DEF m
    <3>2. down' = Send(down, m) /\ coal' = <<>>
      BY <1>e, <2>4 DEF FlushCoalesced, m
    <3>3. down'["data"] = Append(q, m) /\ down'["control"] = down["control"]
      BY <1>h, <1>i, <3>1, <3>2, Sending, Zenon DEF Wires, q, Streams
    <3>4. Carries(q, Len(out), Taken - Len(coal))
      BY <1>e, <2>4 DEF OutRuns, q
    <3>5. Carries(Append(q, m), Len(out), Taken')
      BY <1>e, <1>i, <3>1, <3>4, CarriesSend
    <3>6. ~ Announced'
      BY <1>e, <2>1, <3>3 DEF Announced
    <3>7. Taken' - Len(coal') = Taken'
      <4>1. Len(coal') = 0
        BY <3>2
      <4>2. Taken' \in Int
        BY <1>e
      <4>3. \A x \in Int : x - 0 = x
        OBVIOUS
      <4> QED
        BY <4>1, <4>2, <4>3, Zenon
    <3> QED
      BY <1>e, <1>j, <3>3, <3>5, <3>6, <3>7 DEF OutRuns
  <2> QED
    BY <2>2, <2>3, <2>4
<1>7. CASE PtyData
  <2>1. /\ ptyCh # <<>> /\ spc = "select" /\ UNCHANGED <<out, alive, cut, cpc, spc, written, tty>>
        /\ ptyCh' = Tail(ptyCh)
    BY <1>7 DEF PtyData
  <2>2. Taken' = Taken + 1 /\ Len(ptyCh) > 0
    <3>1. Len(ptyCh') = Len(ptyCh) - 1 /\ Len(ptyCh) > 0
      BY <1>i, <2>1
    <3> QED
      BY <1>i, <2>1, <3>1 DEF Taken
  <2>3. CASE FlushCoalesced(Append(coal, Head(ptyCh)))
    <3>1. Head(ptyCh) = Taken + 1 /\ Append(coal, Head(ptyCh)) \in Seq(K)
      <4>1. Numbered(ptyCh, Taken, Taken + Len(ptyCh)) /\ Taken + Len(ptyCh) \in Int
        BY <1>i DEF PtyRuns
      <4>2. Head(ptyCh) = Taken + 1
        BY <1>i, <2>1, <4>1, NumberedTail, Zenon
      <4>3. Head(ptyCh) \in K
        BY <1>i, <2>1
      <4> QED
        BY <1>i, <4>2, <4>3
    <3>2. Numbered(Append(coal, Head(ptyCh)), Taken - Len(coal), Taken + 1)
      <4>1. Numbered(coal, Taken - Len(coal), Taken) /\ Taken - Len(coal) \in Int
        BY <1>i, <2>1 DEF PtyRuns
      <4> QED
        BY <1>i, <3>1, <4>1, NumberedAppend, Zenon
    <3>3. Taken' \in 0 .. MaxOut
      <4>1. Head(ptyCh) \in K
        BY <1>i, <2>1
      <4> QED
        BY <2>2, <3>1, <4>1 DEF K
    <3> QED
      BY <1>e, <2>1, <2>2, <2>3, <3>1, <3>2, <3>3, Zenon
  <2>4. CASE coal' = Append(coal, Head(ptyCh)) /\ UNCHANGED <<sconn, down>>
    <3>1. Len(coal') = Len(coal) + 1
      BY <1>i, <2>4
    <3>2. Taken' - Len(coal') = Taken - Len(coal)
      BY <1>i, <2>2, <3>1
    <3>3. ~ Announced'
      BY <2>1, <2>4 DEF OutRuns, Announced
    <3> QED
      BY <1>j, <2>1, <2>4, <3>2, <3>3 DEF OutRuns, q
  <2> QED
    BY <1>7, <2>3, <2>4 DEF PtyData
<1>8. CASE PtyClosed \/ CoalTimer
  <2>1. /\ spc = "select" /\ FlushCoalesced(coal) /\ Taken' = Taken
        /\ UNCHANGED <<out, alive, cut, cpc, spc>>
    BY <1>8 DEF PtyClosed, CoalTimer, Taken
  <2>2. Numbered(coal, Taken - Len(coal), Taken)
    BY <2>1 DEF PtyRuns
  <2>3. Taken' \in 0 .. MaxOut
    BY <1>i, <2>1 DEF PtyRuns
  <2> QED
    BY <1>e, <1>i, <2>1, <2>2, <2>3
<1>9. CASE Heartbeat
  <2>1. /\ UNCHANGED <<out, coal, cut, cpc, spc>> /\ Taken' = Taken
        /\ (sconn' => sconn) /\ (alive' => alive)
    <3>1. UNCHANGED <<out, coal, cut, cpc, spc, written, tty, ptyCh>> /\ sconn
      BY <1>9 DEF Heartbeat
    <3>2. alive' => alive
      BY <1>9, Zenon DEF Heartbeat
    <3> QED
      BY <3>1, <3>2 DEF Taken
  <2>2. CASE down' = down
    BY <1>a, <2>1, <2>2 DEF Announced, q
  <2>3. CASE down' = Send(down, Msg("Heartbeat", <<>>))
    <3> DEFINE m == Msg("Heartbeat", <<>>)
    <3>1. m \in Messages /\ m.type = "Heartbeat" /\ StreamOf(m) = "control"
      BY DEF Msg, Messages, StreamOf
    <3> HIDE DEF m
    <3>2. down' = Send(down, m)
      BY <2>3 DEF m
    <3>3. down'["data"] = q /\ down'["control"] = Append(down["control"], m)
      BY <1>h, <1>i, <3>1, <3>2, Sending, Zenon DEF Wires, q
    <3>4. Holds(down'["control"], "Shutdown") => Holds(down["control"], "Shutdown")
      BY <1>h, <1>i, <3>1, <3>3, HoldsBefore DEF Wires
    <3>5. Announced' => Announced
      BY <2>1, <3>4 DEF Announced
    <3> QED
      BY <1>a, <2>1, <3>3, <3>5
  <2> QED
    BY <1>9, <2>2, <2>3 DEF Heartbeat
<1>10. CASE GracefulShutdown
  <2>1. /\ spc = "select" /\ spc' # "select" /\ Taken' = Taken /\ UNCHANGED <<out, alive, cut, cpc>>
        /\ ~ Announced
    BY <1>10 DEF GracefulShutdown, Taken, OutRuns
  <2>2. CASE ~ (sconn /\ alive)
    <3>1. down' = down
      BY <1>10, <2>2, Zenon DEF GracefulShutdown
    <3>2. ~ Announced'
      BY <2>1, <3>1 DEF Announced
    <3> QED
      BY <1>a, <2>1, <3>1, <3>2 DEF q
  <2>3. CASE sconn /\ alive
    <3> DEFINE m == Msg("Shutdown", <<>>)
               d == Msg("Data", coal)
               f == IF coal = <<>> THEN down ELSE Send(down, d)
    <3>1. m \in Messages /\ StreamOf(m) = "control" /\ d \in Messages /\ d.chunks = coal /\ StreamOf(d) = "data"
      BY <1>h DEF Msg, Messages, StreamOf, Chunks
    <3> HIDE DEF m, d
    <3>2. Carries(q, Len(out), Taken - Len(coal)) /\ Numbered(coal, Taken - Len(coal), Taken)
      BY <2>1, <2>3 DEF OutRuns, PtyRuns, q
    <3>3. f \in [Streams -> Seq(Messages)] /\ Carries(f["data"], Len(out), Taken)
      <4>1. CASE coal = <<>>
        <5>1. Taken - Len(coal) = Taken
          BY <1>i, <4>1
        <5> QED
          BY <1>h, <3>2, <4>1, <5>1 DEF Wires, q
      <4>2. CASE coal # <<>>
        <5>1. f = Send(down, d) /\ f["data"] = Append(q, d) /\ f \in [Streams -> Seq(Messages)]
          <6>1. f = Send(down, d)
            BY <4>2
          <6>2. /\ Send(down, d)["data"] = Append(down["data"], d)
                /\ Send(down, d) \in [Streams -> Seq(Messages)]
            BY <1>h, <3>1, Sending, Zenon DEF Wires
          <6> QED
            BY <6>1, <6>2 DEF q
        <5>2. Taken \in 0 .. MaxOut
          BY <1>i DEF PtyRuns
        <5>3. Carries(Append(q, d), Len(out), Taken)
          BY <1>i, <3>1, <3>2, <5>2, CarriesSend
        <5> QED
          BY <5>1, <5>3, Zenon
      <4> QED
        BY <4>1, <4>2
    <3>4. down' = Send(f, m)
      BY <1>10, <2>3 DEF GracefulShutdown, m, d
    <3> HIDE DEF f
    <3>5. down'["data"] = f["data"]
      BY <1>i, <3>1, <3>3, <3>4, Sending, Zenon
    <3>6. Taken \in 0 .. MaxOut
      BY <1>i DEF PtyRuns
    <3> QED
      BY <1>j, <2>1, <3>3, <3>5, <3>6 DEF OutRuns
  <2> QED
    BY <2>2, <2>3
<1>11. CASE Quiet
  <2>1. UNCHANGED <<down, out, alive, sconn, coal, cut, cpc, written, tty, ptyCh>>
    BY <1>11, QuietFrame
  <2> QED
    BY <1>a, <2>1 DEF Taken, Announced, q
<1>12. CASE NetBreak
  <2>1. UNCHANGED <<down, out, sconn, coal, cut, cpc, written, tty, ptyCh>> /\ alive
    BY <1>12, Zenon DEF NetBreak
  <2> QED
    BY <1>a, <2>1 DEF Taken, Announced, q
<1>13. CASE ShellWrites \/ ReadPTY
  <2>1. ~ PtyData => Taken' = Taken
    BY <1>w
  <2>2. ~ PtyData
    BY <1>13, <1>i DEF PtyData, ShellWrites, ReadPTY, ptyRest
  <2> QED
    BY <1>13, <1>a, <2>1, <2>2 DEF ShellWrites, ReadPTY, ptyRest, Announced, q
<1>14. CASE StreamEvent \/ Cleanup
  <2>1. UNCHANGED <<down, out, cut, cpc, written, tty, ptyCh>>
    BY <1>14, Zenon DEF StreamEvent, Cleanup
  <2>2. alive' /\ sconn' => alive /\ sconn /\ coal' = coal
    BY <1>14, Zenon DEF StreamEvent, Cleanup
  <2> QED
    BY <1>a, <2>1, <2>2 DEF Taken, Announced, q
<1>15. CASE \E t \in Streams : SessionReadError(t)
  <2>1. UNCHANGED <<down, out, cpc, written, tty, ptyCh, alive>> /\ ~alive
    BY <1>15, Zenon DEF SessionReadError
  <2>2. cut => cut'
    BY <1>15, Zenon DEF SessionReadError
  <2> QED
    BY <1>a, <2>1, <2>2 DEF Taken, Announced, q
<1> QED
  BY <1>1, <1>2, <1>3, <1>4, <1>5, <1>6, <1>7, <1>8, <1>9, <1>10, <1>11, <1>12, <1>13,
     <1>14,
     <1>15 DEF Next, ClientStep, SessionStep, Environment, Quiet

-----------------------------------------------------------------------------

\* The inductive invariant of the end of a session.
EndInv == EndTypes /\ ErrLast /\ DataStream /\ Closed /\ PtyRuns /\ OutRuns

\* EndInv is inductive.
LEMMA EndStep == EndInv /\ [Next]_vars => EndInv'
BY EndTypeStep, WireStep, PtyStep, OutStep DEF EndInv

\* It holds before anything is written.
LEMMA EndStart == Init => EndInv
<1> SUFFICES ASSUME Init PROVE EndInv
  OBVIOUS
<1> USE TerminationAssumption
<1>1. Flags /\ Places /\ Counts
  <2>1. Flags
    BY Zenon DEF Init, Flags
  <2>2. Places
    BY DEF Init, Places
  <2> QED
    BY <2>1, <2>2 DEF Init, Counts
<1>2. <<>> \in Seq(1 .. MaxOut) /\ <<>> \in Seq(Messages) /\ <<>> \in Seq({"Shutdown", "err"})
  OBVIOUS
<1>3. Chunks /\ Wires
  BY <1>2 DEF Init, Chunks, Wires
<1>4. Events
  BY <1>2 DEF Init, Events, EventsFit, Streams
<1>5. down["data"] = <<>> /\ down["control"] = <<>>
  BY DEF Init, Streams
<1>6. Clean(down)
  BY DEF Init, Clean
<1>7. ErrLast /\ DataStream /\ Closed
  BY <1>6, CleanWhileAlive DEF Init, Closed, CExits, Reconnects
<1>8. Taken = 0 /\ Len(tty) = 0 /\ Len(ptyCh) = 0 /\ Len(coal) = 0 /\ Len(out) = 0 /\ written = 0
  <2>1. Len(tty) = 0 /\ Len(ptyCh) = 0 /\ Len(coal) = 0 /\ Len(out) = 0 /\ written = 0
    BY DEF Init
  <2> QED
    BY <2>1 DEF Taken
<1>9. Numbered(<<>>, 0, 0) /\ Carries(<<>>, 0, 0)
  BY NumberedNone, CarriesNone
<1>10. PtyRuns
  BY <1>8, <1>9 DEF Init, PtyRuns
<1>11. ~ Announced
  BY <1>5 DEF Init, Announced, Holds
<1>12. OutRuns
  BY <1>5, <1>8, <1>9, <1>11 DEF Init, OutRuns
<1> QED
  BY <1>1, <1>3, <1>4, <1>7, <1>10, <1>12 DEF EndInv, EndTypes

\* It holds in every reachable state.
LEMMA EndInvariant == Spec => []EndInv
BY EndStart, EndStep, PTL DEF Spec

\* For every amount of output, number of heartbeats and number of faults: a client
\* that exits because of Shutdown has printed, in order and without a hole, all the
\* output that the session's loop had taken, unless a timer or the network dropped a
\* message.
THEOREM EndDelivers == Spec => []ShutdownDeliversTaken
<1>1. EndInv => ShutdownDeliversTaken
  <2> SUFFICES ASSUME EndInv PROVE ShutdownDeliversTaken
    OBVIOUS
  <2> USE TerminationAssumption
  <2>1. Flags /\ Places /\ Counts /\ Chunks /\ Wires /\ Events
    BY DEF EndInv, EndTypes
  <2>2. Len(streamCh) <= 3
    BY <2>1 DEF Events, EventsFit
  <2>3. TypeOK
    BY <2>1, <2>2 DEF TypeOK, Flags, Places, Counts, Chunks, Wires, Events
  <2>4. ASSUME cpc = "exitShutdown", ~cut
        PROVE  out = [i \in 1 .. Taken |-> i]
    <3>1. ~ alive /\ Announced /\ OutRuns
      BY <2>4 DEF EndInv, Closed, CExits, Announced
    <3>2. Carries(down["data"], Len(out), Taken) /\ Numbered(out, 0, Len(out))
      BY <2>4, <3>1 DEF OutRuns
    <3>3. down["data"] = <<>> /\ <<>> \in Seq(Messages)
      BY <2>4 DEF EndInv, Closed, CExits
    <3>4. Len(out) = Taken
      BY <3>2, <3>3, CarriesTake, Zenon
    <3>5. out \in Seq(1 .. MaxOut) /\ \A i \in 1 .. Len(out) : out[i] = i
      BY <2>1, <3>2 DEF Chunks, Numbered
    <3>6. out = [i \in 1 .. Len(out) |-> out[i]]
      BY <3>5
    <3> QED
      BY <3>4, <3>5, <3>6
  <2> QED
    BY <2>3, <2>4 DEF ShutdownDeliversTaken
<1> QED
  BY <1>1, EndInvariant, PTL

\* And a client to which Shutdown got through is not sent to reconnect by the error
\* of the data stream: nothing is behind an error on a stream.
THEOREM EndHeard == Spec => ShutdownHeard
<1>1. EndInv /\ [Next]_vars =>
        [cpc' = "exitNetwork" /\ cpc # "exitNetwork" /\ faults' = faults /\ ~cut' =>
           ~Holds(down["control"], "Shutdown")]_vars
  <2> SUFFICES ASSUME EndInv, Next, cpc' = "exitNetwork", cpc # "exitNetwork", faults' = faults, ~cut'
               PROVE  ~Holds(down["control"], "Shutdown")
    OBVIOUS
  <2> USE DEF netVars, cVars, sVars, ptyVars
  <2> DEFINE r == down["control"]
  <2>1. r \in Seq(Messages) /\ faults \in Nat
    BY TerminationAssumption DEF EndInv, EndTypes, Wires, Counts, Streams
  <2>2. ASSUME r # <<>>, Head(r).type = "err"
        PROVE  ~Holds(r, "Shutdown")
    BY <2>2, ErrAtHead DEF EndInv, EndTypes, Streams
  <2>3. CASE ClientControl
    BY <2>2, <2>3 DEF ClientControl, Exit, Take
  <2>4. CASE DrainForShutdown
    BY <2>2, <2>4 DEF DrainForShutdown, Exit
  <2>5. CASE DrainForShutdownTimeout
    BY <2>5, Zenon DEF DrainForShutdownTimeout
  <2>6. CASE ClientTimeout
    BY <2>1, <2>6 DEF ClientTimeout, Fault
  <2>7. cpc' = cpc \/ cpc' # "exitNetwork" \/ ClientControl \/ DrainForShutdown
          \/ DrainForShutdownTimeout \/ ClientTimeout
    BY Zenon DEF Next, ClientStep, SessionStep, Environment, ClientData, Exit,
       DrainTimeout, ClientWriteFails,
      ClientReadError, SessionReads, PtyData, PtyClosed, CoalTimer, StreamEvent,
      GracefulShutdown,
      AcceptCancelled, Slept, Cleanup, CleanupShell, WaitShell, ReadPTY, ReadPTYError,
      SessionReadError, NetBreak, ClientLeaves, Heartbeat, Cancel, ShellWrites, ShellExits,
      ptyRest
  <2> QED
    BY <2>3, <2>4, <2>5, <2>6, <2>7
<1> QED
  BY <1>1, EndInvariant, PTL DEF Spec, ShutdownHeard

=============================================================================

---------------------------- MODULE FlowControl -----------------------------
(***************************************************************************)
(* Who waits for whom on one connection.  Every buffer between the shell   *)
(* and the terminal is bounded (the PTY, the Go channels, the window of    *)
(* the transport), and the two event loops write to the network and to     *)
(* the PTY without a deadline: a loop that writes is in a state of its own *)
(* until the write returns, and serves no other case in between.           *)
(*                                                                         *)
(* A Data message has no number here (Reconnect is about numbers), so the  *)
(* user may type and the shell may write for ever.  A chunk of output is   *)
(* what the coalescer makes one message of.  A channel stands for all the  *)
(* buffering a reader goroutine has between the stream and the loop: over  *)
(* TCP also for controlCh and dataCh of tcpConn.                           *)
(***************************************************************************)
EXTENDS Integers, Sequences

CONSTANTS
  NetCap,      \* messages a stream takes before a writer blocks
  ChanCap,     \* capacity of the client's controlCh and of its dataCh
  StreamCap,   \* capacity of the session's streamCh
  PtyCap,      \* capacity of ptyDataCh
  TtyIn,       \* chunks of input the PTY holds
  TtyOut,      \* chunks of output the PTY holds
  MaxReplay    \* bound: messages either side replays in the handshake

ASSUME FlowAssumption ==
  /\ NetCap \in Nat \ {0} /\ ChanCap \in Nat \ {0} /\ StreamCap \in Nat \ {0}
  /\ PtyCap \in Nat \ {0} /\ TtyIn \in Nat \ {0} /\ TtyOut \in Nat \ {0}
  /\ MaxReplay \in Nat

VARIABLES
  tcp,        \* the transport: one TCP stream, or two QUIC streams
  open,       \* the session has not closed the connection
  lost,       \* the client is gone, and the session has not been told
  up, down,   \* what the transport holds, by stream
  missed,     \* messages the client has to replay on this connection
  cLeft,      \* how many of them it has not written yet
  cpc,        \* where the client's Run is
  cch,        \* how many messages controlCh and dataCh hold
  sLeft,      \* messages the session has not replayed yet
  spc,        \* where the session's Run is
  streamCh,   \* how many messages streamCh holds
  shell,      \* "read", or "write": blocked until the PTY takes its output
  ttyIn, ttyOut,  \* how much the PTY holds
  rd,         \* readPTY has a chunk in hand
  ptyCh       \* how many chunks ptyDataCh holds

netVars == <<tcp, open, lost, up, down, missed>>
cVars == <<cLeft, cpc, cch>>
sVars == <<sLeft, spc, streamCh>>
ptyVars == <<shell, ttyIn, ttyOut, rd, ptyCh>>
vars == <<netVars, cVars, sVars, ptyVars>>

Streams == {"control", "data"}

Messages == {"Data", "TerminalInfo", "Heartbeat"}

TypeOK ==
  /\ tcp \in BOOLEAN /\ open \in BOOLEAN /\ lost \in BOOLEAN
  /\ up \in [Streams -> Seq(Messages)]
  /\ down \in [Streams -> Seq(Messages)]
  /\ missed \in 0 .. MaxReplay /\ cLeft \in 0 .. missed
  /\ cpc \in {"replay", "select", "write", "print", "refused"}
  /\ cch \in [Streams -> 0 .. ChanCap]
  /\ sLeft \in 0 .. MaxReplay
  /\ spc \in {"info", "replay", "select", "write", "beat", "ptyWrite"}
  /\ streamCh \in 0 .. StreamCap
  /\ shell \in {"read", "write"}
  /\ ttyIn \in 0 .. TtyIn /\ ttyOut \in 0 .. TtyOut
  /\ rd \in BOOLEAN
  /\ ptyCh \in 0 .. PtyCap

\* A client has been accepted and the SequenceHeader exchanged: each side knows
\* what it has to replay.
Init ==
  /\ tcp \in BOOLEAN /\ open = TRUE /\ lost = FALSE
  /\ up = [t \in Streams |-> <<>>]
  /\ down = [t \in Streams |-> <<>>]
  /\ missed \in 0 .. MaxReplay /\ cLeft = missed
  /\ cpc = "replay"
  /\ cch = [t \in Streams |-> 0]
  /\ sLeft \in 0 .. MaxReplay
  /\ spc = "info"
  /\ streamCh = 0
  /\ shell = "read"
  /\ ttyIn = 0 /\ ttyOut = 0 /\ rd = FALSE /\ ptyCh = 0

-----------------------------------------------------------------------------
(* The transport.                                                          *)

StreamOf(m) == IF m = "Data" THEN "data" ELSE "control"

\* The stream that carries messages of kind t: TCP has only one.
Lane(t) == IF tcp THEN "data" ELSE t

Room(q, t) == Len(q[Lane(t)]) < NetCap

Send(q, m) == [q EXCEPT ![Lane(StreamOf(m))] = Append(@, m)]

-----------------------------------------------------------------------------
(* The client: handleSequenceExchange, sendTerminalInfo, ioLoop, readers.  *)

\* One WriteData of the replay.
ClientReplay ==
  /\ cpc = "replay" /\ open
  /\ cLeft > 0 /\ Room(up, "data")
  /\ up' = Send(up, "Data")
  /\ cLeft' = cLeft - 1
  /\ UNCHANGED <<tcp, open, lost, down, missed, cpc, cch, sVars, ptyVars>>

\* Only then TerminalInfo, with the first Resize behind it, and the ioLoop.
ClientInfo ==
  /\ cpc = "replay" /\ open
  /\ cLeft = 0 /\ Room(up, "control")
  /\ up' = Send(up, "TerminalInfo")
  /\ cpc' = "select"
  /\ UNCHANGED <<tcp, open, lost, down, missed, cLeft, cch, sVars, ptyVars>>

\* Whatever the client does on a closed connection fails, once a write to stdout
\* has come to its end.
ClientRefused ==
  /\ ~open
  /\ cpc \notin {"print", "refused"}
  /\ cpc' = "refused"
  /\ UNCHANGED <<netVars, cLeft, cch, sVars, ptyVars>>

\* Mutant: no reader is started for the control stream.
ClientReadsDataOnly(lane) ==
  /\ cpc \in {"select", "write", "print"}
  /\ down[lane] # <<>> /\ Head(down[lane]) = "Data"
  /\ cch["data"] < ChanCap
  /\ cch' = [cch EXCEPT !["data"] = @ + 1]
  /\ down' = [down EXCEPT ![lane] = Tail(@)]
  /\ UNCHANGED <<tcp, open, lost, up, missed, cLeft, cpc, sVars, ptyVars>>

\* A reader goroutine: readStreamLoop over a QUIC stream, or demuxLoop and
\* readStreamLoop over TCP, where a full channel holds up whatever is behind.
ClientReads(lane) ==
  /\ cpc \in {"select", "write", "print"}
  /\ down[lane] # <<>>
  /\ LET t == StreamOf(Head(down[lane]))
     IN cch[t] < ChanCap /\ cch' = [cch EXCEPT ![t] = @ + 1]
  /\ down' = [down EXCEPT ![lane] = Tail(@)]
  /\ UNCHANGED <<tcp, open, lost, up, missed, cLeft, cpc, sVars, ptyVars>>

\* The stdin case: a batch of input is to be written.
ClientStdin ==
  /\ cpc = "select" /\ open
  /\ cpc' = "write"
  /\ UNCHANGED <<netVars, cLeft, cch, sVars, ptyVars>>

\* WriteData of flushStdinCoalesced returns.
ClientWrite ==
  /\ cpc = "write" /\ open
  /\ Room(up, "data")
  /\ up' = Send(up, "Data")
  /\ cpc' = "select"
  /\ UNCHANGED <<tcp, open, lost, down, missed, cLeft, cch, sVars, ptyVars>>

\* The controlCh and dataCh cases: Data is to be written to stdout.
ClientTakes(t) ==
  /\ cpc = "select" /\ open
  /\ cch[t] > 0
  /\ cch' = [cch EXCEPT ![t] = @ - 1]
  /\ cpc' = IF t = "data" THEN "print" ELSE "select"
  /\ UNCHANGED <<netVars, cLeft, sVars, ptyVars>>

\* The write to stdout returns.
ClientPrints ==
  /\ cpc = "print"
  /\ cpc' = "select"
  /\ UNCHANGED <<netVars, cLeft, cch, sVars, ptyVars>>

\* The client dies, or the network between the two does, whatever it was doing.
\* What it sent may still arrive; what the session sends is not acknowledged.
ClientLost ==
  /\ open /\ ~lost
  /\ lost' = TRUE
  /\ cpc' = "refused"
  /\ cch' = [t \in Streams |-> 0]
  /\ UNCHANGED <<tcp, open, up, down, missed, cLeft, sVars, ptyVars>>

-----------------------------------------------------------------------------
(* The session: handleNewConn after the SequenceHeader, the event loop and *)
(* the readers.                                                            *)

\* Mutant: TerminalInfo is read from the data stream.
SessionInfoFromData ==
  /\ spc = "info"
  /\ up["data"] # <<>>
  /\ up' = [up EXCEPT !["data"] = Tail(@)]
  /\ IF Head(up["data"]) = "TerminalInfo"
     THEN spc' = "replay" /\ UNCHANGED open
     ELSE spc' = "select" /\ open' = FALSE
  /\ UNCHANGED <<tcp, lost, down, missed, cVars, sLeft, streamCh, ptyVars>>

\* ReadControl of handleNewConn.  Over TCP it takes whatever comes first, and
\* anything but TerminalInfo closes the connection.
SessionInfo ==
  /\ spc = "info"
  /\ up[Lane("control")] # <<>>
  /\ up' = [up EXCEPT ![Lane("control")] = Tail(@)]
  /\ IF Head(up[Lane("control")]) = "TerminalInfo"
     THEN spc' = "replay" /\ UNCHANGED open
     ELSE spc' = "select" /\ open' = FALSE
  /\ UNCHANGED <<tcp, lost, down, missed, cVars, sLeft, streamCh, ptyVars>>

\* Mutant: the deadline is already past when it is set.
SessionInfoDeadlinePast ==
  /\ spc = "info"
  /\ up[Lane("control")] = <<>>
  /\ open' = FALSE
  /\ spc' = "select"
  /\ UNCHANGED <<tcp, lost, up, down, missed, cVars, sLeft, streamCh, ptyVars>>

\* The 5 s read deadline of handleNewConn, against a client that is blocked in
\* its replay.  (A client that is not answers in time here.)
SessionInfoDeadline ==
  /\ spc = "info"
  /\ cpc = "replay" /\ cLeft > 0 /\ ~Room(up, "data")
  /\ up[Lane("control")] = <<>>
  /\ open' = FALSE
  /\ spc' = "select"
  /\ UNCHANGED <<tcp, lost, up, down, missed, cVars, sLeft, streamCh, ptyVars>>

\* One WriteData of the catchup replay; after the last one the readers start.
SessionReplay ==
  /\ spc = "replay"
  /\ \/ /\ sLeft > 0 /\ Room(down, "data")
        /\ down' = Send(down, "Data")
        /\ sLeft' = sLeft - 1
        /\ UNCHANGED spc
     \/ /\ sLeft = 0
        /\ spc' = "select"
        /\ UNCHANGED <<down, sLeft>>
  /\ UNCHANGED <<tcp, open, lost, up, missed, cVars, streamCh, ptyVars>>

\* readStream: a message of the connection becomes an event on streamCh.
SessionReads ==
  /\ open /\ spc \notin {"info", "replay"}
  /\ up["data"] # <<>>
  /\ streamCh < StreamCap
  /\ streamCh' = streamCh + 1
  /\ up' = [up EXCEPT !["data"] = Tail(@)]
  /\ UNCHANGED <<tcp, open, lost, down, missed, cVars, sLeft, spc, ptyVars>>

\* Mutant: the PTY is read only while there is a connection.
PtyDataConnected ==
  /\ spc = "select" /\ open
  /\ ptyCh > 0
  /\ ptyCh' = ptyCh - 1
  /\ spc' = "write"
  /\ UNCHANGED <<netVars, cVars, sLeft, streamCh, shell, ttyIn, ttyOut, rd>>

\* The ptyDataCh case, or the coalescer's timer case if the chunk waited for it:
\* with a connection, the WriteData of flushCoalesced is under way.
PtyData ==
  /\ spc = "select"
  /\ ptyCh > 0
  /\ ptyCh' = ptyCh - 1
  /\ spc' = IF open THEN "write" ELSE "select"
  /\ UNCHANGED <<netVars, cVars, sLeft, streamCh, shell, ttyIn, ttyOut, rd>>

\* The WriteData of flushCoalesced returns.
SessionWrite ==
  /\ spc = "write"
  /\ Room(down, "data")
  /\ down' = Send(down, "Data")
  /\ spc' = "select"
  /\ UNCHANGED <<tcp, open, lost, up, missed, cVars, sLeft, streamCh, ptyVars>>

\* The heartbeat case, and the return of its WriteControl.
Heartbeat ==
  /\ spc = "select" /\ open
  /\ spc' = "beat"
  /\ UNCHANGED <<netVars, cVars, sLeft, streamCh, ptyVars>>

HeartbeatWrite ==
  /\ spc = "beat"
  /\ Room(down, "control")
  /\ down' = Send(down, "Heartbeat")
  /\ spc' = "select"
  /\ UNCHANGED <<tcp, open, lost, up, missed, cVars, sLeft, streamCh, ptyVars>>

\* The streamCh case: handleStreamEvent is in its write to the PTY, unless the
\* event's connection has been closed meanwhile.
StreamEvent ==
  /\ spc = "select"
  /\ streamCh > 0
  /\ streamCh' = streamCh - 1
  /\ spc' = IF open THEN "ptyWrite" ELSE "select"
  /\ UNCHANGED <<netVars, cVars, sLeft, ptyVars>>

\* ptmx.Write returns.
PtyWrite ==
  /\ spc = "ptyWrite"
  /\ ttyIn < TtyIn
  /\ ttyIn' = ttyIn + 1
  /\ spc' = "select"
  /\ UNCHANGED <<netVars, cVars, sLeft, streamCh, shell, ttyOut, rd, ptyCh>>

\* closeConn, for a lost connection: a read or write fails, QUIC's idle timeout or
\* TCP's retransmissions end it, or a heartbeat case finds that recvTimeout, or
\* handleNewConn that its deadline has passed.
SessionDrops ==
  /\ open /\ lost
  /\ spc # "ptyWrite"
  /\ open' = FALSE
  /\ spc' = "select"
  /\ UNCHANGED <<tcp, lost, up, down, missed, cVars, sLeft, streamCh, ptyVars>>

-----------------------------------------------------------------------------
(* The shell and readPTY.                                                  *)

\* The shell reads a chunk, and may answer it before it reads again.
ShellReads ==
  /\ shell = "read"
  /\ ttyIn > 0
  /\ ttyIn' = ttyIn - 1
  /\ shell' \in {"read", "write"}
  /\ UNCHANGED <<netVars, cVars, sVars, ttyOut, rd, ptyCh>>

\* The shell has output of its own.
ShellSpeaks ==
  /\ shell = "read"
  /\ shell' = "write"
  /\ UNCHANGED <<netVars, cVars, sVars, ttyIn, ttyOut, rd, ptyCh>>

\* Its write to the PTY returns.
ShellWrites ==
  /\ shell = "write"
  /\ ttyOut < TtyOut
  /\ ttyOut' = ttyOut + 1
  /\ shell' = "read"
  /\ UNCHANGED <<netVars, cVars, sVars, ttyIn, rd, ptyCh>>

\* readPTY: its read, and its send to ptyDataCh.
PtyRead ==
  /\ ~rd /\ ttyOut > 0
  /\ rd' = TRUE
  /\ ttyOut' = ttyOut - 1
  /\ UNCHANGED <<netVars, cVars, sVars, shell, ttyIn, ptyCh>>

PtyReadSend ==
  /\ rd /\ ptyCh < PtyCap
  /\ rd' = FALSE
  /\ ptyCh' = ptyCh + 1
  /\ UNCHANGED <<netVars, cVars, sVars, shell, ttyIn, ttyOut>>

-----------------------------------------------------------------------------
(* The circular waits.                                                     *)

\* The session writes to a PTY full of input; the shell does not read it, being
\* blocked in a write to a PTY full of output; readPTY does not read that, being
\* blocked on a full ptyDataCh, which only the session's loop empties.
TtyCycle ==
  /\ spc = "ptyWrite" /\ ttyIn = TtyIn
  /\ shell = "write" /\ ttyOut = TtyOut
  /\ rd /\ ptyCh = PtyCap

\* The kind of message the session's loop is writing, if any.
SessionWrites ==
  CASE spc = "write" \/ (spc = "replay" /\ sLeft > 0) -> {"data"}
    [] spc = "beat" -> {"control"}
    [] OTHER -> {}

\* Both loops write to a full stream.  What is in front of the client's reader
\* waits for a place in a channel that only the client's loop empties; the
\* session's readers wait for the session's loop, or do not run yet.
NetCycle ==
  /\ open
  /\ cpc = "write" /\ ~Room(up, "data")
  /\ spc = "replay" \/ streamCh = StreamCap
  /\ \E t \in SessionWrites :
        ~Room(down, t) /\ cch[StreamOf(Head(down[Lane(t)]))] = ChanCap

Wedged == TtyCycle \/ NetCycle

Next ==
  \/ ClientReplay \/ ClientInfo \/ ClientRefused
  \/ ClientStdin \/ ClientWrite \/ ClientPrints \/ ClientLost
  \/ \E t \in Streams : ClientReads(t) \/ ClientTakes(t)
  \/ SessionInfo \/ SessionInfoDeadline \/ SessionReplay \/ SessionReads
  \/ PtyData \/ SessionWrite \/ Heartbeat \/ HeartbeatWrite
  \/ StreamEvent \/ PtyWrite \/ SessionDrops
  \/ ShellReads \/ ShellSpeaks \/ ShellWrites \/ PtyRead \/ PtyReadSend

Spec == Init /\ [][Next]_vars

\* Goroutines run, a blocked write or send returns once there is room, and a
\* select chooses among its ready cases at random, so a case that is ready again
\* and again is served.  A stream delivers until it is lost, and the transport or a
\* timeout ends a lost connection.  Of the shell: it gets round to reading its
\* input.  Of the client's terminal: it takes what is written to it.
Fairness ==
  /\ WF_vars(ClientReplay) /\ WF_vars(ClientInfo) /\ WF_vars(ClientRefused)
  /\ WF_vars(ClientWrite) /\ WF_vars(ClientPrints)
  /\ \A t \in Streams : WF_vars(ClientReads(t)) /\ SF_vars(ClientTakes(t))
  /\ WF_vars(~lost /\ SessionInfo) /\ WF_vars(~lost /\ SessionReads)
  /\ WF_vars(SessionInfoDeadline) /\ WF_vars(SessionReplay) /\ WF_vars(SessionDrops)
  /\ SF_vars(PtyData) /\ SF_vars(StreamEvent)
  /\ WF_vars(SessionWrite) /\ WF_vars(HeartbeatWrite) /\ WF_vars(PtyWrite)
  /\ SF_vars(ShellReads) /\ WF_vars(ShellWrites)
  /\ WF_vars(PtyRead) /\ WF_vars(PtyReadSend)

FairSpec == Spec /\ Fairness

\* The client can finish its replay before the session reads any of it.
Fits == IF tcp THEN missed = 0 ELSE missed <= NetCap

\* The session closes a connection in the handshake only because it is lost or
\* because the replay in front of TerminalInfo does not fit: never a client that
\* is slow, that types ahead while the session still waits, or whose keystrokes
\* share the stream with TerminalInfo (session.go 374-389, client.go 262-271).
\* The first conjunct is the type invariant: no buffer exceeds its capacity.
RefusedOnlyIf ==
  /\ TypeOK
  /\ ~open => lost \/ ~Fits

\* A replay that fits completes the handshake: the session's loop is back in its
\* select with the connection, unless both loops come to block each other or the
\* connection is lost (session.go 374-410).
FitsJoins == Fits /\ spc = "info" ~> (open /\ spc = "select") \/ NetCycle \/ lost

\* An event loop that is waiting for a write gets back to its select, unless
\* every buffer of one of the two circular waits is full; and the session lets
\* go of a lost connection, also when it was lost under a write that has no
\* deadline (session.go 183-194, 323, 467, client.go 347).
LoopsReturn ==
  /\ spc # "select" ~> spc = "select" \/ Wedged
  /\ cpc = "write" ~> cpc # "write" \/ Wedged
  /\ lost ~> ~open \/ TtyCycle

\* Output leaves the shell, with a client or without one, unless wedged.
OutputFlows == shell = "write" ~> shell = "read" \/ Wedged
=============================================================================

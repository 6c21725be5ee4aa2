---------------------------- MODULE Termination -----------------------------
(***************************************************************************)
(* How a session ends: the shell exits, the context is cancelled, or the   *)
(* client leaves.  The last output is in the PTY, in readPTY's hands, in   *)
(* ptyDataCh, in the coalescer or on the network; the exit of the shell is *)
(* reported by another goroutine; Shutdown and data are on two streams or  *)
(* on one; and each side closes the connection while the other may still   *)
(* be reading from it.                                                     *)
(*                                                                         *)
(* One connection, past its handshake.  Writes do not block here           *)
(* (FlowControl is about that), so what the shell wrote is numbered        *)
(* 1, 2, ... and a message carries the numbers of its chunks.              *)
(***************************************************************************)
EXTENDS Integers, Sequences

CONSTANTS
  MaxOut,      \* bound: chunks the shell writes
  MaxBeats,    \* bound: heartbeats of the session
  MaxFaults    \* bound: network failures and receive timeouts

ASSUME TerminationAssumption ==
  MaxOut \in Nat /\ MaxBeats \in Nat /\ MaxFaults \in Nat

VARIABLES
  tcp,        \* the transport: one TCP stream, or two QUIC streams
  alive,      \* the connection is neither closed nor broken
  bye,        \* the client's Shutdown is under way
  down,       \* the session's messages, on the network or in the client's channels
  cut,        \* a close, a failure or a timer dropped a message
  faults, beats,
  cpc,        \* where the client's ioLoop is, or why it left the connection
  cReading,   \* streams that still have a readStreamLoop
  out,        \* chunks written to stdout
  spc,        \* where the session's Run is
  sconn,      \* s.conn is the connection, not nil
  coal,       \* chunks in s.coal
  streamCh,
  sReading,   \* streams that still have a readStream
  ctx,        \* the session's context is cancelled
  shell,      \* "running", "exited" or "killed"
  shellDone,  \* waitShell has closed shellDone
  written,    \* chunks the shell has written
  tty,        \* chunks the PTY holds
  ptyCh,      \* chunks read by readPTY, in its hand or in ptyDataCh
  ptyEOF,     \* ptyDataCh is closed
  ptyOn,      \* the select still has its ptyDataCh case
  hup         \* ptmx is closed

netVars == <<tcp, alive, bye, down, cut, faults, beats>>
cVars == <<cpc, cReading, out>>
sVars == <<spc, sconn, coal, streamCh, sReading, ctx>>
ptyVars == <<shell, shellDone, written, tty, ptyCh, ptyEOF, ptyOn, hup>>
vars == <<netVars, cVars, sVars, ptyVars>>

Streams == {"control", "data"}

\* exitNetwork is split by what made ioLoop return it: a read or a timeout, a
\* failed write, or another message where drainForShutdown looks for Shutdown.
Reconnects == {"exitNetwork", "writeFailed", "otherMessage"}

CExits == Reconnects \cup {"exitShutdown", "left"}

Messages == [type : {"Data", "Heartbeat", "Shutdown", "err"}, chunks : Seq(1 .. MaxOut)]

TypeOK ==
  /\ tcp \in BOOLEAN /\ alive \in BOOLEAN /\ bye \in BOOLEAN /\ cut \in BOOLEAN
  /\ down \in [Streams -> Seq(Messages)]
  /\ faults \in 0 .. MaxFaults /\ beats \in 0 .. MaxBeats
  /\ cpc \in {"select", "drain", "drainctl"} \cup CExits
  /\ cReading \subseteq Streams
  /\ out \in Seq(1 .. MaxOut)
  /\ spc \in {"select", "sleep", "cleanup", "grace", "exited"}
  /\ sconn \in BOOLEAN
  /\ coal \in Seq(1 .. MaxOut)
  /\ streamCh \in Seq({"Shutdown", "err"}) /\ Len(streamCh) <= 3
  /\ sReading \subseteq Streams
  /\ ctx \in BOOLEAN
  /\ shell \in {"running", "exited", "killed"}
  /\ shellDone \in BOOLEAN
  /\ written \in 0 .. MaxOut
  /\ tty \in Seq(1 .. MaxOut)
  /\ ptyCh \in Seq(1 .. MaxOut)
  /\ ptyEOF \in BOOLEAN /\ ptyOn \in BOOLEAN /\ hup \in BOOLEAN

\* Both loops are in their select, and the shell has just been spawned.
Init ==
  /\ tcp \in BOOLEAN /\ alive = TRUE /\ bye = FALSE
  /\ down = [t \in Streams |-> <<>>]
  /\ cut = FALSE /\ faults = 0 /\ beats = 0
  /\ cpc = "select"
  /\ cReading = Streams
  /\ out = <<>>
  /\ spc = "select" /\ sconn = TRUE /\ coal = <<>>
  /\ streamCh = <<>> /\ sReading = Streams
  /\ ctx = FALSE
  /\ shell = "running" /\ shellDone = FALSE
  /\ written = 0 /\ tty = <<>> /\ ptyCh = <<>>
  /\ ptyEOF = FALSE /\ ptyOn = TRUE /\ hup = FALSE

-----------------------------------------------------------------------------
(* The transport.                                                          *)

Msg(type, chunks) == [type |-> type, chunks |-> chunks]

Err == Msg("err", <<>>)

StreamOf(m) == IF m.type = "Data" THEN "data" ELSE "control"

Send(q, m) == [q EXCEPT ![StreamOf(m)] = Append(@, m)]

Holds(q, type) == \E i \in DOMAIN q : q[i].type = type

Fault == faults < MaxFaults /\ faults' = faults + 1

\* The path between the two sides fails.
NetBreak ==
  /\ alive
  /\ Fault
  /\ alive' = FALSE
  /\ UNCHANGED <<tcp, bye, down, cut, beats, cVars, sVars, ptyVars>>

-----------------------------------------------------------------------------
(* The client: ioLoop, its readers, and Run after it.  The readers show    *)
(* only in what they do when the connection ends: until then a message may *)
(* reach its select case at any time.                                      *)

\* What fails together: a reader over QUIC, the demultiplexer over TCP.
Readers == IF tcp THEN {Streams} ELSE {{"control"}, {"data"}}

\* A closed or failed connection: the readers pass on what arrived, a prefix of
\* each stream, and then the error.  TCP delivers in the order of the writes, so
\* Shutdown, the last of them, arrives only behind all the data.
ClientReadError(ts) ==
  /\ ~alive /\ cpc \notin CExits
  /\ ts \subseteq cReading
  /\ cReading' = cReading \ ts
  /\ \E n \in [ts -> 0 .. MaxOut + MaxBeats + 1] :
       /\ \A t \in ts : n[t] <= Len(down[t])
       /\ tcp /\ n["data"] < Len(down["data"]) =>
            cpc # "drain" /\ ~Holds(SubSeq(down["control"], 1, n["control"]), "Shutdown")
       /\ down' = [t \in Streams |->
                    IF t \in ts THEN Append(SubSeq(down[t], 1, n[t]), Err) ELSE down[t]]
       /\ cut' = (cut \/ \E t \in ts : n[t] < Len(down[t]))
  /\ UNCHANGED <<tcp, alive, bye, faults, beats, cpc, out, sVars, ptyVars>>

\* ioLoop returns, and what its channels hold is garbage.
Exit(why) ==
  /\ cpc' = why
  /\ down' = [t \in Streams |-> <<>>]
  /\ cReading' = {}

\* ioLoop takes the next message of a stream.
Take(t) ==
  /\ down' = [down EXCEPT ![t] = Tail(@)]
  /\ UNCHANGED cReading

\* The controlCh case.
ClientControl ==
  /\ cpc = "select"
  /\ down["control"] # <<>>
  /\ LET type == Head(down["control"]).type
     IN \/ type = "err" /\ Exit("exitNetwork")
        \/ type = "Shutdown" /\ Take("control") /\ cpc' = "drain"
        \/ type = "Heartbeat" /\ Take("control") /\ UNCHANGED cpc
  /\ UNCHANGED <<tcp, alive, bye, cut, faults, beats, out, sVars, ptyVars>>

\* Mutant: an error on the data stream is a network failure, without a look at
\* the control channel.
ClientDataNoDrain ==
  /\ cpc \in {"select", "drain"}
  /\ down["data"] # <<>>
  /\ LET m == Head(down["data"])
     IN \/ m.type = "Data" /\ Take("data") /\ out' = out \o m.chunks /\ UNCHANGED cpc
        \/ m = Err /\ cpc = "select" /\ Exit("exitNetwork") /\ UNCHANGED out
        \/ m = Err /\ cpc = "drain" /\ Exit("exitShutdown") /\ UNCHANGED out
  /\ UNCHANGED <<tcp, alive, bye, cut, faults, beats, sVars, ptyVars>>

\* The dataCh case, and the one of drainRemainingData.
ClientData ==
  /\ cpc \in {"select", "drain"}
  /\ down["data"] # <<>>
  /\ LET m == Head(down["data"])
     IN \/ m.type = "Data" /\ Take("data") /\ out' = out \o m.chunks /\ UNCHANGED cpc
        \/ m = Err /\ cpc = "select" /\ Take("data") /\ cpc' = "drainctl" /\ UNCHANGED out
        \/ m = Err /\ cpc = "drain" /\ Exit("exitShutdown") /\ UNCHANGED out
  /\ UNCHANGED <<tcp, alive, bye, cut, faults, beats, sVars, ptyVars>>

\* The 100 ms of drainRemainingData are over; Run closes the connection.
DrainTimeout ==
  /\ cpc = "drain"
  /\ Exit("exitShutdown")
  /\ alive' = FALSE
  /\ cut' = (cut \/ Holds(down["data"], "Data"))
  /\ UNCHANGED <<tcp, bye, faults, beats, out, sVars, ptyVars>>

\* drainForShutdown: the next control message, or 100 ms.
DrainForShutdown ==
  /\ cpc = "drainctl"
  /\ down["control"] # <<>>
  /\ LET type == Head(down["control"]).type
     IN Exit(CASE type = "Shutdown" -> "exitShutdown"
               [] type = "err" -> "exitNetwork"
               [] OTHER -> "otherMessage")
  /\ UNCHANGED <<tcp, alive, bye, cut, faults, beats, out, sVars, ptyVars>>

DrainForShutdownTimeout ==
  /\ cpc = "drainctl"
  /\ Exit("exitNetwork")
  /\ cut' = (cut \/ Holds(down["control"], "Shutdown"))
  /\ UNCHANGED <<tcp, alive, bye, faults, beats, out, sVars, ptyVars>>

\* A flush of stdin or a heartbeat finds the connection dead.
ClientWriteFails ==
  /\ cpc = "select"
  /\ ~alive
  /\ Exit("writeFailed")
  /\ UNCHANGED <<tcp, alive, bye, cut, faults, beats, out, sVars, ptyVars>>

\* Nothing received for recvTimeout; Run closes the connection.
ClientTimeout ==
  /\ cpc = "select"
  /\ Fault
  /\ Exit("exitNetwork")
  /\ alive' = FALSE
  /\ UNCHANGED <<tcp, bye, cut, beats, out, sVars, ptyVars>>

\* exitEscape, exitStdinEOF or exitCancelled: WriteControl(Shutdown), best
\* effort, and at once Close.
ClientLeaves ==
  /\ cpc = "select"
  /\ Exit("left")
  /\ bye' = alive
  /\ alive' = FALSE
  /\ UNCHANGED <<tcp, cut, faults, beats, out, sVars, ptyVars>>

-----------------------------------------------------------------------------
(* The session: its readers, the event loop of Run, and Run's exit.        *)

\* readStream of the control stream gets the client's Shutdown.
SessionReads ==
  /\ bye /\ sconn /\ spc = "select"
  /\ "control" \in sReading
  /\ bye' = FALSE
  /\ streamCh' = Append(streamCh, "Shutdown")
  /\ UNCHANGED <<tcp, alive, down, cut, faults, beats, cVars, spc, sconn, coal,
                 sReading, ctx, ptyVars>>

\* The error of a closed or failed connection, while it still is s.conn.
SessionReadError(t) ==
  /\ ~alive /\ sconn /\ spc = "select"
  /\ t \in sReading
  /\ sReading' = sReading \ {t}
  /\ streamCh' = Append(streamCh, "err")
  /\ IF bye /\ (tcp \/ t = "control")
     THEN bye' = FALSE /\ cut' = TRUE
     ELSE UNCHANGED <<bye, cut>>
  /\ UNCHANGED <<tcp, alive, down, faults, beats, cVars, spc, sconn, coal, ctx, ptyVars>>

\* flushCoalesced of the given chunks: stored and, with a connection, written; a
\* failed write drops the connection.
FlushCoalesced(chunks) ==
  /\ coal' = <<>>
  /\ sconn' = (sconn /\ (alive \/ chunks = <<>>))
  /\ down' = IF sconn /\ alive /\ chunks # <<>>
             THEN Send(down, Msg("Data", chunks)) ELSE down

\* The ptyDataCh case: the chunk is added, and a full coalescer flushed.
PtyData ==
  /\ spc = "select" /\ ptyOn
  /\ ptyCh # <<>>
  /\ ptyCh' = Tail(ptyCh)
  /\ \/ FlushCoalesced(Append(coal, Head(ptyCh)))
     \/ coal' = Append(coal, Head(ptyCh)) /\ UNCHANGED <<sconn, down>>
  /\ UNCHANGED <<tcp, alive, bye, cut, faults, beats, cVars, spc, streamCh, sReading, ctx,
                 shell, shellDone, written, tty, ptyEOF, ptyOn, hup>>

\* The same case once readPTY has closed the channel.
PtyClosed ==
  /\ spc = "select" /\ ptyOn
  /\ ptyCh = <<>> /\ ptyEOF
  /\ FlushCoalesced(coal)
  /\ ptyOn' = FALSE
  /\ UNCHANGED <<tcp, alive, bye, cut, faults, beats, cVars, spc, streamCh, sReading, ctx,
                 shell, shellDone, written, tty, ptyCh, ptyEOF, hup>>

\* The coalescer's timer case.
CoalTimer ==
  /\ spc = "select"
  /\ coal # <<>>
  /\ FlushCoalesced(coal)
  /\ UNCHANGED <<tcp, alive, bye, cut, faults, beats, cVars, spc, streamCh, sReading, ctx,
                 ptyVars>>

\* The heartbeat case: WriteControl, and the check of lastRecv.
Heartbeat ==
  /\ spc = "select" /\ sconn
  /\ beats < MaxBeats
  /\ beats' = beats + 1
  /\ down' = IF alive THEN Send(down, Msg("Heartbeat", <<>>)) ELSE down
  /\ \/ alive /\ UNCHANGED <<sconn, alive, faults>>
     \/ alive /\ Fault /\ sconn' = FALSE /\ alive' = FALSE
     \/ ~alive /\ sconn' = FALSE /\ UNCHANGED <<alive, faults>>
  /\ UNCHANGED <<tcp, bye, cut, cVars, spc, coal, streamCh, sReading, ctx, ptyVars>>

\* The streamCh case: handleStreamEvent.  An event of a connection that is no
\* longer s.conn is dropped, the client's Shutdown included.
StreamEvent ==
  /\ spc = "select"
  /\ streamCh # <<>>
  /\ streamCh' = Tail(streamCh)
  /\ \/ /\ ~sconn
        /\ UNCHANGED <<spc, sconn, alive>>
     \/ /\ sconn /\ Head(streamCh) = "err"
        /\ sconn' = FALSE /\ alive' = FALSE
        /\ UNCHANGED spc
     \/ /\ sconn /\ Head(streamCh) = "Shutdown"
        /\ spc' = "cleanup"
        /\ UNCHANGED <<sconn, alive>>
  /\ UNCHANGED <<tcp, bye, down, cut, faults, beats, cVars, coal, sReading, ctx, ptyVars>>

\* SIGTERM or SIGINT of the session process, while its loop runs.
Cancel ==
  /\ ~ctx /\ spc = "select"
  /\ ctx' = TRUE
  /\ UNCHANGED <<netVars, cVars, spc, sconn, coal, streamCh, sReading, ptyVars>>

\* Mutant: Shutdown without the flush.
GracefulShutdownNoFlush ==
  /\ spc = "select"
  /\ shellDone \/ ctx
  /\ spc' = IF sconn THEN "sleep" ELSE "cleanup"
  /\ down' = IF sconn /\ alive THEN Send(down, Msg("Shutdown", <<>>)) ELSE down
  /\ UNCHANGED <<tcp, alive, bye, cut, faults, beats, cVars, sconn, coal, streamCh,
                 sReading, ctx, ptyVars>>

\* The shellDone and ctx.Done cases: gracefulShutdown flushes, and tells a client
\* that is still there.
GracefulShutdown ==
  /\ spc = "select"
  /\ shellDone \/ ctx
  /\ coal' = <<>>
  /\ sconn' = (sconn /\ (alive \/ coal = <<>>))
  /\ spc' = IF sconn' THEN "sleep" ELSE "cleanup"
  /\ LET flushed == IF coal = <<>> THEN down ELSE Send(down, Msg("Data", coal))
     IN down' = IF sconn /\ alive THEN Send(flushed, Msg("Shutdown", <<>>)) ELSE down
  /\ UNCHANGED <<tcp, alive, bye, cut, faults, beats, cVars, streamCh, sReading, ctx,
                 ptyVars>>

\* Mutant: gracefulShutdown waits for a client that stays on the connection.
SleptForClient ==
  /\ spc = "sleep"
  /\ cpc \in CExits /\ alive
  /\ spc' = "cleanup"
  /\ UNCHANGED <<netVars, cVars, sconn, coal, streamCh, sReading, ctx, ptyVars>>

\* The acceptCh case with the error of a cancelled context: Run returns.
AcceptCancelled ==
  /\ spc = "select"
  /\ ctx
  /\ spc' = "cleanup"
  /\ UNCHANGED <<netVars, cVars, sconn, coal, streamCh, sReading, ctx, ptyVars>>

\* The 50 ms of gracefulShutdown are over.
Slept ==
  /\ spc = "sleep"
  /\ spc' = "cleanup"
  /\ UNCHANGED <<netVars, cVars, sconn, coal, streamCh, sReading, ctx, ptyVars>>

\* Mutant: Run returns without closing the connection.
CleanupKeepsConn ==
  /\ spc = "cleanup"
  /\ sconn' = FALSE /\ coal' = <<>> /\ streamCh' = <<>> /\ sReading' = {}
  /\ hup' = TRUE
  /\ spc' = "grace"
  /\ UNCHANGED <<tcp, alive, bye, down, cut, faults, beats, cVars, ctx, shell, shellDone,
                 written, tty, ptyCh, ptyEOF, ptyOn>>

\* The deferred closeConn and ln.Close, and ptmx.Close of cleanupShell.  What the
\* coalescer and streamCh hold is garbage.
Cleanup ==
  /\ spc = "cleanup"
  /\ sconn' = FALSE /\ coal' = <<>> /\ streamCh' = <<>> /\ sReading' = {}
  /\ alive' = (alive /\ ~sconn)
  /\ hup' = TRUE
  /\ spc' = "grace"
  /\ UNCHANGED <<tcp, bye, down, cut, faults, beats, cVars, ctx, shell, shellDone,
                 written, tty, ptyCh, ptyEOF, ptyOn>>

\* cleanupShell sees shellDone, or kills the shell after shellExitGrace.
CleanupShell ==
  /\ spc = "grace"
  /\ spc' = "exited"
  /\ shell' = IF shell = "running" THEN "killed" ELSE shell
  /\ UNCHANGED <<netVars, cVars, sconn, coal, streamCh, sReading, ctx,
                 shellDone, written, tty, ptyCh, ptyEOF, ptyOn, hup>>

-----------------------------------------------------------------------------
(* The shell, the PTY, readPTY and waitShell.                              *)

ptyRest == <<netVars, cVars, sVars, ptyOn, hup>>

ShellWrites ==
  /\ shell = "running" /\ ~hup
  /\ written < MaxOut
  /\ written' = written + 1
  /\ tty' = Append(tty, written + 1)
  /\ UNCHANGED <<ptyRest, shell, shellDone, ptyCh, ptyEOF>>

\* Of its own accord, or on the SIGHUP of ptmx.Close.
ShellExits ==
  /\ shell = "running"
  /\ shell' = "exited"
  /\ UNCHANGED <<ptyRest, shellDone, written, tty, ptyCh, ptyEOF>>

WaitShell ==
  /\ shell # "running" /\ ~shellDone
  /\ shellDone' = TRUE
  /\ UNCHANGED <<ptyRest, shell, written, tty, ptyCh, ptyEOF>>

\* readPTY: a read, which still gets what the PTY holds after the shell's exit,
\* with the send to ptyDataCh; and the read error that closes ptyDataCh.  (Once
\* the loop has ended nobody takes what is read.)
ReadPTY ==
  /\ tty # <<>> /\ spc = "select"
  /\ ptyCh' = Append(ptyCh, Head(tty))
  /\ tty' = Tail(tty)
  /\ UNCHANGED <<ptyRest, shell, shellDone, written, ptyEOF>>

ReadPTYError ==
  /\ ~ptyEOF
  /\ shell # "running" /\ tty = <<>> /\ spc = "select"
  /\ ptyEOF' = TRUE
  /\ UNCHANGED <<ptyRest, shell, shellDone, written, tty, ptyCh>>

-----------------------------------------------------------------------------

\* What the program does by itself, its timers included.
ClientStep ==
  \/ ClientControl \/ ClientData \/ DrainTimeout
  \/ DrainForShutdown \/ DrainForShutdownTimeout \/ ClientWriteFails
  \/ \E ts \in Readers : ClientReadError(ts)

SessionStep ==
  \/ SessionReads \/ PtyData \/ PtyClosed \/ CoalTimer \/ StreamEvent
  \/ GracefulShutdown \/ AcceptCancelled \/ Slept \/ Cleanup \/ CleanupShell
  \/ WaitShell \/ ReadPTY \/ ReadPTYError
  \/ \E t \in Streams : SessionReadError(t)

\* What the network, the user, the shell, a signal or a heartbeat may bring.
Environment ==
  \/ NetBreak \/ ClientTimeout \/ ClientLeaves
  \/ Heartbeat \/ Cancel \/ ShellWrites \/ ShellExits

Next == ClientStep \/ SessionStep \/ Environment

Spec == Init /\ [][Next]_vars

\* Goroutines run and timers fire.  Every behaviour is finite, so it is enough
\* that neither process stops while it has a step to take.
FairSpec == Spec /\ WF_vars(ClientStep) /\ WF_vars(SessionStep)

\* The number of chunks that the session's loop has taken from ptyDataCh.
Taken == written - Len(tty) - Len(ptyCh)

\* gracefulShutdown flushes before it announces the end, and the client drains
\* before it believes it: a client that exits because of Shutdown has printed
\* what the shell wrote, in order and without a hole, up to the last chunk the
\* session's loop had taken, unless a timer or the network dropped a message
\* (session.go 141-153 and 436-465, client.go 381-399 and 474-492).  It need not
\* be everything the shell wrote: shellDone may be served before ptyDataCh.
\* The first conjunct is the type invariant.
ShutdownDeliversTaken ==
  /\ TypeOK
  /\ cpc = "exitShutdown" /\ ~cut => out = [i \in 1 .. Taken |-> i]

\* drainForShutdown (client.go 381-389, 494-509): a client to which Shutdown got
\* through goes on to reconnect only because it timed out, a write failed first or
\* another control message was in front, never because the error of the data
\* stream was served before the Shutdown.
ShutdownHeard ==
  [][cpc' = "exitNetwork" /\ cpc # "exitNetwork" /\ faults' = faults /\ ~cut' =>
       ~Holds(down["control"], "Shutdown")]_vars

\* When the shell is gone or the context cancelled the session ends, in whatever
\* order messages, errors and the client's exit come, and leaves no shell behind
\* (session.go 109-113, 196-207, 246-263).  Its writes return: FlowControl is
\* about those that block.
SessionEnds == shellDone \/ ctx ~> spc = "exited" /\ shell # "running"

\* A client never stays with a session that is gone.
ClientNotices == spc = "exited" ~> cpc \in CExits

\* Run goes on "until the shell exits, the context is cancelled, or a client
\* sends Shutdown" (session.go 86-88): a Shutdown that the network did not drop
\* ends the session.
LeaveEndsSession == bye ~> spc = "exited" \/ cut
=============================================================================

---------------------------- MODULE DualListener ----------------------------
(***************************************************************************)
(* The dual listener of internal/transport with its two accept loops, and  *)
(* the session that takes connections from it one Accept at a time and     *)
(* closes it when it exits.  A connection is followed from the kernel's or *)
(* QUIC's backlog until somebody closes it.                                *)
(***************************************************************************)
EXTENDS Integers, Sequences

CONSTANTS
  TcpConns, QuicConns,   \* connections that clients open, by transport
  Cap,                   \* capacity of connCh
  None                   \* no connection

ASSUME ListenerAssumption ==
  /\ TcpConns \cap QuicConns = {}
  /\ None \notin TcpConns \cup QuicConns /\ "err" \notin TcpConns \cup QuicConns
  /\ Cap \in Nat \ {0}

Conns == TcpConns \cup QuicConns

Loops == {"tcp", "quic"}

Of(t) == IF t = "tcp" THEN TcpConns ELSE QuicConns

VARIABLES
  status,      \* a connection's life on the session's host
  pc, cur,     \* where each accept loop is, and the connection it holds
  connCh,      \* authenticated connections
  acceptCh,    \* what the session's acceptLoop delivered; None: it waits in Accept
  sctx,        \* the session's context is cancelled
  stage,       \* the event loop, running or blocked, or how far Run's deferred Close is
  conn         \* s.conn

listenerVars == <<status, pc, cur, connCh, acceptCh, sctx, stage, conn>>

ListenerTypeOK ==
  /\ status \in [Conns -> {"new", "backlog", "open", "closed"}]
  /\ pc \in [Loops -> {"accept", "authenticate", "stalled", "offer", "exited"}]
  /\ cur \in [Loops -> Conns \cup {None}]
  /\ connCh \in Seq(Conns) /\ Len(connCh) <= Cap
  /\ acceptCh \in Conns \cup {None, "err"}
  /\ sctx \in BOOLEAN
  /\ stage \in {"loop", "blocked", "closeTcp", "closeQuic", "drain", "done"}
  /\ conn \in Conns \cup {None}

ListenerInit ==
  /\ status = [k \in Conns |-> "new"]
  /\ pc = [t \in Loops |-> "accept"]
  /\ cur = [t \in Loops |-> None]
  /\ connCh = <<>>
  /\ acceptCh = None
  /\ sctx = FALSE
  /\ stage = "loop"
  /\ conn = None

-----------------------------------------------------------------------------
\* dl.cancel() was called: the loops' context is done.
Cancelled == stage \notin {"loop", "blocked"}

\* The listener of transport t still accepts.
Listening(t) == ~ Cancelled \/ stage = "closeTcp" \/ (t = "quic" /\ stage = "closeQuic")

\* status once the connections in S are closed; closing twice does no harm.
Closing(S) == [k \in Conns |-> IF k \in S \ {None} THEN "closed" ELSE status[k]]

\* A client's connection completes its TLS handshake.
Arrive(t, k) ==
  /\ Listening(t)
  /\ status[k] = "new"
  /\ status' = [status EXCEPT ![k] = "backlog"]
  /\ UNCHANGED <<pc, cur, connCh, acceptCh, sctx, stage, conn>>

\* The transport listener's Accept gets a connection and authenticates it.
AcceptRaw(t, k) ==
  /\ pc[t] = "accept"
  /\ Listening(t)
  /\ status[k] = "backlog"
  /\ status' = [status EXCEPT ![k] = "open"]
  /\ pc' = [pc EXCEPT ![t] = "authenticate"]
  /\ cur' = [cur EXCEPT ![t] = k]
  /\ UNCHANGED <<connCh, acceptCh, sctx, stage, conn>>

\* Mutant: an Accept that fails is always retried.
AcceptRetries(t) ==
  /\ pc[t] = "accept"
  /\ Cancelled
  /\ UNCHANGED listenerVars

\* Accept fails because of the cancelled context; the loop returns.  A raw TCP
\* connection accepted meanwhile is closed with the backlog.
AcceptCancelled(t) ==
  /\ pc[t] = "accept"
  /\ Cancelled
  /\ pc' = [pc EXCEPT ![t] = "exited"]
  /\ UNCHANGED <<status, cur, connCh, acceptCh, sctx, stage, conn>>

\* A QUIC client whose token was verified stays connected and does not open its
\* data stream: the AcceptStream for it has no timeout of its own.
Stall(t) ==
  /\ t = "quic"
  /\ pc[t] = "authenticate"
  /\ status[cur[t]] = "open"
  /\ pc' = [pc EXCEPT ![t] = "stalled"]
  /\ UNCHANGED <<status, cur, connCh, acceptCh, sctx, stage, conn>>

\* authenticate is under way.
Authenticating(t) == pc[t] \in {"authenticate", "stalled"}

\* authenticate succeeds: token verified, SequenceHeader read.
AuthOK(t) ==
  /\ Authenticating(t)
  /\ status[cur[t]] = "open"
  /\ pc' = [pc EXCEPT ![t] = "offer"]
  /\ UNCHANGED <<status, cur, connCh, acceptCh, sctx, stage, conn>>

\* Mutant: Accept forgets to close a connection that failed to authenticate.
AuthFailOpen(t) ==
  /\ Authenticating(t)
  /\ pc' = [pc EXCEPT ![t] = IF Cancelled THEN "exited" ELSE "accept"]
  /\ cur' = [cur EXCEPT ![t] = None]
  /\ UNCHANGED <<status, connCh, acceptCh, sctx, stage, conn>>

\* Mutant: any error ends the loop.
AuthFailReturns(t) ==
  /\ Authenticating(t)
  /\ status' = Closing({cur[t]})
  /\ pc' = [pc EXCEPT ![t] = "exited"]
  /\ cur' = [cur EXCEPT ![t] = None]
  /\ UNCHANGED <<connCh, acceptCh, sctx, stage, conn>>

\* authenticate fails: bad token or message, lost client, deadline, closed
\* transport.  Accept closes the connection; the loop goes on unless cancelled.
AuthFail(t) ==
  /\ Authenticating(t)
  /\ status' = Closing({cur[t]})
  /\ pc' = [pc EXCEPT ![t] = IF Cancelled THEN "exited" ELSE "accept"]
  /\ cur' = [cur EXCEPT ![t] = None]
  /\ UNCHANGED <<connCh, acceptCh, sctx, stage, conn>>

\* The loop's select: there is room in connCh ...
OfferSend(t) ==
  /\ pc[t] = "offer"
  /\ Len(connCh) < Cap
  /\ connCh' = Append(connCh, cur[t])
  /\ pc' = [pc EXCEPT ![t] = "accept"]
  /\ cur' = [cur EXCEPT ![t] = None]
  /\ UNCHANGED <<status, acceptCh, sctx, stage, conn>>

\* ... or the context is done; with both ready, either case is taken.
OfferCancelled(t) ==
  /\ pc[t] = "offer"
  /\ Cancelled
  /\ status' = Closing({cur[t]})
  /\ pc' = [pc EXCEPT ![t] = "exited"]
  /\ cur' = [cur EXCEPT ![t] = None]
  /\ UNCHANGED <<connCh, acceptCh, sctx, stage, conn>>

Loop(t) ==
  \/ \E k \in Of(t) : AcceptRaw(t, k)
  \/ AcceptCancelled(t)
  \/ Stall(t)
  \/ AuthOK(t)
  \/ AuthFail(t)
  \/ OfferSend(t)
  \/ OfferCancelled(t)

-----------------------------------------------------------------------------
\* acceptLoop: Accept returns a queued connection ...
AcceptReturns ==
  /\ acceptCh = None
  /\ connCh # <<>>
  /\ acceptCh' = Head(connCh)
  /\ connCh' = Tail(connCh)
  /\ UNCHANGED <<status, pc, cur, sctx, stage, conn>>

\* ... or the session's context error.  The goroutine outlives Run.
AcceptFails ==
  /\ acceptCh = None
  /\ sctx
  /\ acceptCh' = "err"
  /\ UNCHANGED <<status, pc, cur, connCh, sctx, stage, conn>>

\* handleNewConn: the old connection is closed whatever becomes of the new one,
\* which a failed handshake closes as well.  Then acceptLoop is re-armed.
HandleNewConn ==
  /\ stage = "loop"
  /\ acceptCh \in Conns
  /\ acceptCh' = None
  /\ \/ conn' = acceptCh /\ status' = Closing({conn})
     \/ conn' = None /\ status' = Closing({conn, acceptCh})
  /\ UNCHANGED <<pc, cur, connCh, sctx, stage>>

\* A stream error, a heartbeat that cannot be sent or a silent client.
DropConn ==
  /\ stage = "loop"
  /\ conn # None
  /\ status' = Closing({conn})
  /\ conn' = None
  /\ UNCHANGED <<pc, cur, connCh, acceptCh, sctx, stage>>

\* The event loop blocks for good in a write to the PTY (TtyCycle of FlowControl).
LoopBlocks ==
  /\ stage = "loop"
  /\ conn # None
  /\ stage' = "blocked"
  /\ UNCHANGED <<status, pc, cur, connCh, acceptCh, sctx, conn>>

\* SIGTERM or SIGHUP.
CancelSession ==
  /\ ~ Cancelled
  /\ ~ sctx
  /\ sctx' = TRUE
  /\ UNCHANGED <<status, pc, cur, connCh, acceptCh, stage, conn>>

\* Run returns, for whatever reason: closeConn, then Close calls dl.cancel().
SessionExit ==
  /\ stage = "loop"
  /\ status' = Closing({conn})
  /\ conn' = None
  /\ stage' = "closeTcp"
  /\ UNCHANGED <<pc, cur, connCh, acceptCh, sctx>>

\* dl.tcp.Close: what was not accepted yet is reset by the kernel.
CloseTcp ==
  /\ stage = "closeTcp"
  /\ status' = Closing({k \in TcpConns : status[k] = "backlog"})
  /\ stage' = "closeQuic"
  /\ UNCHANGED <<pc, cur, connCh, acceptCh, sctx, conn>>

\* dl.quic.Close: closing the transport ends every connection on its socket.
CloseQuic ==
  /\ stage = "closeQuic"
  /\ status' = Closing({k \in QuicConns : status[k] # "new"})
  /\ stage' = "drain"
  /\ UNCHANGED <<pc, cur, connCh, acceptCh, sctx, conn>>

\* The drain loop of Close, until connCh is found empty.
Drain ==
  /\ stage = "drain"
  /\ IF connCh # <<>>
       THEN /\ status' = Closing({Head(connCh)})
            /\ connCh' = Tail(connCh)
            /\ UNCHANGED stage
       ELSE /\ stage' = "done"
            /\ UNCHANGED <<status, connCh>>
  /\ UNCHANGED <<pc, cur, acceptCh, sctx, conn>>

Close == CloseTcp \/ CloseQuic \/ Drain

-----------------------------------------------------------------------------
Exited == \A t \in Loops : pc[t] = "exited"

\* The program has ended, or its clients wait for an event loop that is blocked.
Stopped ==
  /\ (stage = "done" /\ Exited) \/ stage = "blocked"
  /\ UNCHANGED listenerVars

ListenerNext ==
  \/ \E t \in Loops : \E k \in Of(t) : Arrive(t, k)
  \/ \E t \in Loops : Loop(t)
  \/ AcceptReturns \/ AcceptFails
  \/ HandleNewConn \/ DropConn
  \/ LoopBlocks \/ CancelSession \/ SessionExit
  \/ Close
  \/ Stopped

\* Goroutines run.  authenticate ends: every wait in it has a timeout or deadline,
\* except the one for the data stream, which only the client or Close ends.  An
\* event loop that is not blocked takes what acceptLoop delivers, and returns once
\* its context is cancelled.  Clients and signals owe nothing.
ListenerFairness ==
  /\ \A t \in Loops : WF_listenerVars((pc[t] = "stalled" => Cancelled) /\ Loop(t))
  /\ WF_listenerVars(AcceptReturns)
  /\ WF_listenerVars(HandleNewConn)
  /\ WF_listenerVars(sctx /\ SessionExit)
  /\ WF_listenerVars(Close)

ListenerSpec == ListenerInit /\ [][ListenerNext]_listenerVars /\ ListenerFairness

-----------------------------------------------------------------------------
\* Who holds connection k: a loop, a place in connCh, acceptLoop's result, the
\* session.
Holders(k) ==
  {<<"loop", t>> : t \in {u \in Loops : cur[u] = k}}
    \cup {<<"connCh", i>> : i \in {j \in DOMAIN connCh : connCh[j] = k}}
    \cup (IF acceptCh = k THEN {<<"acceptCh", 0>>} ELSE {})
    \cup (IF conn = k THEN {<<"session", 0>>} ELSE {})

\* Until the session exits, an open connection has exactly one holder, and a
\* closed one none: nothing is leaked when authentication fails or a client
\* reconnects, and nothing dead is handed to the session
\* (tcp_listener.go:68-72, dual_listener.go:75-80, session.go:353).
\* The first conjunct is the type invariant.
OneHolder ==
  /\ ListenerTypeOK
  /\ ~ Cancelled =>
       \A k \in Conns :
         /\ status[k] = "open" => \E h \in Holders(k) : Holders(k) = {h}
         /\ status[k] # "open" => Holders(k) = {}

\* Whoever connects reaches the session or is closed, whatever clients before it
\* on either transport failed to authenticate and however full connCh was,
\* unless the event loop has ended or is blocked (dual_listener.go:62-100).  A QUIC
\* client that withholds its data stream holds up other QUIC clients
\* (session_listener.go:139), but nobody who comes over TCP.
Served ==
  \A k \in Conns :
    (status[k] = "backlog") ~>
      \/ conn = k \/ status[k] = "closed"
      \/ stage # "loop"
      \/ k \in QuicConns /\ pc["quic"] = "stalled"

\* Once Close is called both accept loops return, wherever they were, also from a
\* wait without a timeout (dual_listener.go:65-68, 75-80, session_listener.go:139).
LoopsExit == Cancelled ~> Exited
=============================================================================

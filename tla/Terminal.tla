------------------------------ MODULE Terminal ------------------------------
(***************************************************************************)
(* The terminal across reconnections: raw mode, TERM, and the size of the  *)
(* window, which reaches the PTY as Resize messages: one at the start of   *)
(* every connection and one for every SIGWINCH.  The session shrinks the   *)
(* PTY by a row on every (re)connection ("bounce"), so that the Resize     *)
(* that follows makes full-screen programs redraw.                         *)
(*                                                                         *)
(* Columns behave as rows do and are left out.  TERM is its length and     *)
(* whether its characters are acceptable; lengths keep their 16 bits.      *)
(***************************************************************************)
EXTENDS Integers, Sequences

CONSTANTS
  Rows,        \* the numbers of rows a window may have
  SpawnRows,   \* the rows of a new PTY (24)
  TermLens,    \* the lengths of TERM to look at
  MaxChanges,  \* bound: changes of the window
  MaxLosses    \* bound: connections lost

MaxUint16 == 65535

ASSUME TerminalAssumption ==
  /\ Rows \subseteq 0 .. MaxUint16
  /\ SpawnRows \in 1 .. MaxUint16
  /\ TermLens \subseteq Nat
  /\ MaxChanges \in Nat /\ MaxLosses \in Nat

VARIABLES
  isTty,      \* stdin is a terminal
  term,       \* the client's TERM
  win,        \* rows of the user's window
  raw,        \* the user's terminal is in raw mode
  client,     \* where the client's Run is
  notified,   \* a SIGWINCH waits in sigwinchCh
  info,       \* the TerminalInfo under way: a set of at most one payload
  resizes,    \* the Resize messages under way
  session,    \* the session: "none", "info" or "serve" for its connection, "failed"
              \* or "panicked" when it is gone
  pty,        \* rows of the PTY; 0 rows are possible, spawned tells it exists
  spawned,
  shellTerm,  \* TERM of the shell
  last,       \* history: the rows of the last Resize applied
  fresh,      \* history: no Resize applied yet on this connection
  gap,        \* history: the window changed with nobody to see the SIGWINCH
  changes, losses

terminalVars ==
  <<isTty, term, win, raw, client, notified, info, resizes, session, pty, spawned, shellTerm,
    last, fresh, gap, changes, losses>>

Terms == [len : TermLens, clean : BOOLEAN]

NoTerm == [len |-> 0, clean |-> TRUE]

\* "xterm-256color".
Fallback == [len |-> 14, clean |-> TRUE]

\* Every variable keeps its type; in particular the size of the PTY is one that
\* 16 bits can hold, however often it is bounced.
TerminalTypeOK ==
  /\ isTty \in BOOLEAN /\ term \in Terms
  /\ win \in Rows
  /\ raw \in BOOLEAN
  /\ client \in {"dial", "info", "raw", "resize", "notify", "loop", "exited"}
  /\ notified \in BOOLEAN
  /\ info \subseteq [n : 0 .. MaxUint16, term : Terms]
  /\ resizes \in Seq(Rows)
  /\ session \in {"none", "info", "serve", "failed", "panicked"}
  /\ pty \in 0 .. MaxUint16
  /\ spawned \in BOOLEAN
  /\ shellTerm \in Terms \cup {NoTerm, Fallback}
  /\ last \in Rows \cup {SpawnRows}
  /\ fresh \in BOOLEAN /\ gap \in BOOLEAN
  /\ changes \in 0 .. MaxChanges /\ losses \in 0 .. MaxLosses

TerminalInit ==
  /\ isTty \in BOOLEAN /\ term \in Terms /\ win \in Rows
  /\ raw = FALSE /\ client = "dial" /\ notified = FALSE
  /\ info = {} /\ resizes = <<>>
  /\ session = "none" /\ pty = 0 /\ spawned = FALSE /\ shellTerm = NoTerm
  /\ last = SpawnRows /\ fresh = TRUE /\ gap = FALSE
  /\ changes = 0 /\ losses = 0

-----------------------------------------------------------------------------
(* The encoding of TerminalInfo, and what becomes of TERM.                 *)

\* WriteMessage refuses a longer string; otherwise its length is sent in 16 bits.
EncodeTerminalInfo(t) ==
  IF t.len > MaxUint16 THEN {} ELSE {[n |-> t.len, term |-> t]}

\* DecodePayload slices payload[2 : 2+termLen], in 16 bits: the slice panics when
\* its end is before its start.  A payload from EncodeTerminalInfo is never short.
DecodeTerminalInfo(p) ==
  IF (2 + p.n) % (MaxUint16 + 1) < 2 THEN {} ELSE {p.term}

\* sanitizeTerm.
SanitizeTerm(t) ==
  IF t.len = 0 \/ t.len > 128 \/ ~t.clean THEN Fallback ELSE t

-----------------------------------------------------------------------------
(* The user and the network.                                               *)

\* The window changes size; the client hears of it once it has asked to.
WindowChange ==
  /\ changes < MaxChanges /\ client # "exited"
  /\ changes' = changes + 1
  /\ win' \in Rows \ {win}
  /\ notified' = (notified \/ (client = "loop" /\ isTty))
  /\ gap' = (gap \/ client = "notify")
  /\ UNCHANGED <<isTty, term, raw, client, info, resizes, session, pty, spawned, shellTerm,
                 last, fresh, losses>>

\* Mutant: the terminal is restored only when Run returns.
LostStaysRaw ==
  /\ client \in {"info", "raw", "resize", "notify", "loop"}
  /\ losses < MaxLosses
  /\ losses' = losses + 1
  /\ client' = "dial"
  /\ notified' = FALSE
  /\ resizes' = <<>> /\ info' = {}
  /\ UNCHANGED <<isTty, term, win, raw, session, pty, spawned, shellTerm, last, fresh, gap,
                 changes>>

\* The client has a connection.
Connected == client \in {"info", "raw", "resize", "notify", "loop"}

\* The client finds its connection lost, by the network or because the session
\* has closed it: the handshake or ioLoop fails, the terminal is restored, and
\* the client dials again.  What was sent arrives up to some point.
Lost ==
  /\ Connected
  /\ \/ session \in {"none", "failed", "panicked"} /\ losses' = losses
     \/ losses < MaxLosses /\ losses' = losses + 1
  /\ client' = "dial"
  /\ raw' = FALSE /\ notified' = FALSE
  /\ \E n \in 0 .. Len(resizes) : resizes' = SubSeq(resizes, 1, n)
  /\ info' = info \/ (info' = {} /\ resizes' = <<>>)
  /\ UNCHANGED <<isTty, term, win, session, pty, spawned, shellTerm, last, fresh, gap,
                 changes>>

-----------------------------------------------------------------------------
(* The client.                                                             *)

\* A new connection; accepting it, the session closes the one before.
Dial ==
  /\ client = "dial" /\ session \notin {"failed", "panicked"}
  /\ client' = "info"
  /\ info' = {} /\ resizes' = <<>>
  /\ session' = "info"
  /\ fresh' = TRUE
  /\ UNCHANGED <<isTty, term, win, raw, notified, pty, spawned, shellTerm, last, gap,
                 changes, losses>>

\* sendTerminalInfo; on failure the client closes the connection and tries again.
SendTerminalInfo ==
  /\ client = "info"
  /\ info' = EncodeTerminalInfo(term)
  /\ client' = IF info' = {} THEN "dial" ELSE "raw"
  /\ UNCHANGED <<isTty, term, win, raw, notified, resizes, session, pty, spawned, shellTerm,
                 last, fresh, gap, changes, losses>>

\* MakeRaw, on a terminal; when it fails, Run returns the error.
MakeRaw ==
  /\ client = "raw"
  /\ \/ raw' = isTty /\ client' = "resize"
     \/ isTty /\ raw' = FALSE /\ client' = "exited"
  /\ UNCHANGED <<isTty, term, win, notified, info, resizes, session, pty, spawned, shellTerm,
                 last, fresh, gap, changes, losses>>

\* Mutant: a SIGWINCH read without sending the size.
SendResizeOnce ==
  /\ resizes' = IF isTty /\ client = "resize" THEN Append(resizes, win) ELSE resizes
  /\ gap' = FALSE

\* sendResize: the size of the window at this moment.
SendResize ==
  /\ resizes' = IF isTty THEN Append(resizes, win) ELSE resizes
  /\ gap' = FALSE

\* The Resize of a new connection.
FirstResize ==
  /\ client = "resize"
  /\ SendResize
  /\ client' = "notify"
  /\ UNCHANGED <<isTty, term, win, raw, notified, info, session, pty, spawned, shellTerm,
                 last, fresh, changes, losses>>

\* ioLoop starts with signal.Notify.
Notify ==
  /\ client = "notify"
  /\ client' = "loop"
  /\ UNCHANGED <<isTty, term, win, raw, notified, info, resizes, session, pty, spawned,
                 shellTerm, last, fresh, gap, changes, losses>>

\* The sigwinchCh case.
Sigwinch ==
  /\ client = "loop" /\ notified
  /\ notified' = FALSE
  /\ SendResize
  /\ UNCHANGED <<isTty, term, win, raw, client, info, session, pty, spawned, shellTerm, last,
                 fresh, changes, losses>>

\* ioLoop returns for good, or the user cancels between two connections:
\* restoreTerminal, and Run returns.
ClientExits ==
  /\ client \in {"dial", "loop"}
  /\ client' = "exited"
  /\ raw' = FALSE /\ notified' = FALSE
  /\ UNCHANGED <<isTty, term, win, info, resizes, session, pty, spawned, shellTerm, last,
                 fresh, gap, changes, losses>>

-----------------------------------------------------------------------------
(* The session.                                                            *)

\* Mutant: the guard keeps two rows.
BouncedAboveTwo(rows) == IF rows <= 2 THEN rows ELSE (rows - 1) % (MaxUint16 + 1)

\* bouncePTYSize.
Bounced(rows) == IF rows <= 1 THEN rows ELSE (rows - 1) % (MaxUint16 + 1)

\* The session's end of the connection fails: the client has left it, or the
\* network has.
Broken ==
  \/ ~Connected /\ losses' = losses
  \/ losses < MaxLosses /\ losses' = losses + 1

\* Mutant: the readers are started together with the shell, once.
ReadInfoReadersOnce ==
  /\ session = "info"
  /\ \E p \in info : \E t \in DecodeTerminalInfo(p) :
       /\ shellTerm' = IF spawned THEN shellTerm ELSE SanitizeTerm(t)
       /\ LET rows == IF spawned THEN pty ELSE SpawnRows IN
          \/ /\ session' = (IF spawned THEN "info" ELSE "serve")
             /\ pty' = Bounced(rows) /\ losses' = losses
          \/ Broken /\ session' = "none" /\ pty' = rows
  /\ spawned' = TRUE /\ info' = {}
  /\ UNCHANGED <<isTty, term, win, raw, client, notified, resizes, last, fresh, gap, changes>>

\* handleNewConn, once TerminalInfo arrives: spawn the shell the first time,
\* bounce the PTY, start the readers.  Writing the replay may fail, which
\* closes the connection before the bounce.
ReadInfo ==
  /\ session = "info"
  /\ \E p \in info : \E t \in DecodeTerminalInfo(p) :
       /\ shellTerm' = IF spawned THEN shellTerm ELSE SanitizeTerm(t)
       /\ LET rows == IF spawned THEN pty ELSE SpawnRows IN
          \/ session' = "serve" /\ pty' = Bounced(rows) /\ losses' = losses
          \/ Broken /\ session' = "none" /\ pty' = rows
  /\ spawned' = TRUE /\ info' = {}
  /\ UNCHANGED <<isTty, term, win, raw, client, notified, resizes, last, fresh, gap, changes>>

\* The session is gone for good: the shell does not start and Run returns the
\* error, or the decoder panics and Run recovers and returns.
SessionDies ==
  /\ session = "info"
  /\ \E p \in info :
       \/ DecodeTerminalInfo(p) # {} /\ ~spawned /\ session' = "failed"
       \/ DecodeTerminalInfo(p) = {} /\ session' = "panicked"
  /\ info' = {} /\ resizes' = <<>>
  /\ UNCHANGED <<isTty, term, win, raw, client, notified, pty, spawned, shellTerm, last,
                 fresh, gap, changes, losses>>

\* The handshake ends without TerminalInfo, or a stream fails: closeConn.
SessionCloses ==
  /\ session \in {"info", "serve"}
  /\ Broken
  /\ session' = "none" /\ info' = {} /\ resizes' = <<>>
  /\ UNCHANGED <<isTty, term, win, raw, client, notified, pty, spawned, shellTerm, last,
                 fresh, gap, changes>>

\* handleStreamEvent, Resize: resizePTY.  The programs on the PTY get SIGWINCH
\* if this changes its size.
Resize ==
  /\ session = "serve" /\ resizes # <<>>
  /\ pty' = Head(resizes) /\ last' = Head(resizes)
  /\ fresh' = FALSE
  /\ resizes' = Tail(resizes)
  /\ UNCHANGED <<isTty, term, win, raw, client, notified, info, session, spawned, shellTerm, gap,
                 changes, losses>>

-----------------------------------------------------------------------------

ClientStep == Dial \/ SendTerminalInfo \/ MakeRaw \/ FirstResize \/ Notify \/ Sigwinch
SessionStep == ReadInfo \/ SessionDies \/ SessionCloses \/ Resize

TerminalNext == WindowChange \/ Lost \/ ClientExits \/ ClientStep \/ SessionStep

TerminalSpec == TerminalInit /\ [][TerminalNext]_terminalVars

\* Both processes keep running, and the client's reads fail once the session has
\* closed the connection.  The user and the network owe nothing.
TerminalFairSpec ==
  /\ TerminalSpec
  /\ WF_terminalVars(ClientStep) /\ WF_terminalVars(SessionStep)
  /\ WF_terminalVars(Lost /\ session \in {"none", "failed", "panicked"})

-----------------------------------------------------------------------------
(* Properties.                                                             *)

Joined == client = "loop" /\ session = "serve"
Quiet == ~notified /\ resizes = <<>>

\* A connected client with nothing under way shows the PTY at the size of its
\* window, unless the window changed after the connection's first Resize was
\* sent (client.go:203) and before ioLoop asked for SIGWINCH (client.go:315).
\* The first conjunct is the type invariant.
SizeCurrent ==
  /\ TerminalTypeOK
  /\ Joined /\ Quiet /\ isTty => pty = win \/ gap

\* The promise of bouncePTYSize, where it holds: a window of more than one row
\* that has the size it had at the last Resize makes the first Resize of every
\* new connection a genuine change of size, however many connections, each with
\* its bounce, failed before a Resize got through.
UnchangedWindowRedraws ==
  [][ Resize /\ fresh /\ pty' = last /\ pty' > 1 => pty' # pty ]_terminalVars

\* The terminal is raw only while the client is connected: every way out of the
\* connection restores it (client.go:192-213).
RawOnlyConnected == raw => isTty /\ client \in {"resize", "notify", "loop"}

\* A client that stays connected gets the size of its window, as it was when it
\* connected or later, to the PTY; it never waits on a session that dropped it.
\* Every change it is told of makes the PTY the size of the window again, a change
\* it missed before included (client.go:203, 315, 401).
SizeArrives ==
  /\ client = "notify" /\ isTty ~> (Joined /\ Quiet) \/ ~Connected
  /\ notified ~> (Joined /\ Quiet /\ pty = win) \/ ~Connected
=============================================================================

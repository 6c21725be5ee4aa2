# A TLA+ model of goet

goet is a remote terminal that survives network changes. A **client** relays
the user's terminal to a **session**, which owns a shell on a PTY, over QUIC
(separate control and data streams) or TCP+TLS (one stream). Both sides number
the Data messages they send, keep the newest of them in a catchup buffer and,
when a connection is replaced, tell each other the last number received so
that the sender can replay the rest. The client starts the session through ssh
and, with `--install`, puts the binary there first.

This directory models that protocol and its parts, checks them with TLC on
small instances, and proves the main properties with TLAPS for all values of
the constants. Line numbers refer to the files under `src/`.

## Inventory

| Part | State | Hard behaviour | Modelled by |
|---|---|---|---|
| client run loop (`client.go`) | phase of Run, connection, sendSeq, recvSeq, buffer, coalescer | timeout on a live connection, exit in every phase, late Shutdown | `Client`, `ClientInput`, `FlowControl`, `Termination`, `Terminal` |
| session event loop (`session.go`) | s.conn, sendSeq, recvSeq, buffer, coalescer, PTY, readers | events of a replaced connection, a handshake that blocks the loop, the shell's exit | `Session`, `FlowControl`, `Termination`, `Terminal` |
| catchup buffer (`buffer.go`) | ring, head, count, size | wraparound, several evictions per Store, oversized payloads | `CatchupBuffer` |
| coalescer (`coalesce.go`) | buffer, armed, timer | deadline under load | `Coalescer` |
| escape processor (`escape.go`) | state | sequences cut over reads, held keys | `EscapeProcessor` |
| dual listener (`dual_listener.go`, `tcp_listener.go`, `session_listener.go`) | two loops, connCh | failing and stalling clients, full channel, Close against a running loop | `DualListener` |
| dialers (`client_dialer.go`, `tcp_dialer.go`) | none | partial handshakes | outcome of `Dial` in `Client` |
| connections (`streams.go`, `tcp.go`) | streams, demux channels | serial handshake on TCP, head-of-line blocking | `Connections`, `FlowControl`, `Termination` |
| wire protocol (`messages.go`) | none | 16-bit lengths | types in `Connections`, TerminalInfo in `Terminal` |
| PTY (`pty.go`) | size, shell | bounce, full buffers, output after the exit | `Terminal`, `FlowControl`, `Termination` |
| authentication (`auth.go`, `tls.go`) | none | cryptography | an outcome in `DualListener` |
| SSH bootstrap, install (`ssh.go`, `install.go`, `main.go`) | child process, remote files, sessions | partial failure, timeouts, stale versions | `Bootstrap` |
| profiling, flags | none | none | not modelled |

The hazards each part is exposed to, with their lines and the properties that
cover them, are listed in `PROJECT.json`.

## Modules

Reconnection, where the numbers are:

| Module | Models |
|---|---|
| `CatchupOps`, `CatchupLog` | what a catchup buffer promises: an interval of numbers, and the replay of its end |
| `CatchupBuffer` | the ring of `buffer.go`, shown to implement `CatchupLog` |
| `Connections` | connections with four queues, the accept queue, failures |
| `Client` | `Client.Run` and `ioLoop`: one action per step and select case; a restart of the process |
| `Session` | `Session.Run`, `handleNewConn` (split where it waits for TerminalInfo), `handleStreamEvent` |
| `Reconnect` | the composition of `Client` and `Session`; the properties |
| `CatchupStream` | abstract specification of one direction |
| `ReconnectInvariants` | the inductive invariant |

The other questions, each with the state it needs:

| Module | Models |
|---|---|
| `EscapeProcessor`, `Coalescer`, `ClientInput` | `escape.go` with a reference definition over the whole input, `coalesce.go` with a clock, and the two in series in ioLoop, across reconnections and exits |
| `DualListener` | accept loops, `connCh`, the session's `acceptLoop`, `Close` |
| `FlowControl` | one connection with every buffer bounded: who waits for whom |
| `Termination` | the end of a session: shell exit, cancellation, a leaving client; `gracefulShutdown`, `drainForShutdown`, `drainRemainingData`, `cleanupShell` |
| `Terminal` | raw mode, TERM, window size and the bounce over reconnections |
| `Bootstrap` | `SpawnSSH`, the installation and `runSession`, run after run on one host |

Proofs:

| Module | Proves about |
|---|---|
| `ReconnectTypes`, `ReconnectProofs` | `Reconnect`: types, connections, session to client |
| `UpStreams`, `UpProofs` | `Reconnect`: client to session, and the refinement of both directions |
| `TerminationProofs` | `Termination` |
| `InputProofs` | `ClientInput` with `Coalescer` and `EscapeProcessor` |
| `BufferProofs` | `CatchupBuffer` and `Terminal` |
| `TransportProofs` | `Bootstrap`, `DualListener` and `FlowControl` |

`MC*` are the instances for TLC.

How state corresponds to the code:

- A message is a number (plus, from the client, which client process issued
  it). Payload bytes matter only in `CatchupBuffer`, as a length, and in
  `EscapeProcessor`, as classes of keys. In `FlowControl` Data has no number, so
  that the user may type for ever.
- A queue of `Connections` stands for socket, reader goroutine and channel,
  which are all FIFO. A connection that is not `alive` takes no messages; its
  reader sees any prefix of what is queued and then the error. The two streams
  of a connection are not ordered against each other: QUIC streams are
  independent and the TCP demux feeds two channels. What TCP orders before the
  demux starts is kept: `TerminalInfo` records how many Data messages precede
  it, and a session that waits for it meets those first (`GotReplayedData`).
- `cOldest..cSendSeq` and `sOldest..sSendSeq` are the contents of the two
  catchup buffers; that an interval is all there is to know is what
  `CatchupBuffer` shows.
- Connection identities are reused once nothing refers to them, so the number
  of reconnections is not bounded by the number of identities.
- A timeout (`recvTimeout`, the five seconds for TerminalInfo, `sshTimeout`) may
  fire at any time; each one counts as a fault.
- In `Coalescer` time advances in ticks and an expired timer is taken before
  the next tick, which is an idle event loop. `go.mod` asks for a Go version
  whose stopped or reset timers deliver nothing.
- In `DualListener` authentication is an outcome. Every wait in it has a timeout
  or deadline except the one for the QUIC data stream (`session_listener.go:139`):
  `Stall` leaves the loop there for as long as the client, which stays connected,
  pleases. `LoopBlocks` is the event loop caught in one of the circular waits of
  `FlowControl`: it takes no more connections and no signal.
- In `FlowControl` an event loop that writes is in a state of its own until the
  write returns. A channel stands for all the buffering between a stream and
  the loop; one TCP stream carries both kinds of message, so what is in front
  holds up what is behind it. The client's write to stdout is a state of its own,
  too. The client may be gone at any moment (`ClientLost`: it died, left, or the
  network broke); nobody tells the session, whose writes fill the stream until
  the transport or a timeout ends the connection (`SessionDrops`). In the
  reconnection models, by contrast, streams are unbounded.
- In `Termination` the connection is past its handshake, writes do not block,
  and a message carries the numbers of the chunks it was made of. `cut` records
  that a close, a failure or a timer dropped a message.
- In `Terminal` columns behave as rows do and are left out; TERM is its length
  and whether its characters are acceptable. `last`, `fresh` and `gap` are
  history.
- In `Bootstrap` a binary is its version, a host the facts the code asks it for;
  the passkey is the number of the run. ssh's end reaches the session's streams
  at a moment of its own.

## Runs

| Run | Checks | Bounds | Distinct states |
|---|---|---|---|
| `reconnect_quic` | order and completeness of both directions, ShutdownIsReal, refinement of `CatchupStream` in both directions | 2 identities, 2 faults, 2 messages each way, 2 slots | 1.0 M |
| `reconnect_tcp` | the inductive invariant, on the TCP handshake and with a client killed and replaced | 2 client processes, 1 fault, 2 messages, 1 slot, 1 heartbeat | 2.8 M |
| `reconnect_live` | everything numbered arrives, over QUIC | 2 faults, 1 message, 1 slot | 69 k |
| `catchup_buffer` | contents, replay, byte accounting, no needless eviction, refinement of `CatchupLog` | 4 slots, limit 6, lengths 1 2 3 7, 11 stores | 408 |
| `client_input` | keys passed on and disconnection against the reference; deadline met; escapeBuf never overrun | delay 2, threshold 3, 6 keys a connection, reads of up to 3 | 56 k |
| `dual_listener` | one holder per connection, everybody served but QUIC clients behind a stalled one, loops end | 2 TCP and 2 QUIC connections, capacity 1 | 37 k |
| `flow_control` | a client is refused only for a replay that does not fit and joined otherwise; a lost one is let go of; loops and shell stop only in the two circular waits | every buffer 1, replay up to 2, both transports | 79 k |
| `termination` | last output before Shutdown, Shutdown not missed, session ends, client notices | 2 chunks, 1 heartbeat, 1 fault, both transports | 379 k |
| `terminal` | size current and arriving, redraw after reconnection, raw mode only while connected | 0 to 3 rows, TERM lengths around 0, 128 and 2^16, 2 changes, 2 losses | 312 k |
| `bootstrap` | the client has its session, an installation runs what it installed, failures have a cause, nothing left behind | 3 runs of goet, every host | 1.1 M |
| `tcp_livelock`, `session_outlives_client` | violated, see Disagreements | as the runs they differ from | |

A type invariant is checked in every run; where a run does not name it, it is
the first conjunct of one of its invariants (`Accounted`, `OneHolder`,
`DeadlineMet`, `EmitsExactly`, `ShutdownDeliversTaken`, `SizeCurrent`,
`ClientHasSession`, `RefusedOnlyIf`).

Why the bounds are enough for the cases that matter: two identities let a
connection be replaced while events of the old one are queued; two faults let
the replacement fail as well; two messages with one or two slots give replay
with and without eviction and data behind data; a coalescer threshold of two
leaves a chunk pending when a connection is replaced. Six keys in reads of up to
three give every escape sequence cut at every place with keys before and after,
and several batches on one connection. In the ring, eleven stores in four slots
wrap around twice, length 3 evicts several small entries at once and 7 exceeds
the limit alone. A channel of capacity 1 is full as soon as two clients wait.
In `FlowControl` a buffer of one message blocks as soon as a second one comes,
and a replay of 2 is the first that does not fit a stream of 1. In
`Termination` two chunks can be in two different places (PTY, readPTY,
ptyDataCh, coalescer, network) when the shell exits, and a heartbeat can be in
front of the Shutdown. In `Terminal` two losses let a connection with its bounce
fail before its Resize; 0 and 1 rows are what the guard of `bouncePTYSize` is
about. In `Bootstrap` a second run meets what a broken first one left, a third
what the second made of it. Symmetry is used on connection identities in runs
that check safety only, and no property names an identity.

Deadlock is checked where the system is to run on: in the reconnection,
buffer, input and listener models, which say with a stuttering step that a
program has ended or a bound is reached. It is not checked in `FlowControl`,
whose subject is how far the system can block (the two circular waits end a
behaviour, and `LoopsReturn` says that nothing else does), nor in `Termination`,
`Terminal` and `Bootstrap`, where a behaviour really ends with the programs.

### What the runs say of the waits

`FlowControl` names two circular waits, and shows that there is no other.
`TtyCycle`: the session's loop writes to a PTY full of input, the shell is
blocked on a PTY full of output, readPTY on a full `ptyDataCh` that only this
loop empties. `NetCycle`: both loops write to a full stream while their channels
are full. Neither write has a deadline (`session.go:323`, `client.go:347`).
A write to a client that is gone is not among them: it ends when the transport
gives up, although the session writes its heartbeat before it looks at
`recvTimeout` (third part of `LoopsReturn`). `RefusedOnlyIf` and `FitsJoins` are
what the handshake promises: a replay that can be written before anybody reads
it (nothing at all over TCP, the stream's window over QUIC) joins, and no other
client that can be reached is refused.

### Disagreements

Two runs state what a document or comment says and are violated:

- `tcp_livelock`: over TCP the client resends Data before TerminalInfo, the
  session takes the Data for a protocol error and closes, and every retry does
  the same. `architecture.md:128-129` shows the other order. Over QUIC the same
  property holds (`reconnect_live`), whose streams are unbounded.
- `session_outlives_client`: a leaving client sends Shutdown and closes at once;
  a session that has already given up the connection, after a failed write or
  the data stream's error, drops the event as stale (`session.go:304`) and lives
  on. `session.go:86-88` says that Run ends when a client sends Shutdown.

Others are built into the properties as the exceptions they name, or were seen
while reading:

- The same order is a deadlock over QUIC once the replay exceeds the data stream's
  window: the client blocks in its replay, the session waits for the TerminalInfo
  behind it (`client.go:262-271`, `session.go:374-389`), the deadline closes the
  connection, and every retry does the same. `architecture.md:128-130` has
  TerminalInfo first and line 161 says that catchup is symmetric. The client's
  buffer is set with `--replay-size`; in `FlowControl` this is the case of a
  replay that does not fit (`SessionInfoDeadline`).
- `session_listener.go:90` and 144 say that timeouts keep a misbehaving client
  from blocking the accept path; line 139, between them, waits for the data stream
  without one. An authenticated client that does not open it holds up all other
  QUIC clients, the exception in `Served`. goet's own client opens it at once.
- `messages.go:90` accepts a TERM of up to 65535 bytes, and the comment at
  `messages_test.go:413` takes every such length to round-trip; `messages.go:225`
  adds 2 in 16 bits, so that 65534 and 65535 panic, which ends the session
  (`SessionDies` in `Terminal`).
- A window change between the first Resize and `signal.Notify` (`client.go:203`,
  315) is not told to the session until the next change or connection: `gap` in
  `SizeCurrent`; the second part of `SizeArrives` says that the next change makes
  it good.
- A client that gives up after `sshTimeout` leaves a session behind that was just
  printing its port (`ssh.go:194`), one of the cases `NothingLeft` names.
- `session.go:325` promises that a message the PTY refused is resent; the next
  message moves recvSeq past it (`ptyLost` in `Settled`).
- A second client process numbers from 1 while the session still announces the
  first one's number (`architecture.md:161`): completeness towards the session
  is stated for the first process only.
- On cancellation the failed Accept can win the select and the session leaves
  without Shutdown (`architecture.md:148-149`). `ClientNotices` shows that the
  client still learns of it.
- A ~ held by the escape processor is lost on reconnect whatever its age
  (`SCRATCHPAD.md:143` says at most 2 ms of keys).
- The bounce guarantees a change of size (`architecture.md:160`) only for
  windows of more than one row (`UnchangedWindowRedraws`).
- `README.md:65` says that the absolute path is used if `~/.local/bin` is not in
  PATH; an up-to-date binary there is still started as `goet` (`ssh.go:79`), the
  last case of `FailsOnlyIf`.
- `main.go:234` says that a nil LogWriter falls back to stderr; a nil `*os.File`
  in the interface is not nil, so nothing is logged. `ClientHasSession` holds
  because of it: a session that logs to ssh's stderr would die with ssh.
- `architecture.md:117,161` speak of 64 MB buffers; `buffer.go:5` and
  `main.go:100` have 4 KB, less than one full coalesced batch of 32 KB.
- An accept loop may queue a connection after Close has drained the channel
  (`dual_listener.go:92` against the comment at 123); the process ends right
  afterwards, so no property is stated about it.

### Fairness

Only what the runtime provides: goroutines run, a blocked write or send returns
once there is room, timers fire, a read of a dead connection fails eventually,
and Go's select picks among ready cases at random. For a case that stays ready
that is weak fairness; in `FlowControl`, where a case may be ready, not ready
and ready again while other cases are served, it is strong fairness on the cases
of the two selects. Of the shell `FlowControl` assumes that it gets round to
reading its input, and of the client's terminal that it takes what is written to
it: a terminal that is stopped for ever, or a client process that is, keeps the
session in a write for as long. Nothing is assumed of the user, the network,
signals or receive timeouts. Faults are bounded in the other models, so "once
failures stop" is part of their progress properties. In `DualListener`
authentication ends where it has deadlines; leaving `Stall` is up to the client
until Close cancels the context, and an event loop that is not blocked takes what
acceptLoop delivers. In `Termination` every behaviour is
finite, so weak fairness of each process as a whole is enough. In `Terminal` the
client's reads fail once the session has closed the connection.

## Proofs

For any number of connections, faults, messages and client processes, any
number of slots, and both transports:

- **`TypeCorrect`** (`ReconnectTypes`): `Spec => []TypeOK`.
- **`DownInvariant`**, **`StdoutOrdered`**, **`StdoutAcknowledged`**,
  **`NothingLostDown`** (`ReconnectProofs`): the direction from session to
  client. None of the three properties is inductive. The invariant adds: at
  most the client's connection is alive (`AliveInv`); connections in the accept
  queue are distinct and untouched, and the number a dial announced is what the
  client has until the session replays (`QueueInv`, `HandshakeInv`); every data
  stream is a run of consecutive numbers (`DownRuns`) that continues stdout or
  starts at the oldest number kept, and reaches the newest while the connection
  lives (`DownContinues`); recvSeq is the last number on stdout
  (`RecvIsLastOut`). The part about connections (`ConnInv`) is preserved by the
  lemmas `AliveStep`, `ConnClientStep` and `ConnSessionStep`. There is one lemma
  for the client's steps and one for the session's, with a case per action.
- **`DownRefines`** (`UpProofs`): `Spec => DownStream`. A step either
  writes a run to stdout that continues it (`ClientDelivers`, a Deliver of
  `CatchupStream`), numbers a batch (Send), replaces the client (Restart) or
  changes none of the variables the mapping reads.
- **`PtyInputOrdered`**, **`PtyInputAcknowledged`**, **`NothingLostUp`**
  (`UpProofs`): the direction from client to session, stale events and
  restarts of the client included. The invariant says of every stream that it
  is a run of one process's numbers (`UpRuns`), of the one the session reads
  that it comes after all that is on the PTY (`UpContinues`) and that nothing
  before it is unsettled (`UpCovers`), and of the client's own that it ends with
  the newest number (`UpEnds`). Streams change in four ways (left alone or
  dropped, extended, replayed, read), and `UpStreams` has a lemma for each.
- **`UpRefines`** (`UpProofs`): `Spec => UpStream` if there is one client
  process. A write the PTY refuses is a Refuse of `CatchupStream`.
- **`ShutdownAnnounced`**, **`InductiveInvariant`** (`UpProofs`): the client
  exits on Shutdown only if the session is leaving; the whole of `IInv`.
- **`RingContents`**, **`RingImplements`**, **`RingAccounted`**,
  **`RingEvictsNoMore`**, **`RingReplays`** (`BufferProofs`): for every capacity,
  limit and sequence of payloads the ring holds the newest numbers in order,
  implements `CatchupLog`, keeps its byte count and its released slots right,
  evicts no more than it must and replays exactly what a peer misses.
  `RingInv` says what is in which slot; the work is in the modular arithmetic
  (`ModSmall`, `SlotLinear`), in `StoreMoves`, which says how one Store with
  any number of evictions shifts the slots, and in `BytesMoved`, which does so
  for the sum.
- **`InputDeadline`**, **`InputExact`**, **`EscapeExact`**, **`EscapeFits`**
  (`InputProofs`): for every delay, threshold, size of a read, and however the
  input is cut. The deadline needs that the timer has no more left than the
  oldest byte may wait (`CoalInv`). The escape processor needs that its state is
  a function of the last keys of the input, a held ~ included (`Agree`);
  `KeyAgrees` shows it for one key and `LoopAgrees` for the loop of Process.
- **`TerminalSizes`**, **`TerminalRestored`**, **`TerminalRedraws`**
  (`BufferProofs`): for any windows, TERM, changes and lost
  connections. What is inductive is that the newest size is on its way, about
  to be sent or already applied (`SizeInv`), and that between two Resizes the
  PTY is smaller than the last one, if it can be (`BounceInv`).
- **`EndDelivers`**, **`EndHeard`** (`TerminationProofs`): for any amount of
  output, heartbeats and faults, over both transports. The invariant follows
  every chunk from the shell to stdout: PTY, ptyDataCh and coalescer hold
  consecutive numbers (`PtyRuns`), and stdout followed by the data stream holds
  all that the loop has flushed, cut into messages somehow (`OutRuns`, by
  `Carries`); an error is the last thing on a stream (`ErrLast`), and whoever
  left the connection left it dead (`Closed`). The type invariant is part of it,
  with the bound on streamEventCh (`EventsFit`).
- **`ConnectionsHeldOnce`** (`TransportProofs`): for any number of clients and
  any capacity of connCh. No two places hold the same connection (`Distinct`),
  and the open ones are those that are held (`HeldInv`).
- **`BootConnects`**, **`BootInstalls`**, **`BootCleansUp`**, **`BootFails`**
  (`TransportProofs`): on every host and for any number of runs. `RunInv` orders
  the life of a run, its ssh and its session; `ChoiceInv` says which binary an
  undisturbed installation has chosen, step by step.
- **`FlowTypeCorrect`**, **`HandshakeRefuses`** (`TransportProofs`): for all
  capacities and replays, no buffer is overfilled, and a client that can be
  reached is refused only for a replay that does not fit. What is inductive is
  where things are while the session waits (`ReplayWaits`): on QUIC the replay
  is on the data stream and the control stream holds TerminalInfo only; on TCP,
  without a replay, TerminalInfo is in front of all that was typed since.

Three of the models contain a loop over data (the byte sum, `ReplaySince`,
`Process`), written as a recursive function. That such a function exists and
obeys its equation is `LoopRuns`; its rounds are counted by taking the first one
that would go wrong (`Smallest`, from the well-foundedness of the naturals).

The assumptions are the named ones on the constants: sets and naturals, at
least one slot, buffers of at least one message, a nil connection that is no
connection, windows of 16 bits; and `MaxInc = 1` in `UpRefines`.

Every invariant and every action property that a run checks is proved. Only
model-checked are the properties about liveness (`OutputArrives`,
`KeystrokesArrive`, `Served`, `LoopsExit`, `FitsJoins`, `LoopsReturn`,
`OutputFlows`, `SessionEnds`, `ClientNotices`, `SizeArrives`), which are outside
TLAPS here (fairness, ENABLED).

## Not modelled

- Cryptography: HMAC, TLS and the certificates; authentication is an outcome.
- The inside of a dial: library code; it succeeds or changes nothing.
- Frame encoding, except the 16-bit length of TerminalInfo: the other payloads
  have a fixed layout and no arithmetic that could wrap.
- Flag parsing and profiling: straight-line code and logging.
- How ssh, the user's ssh configuration and `os/exec` behave when ssh is killed
  with children that keep its output open: `Bootstrap` takes it that a killed
  ssh closes its output.
- Pacing: the length of the retry delay, of heartbeat intervals and of the two
  drains; each timer may fire whenever it is armed.

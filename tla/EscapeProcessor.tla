-------------------------- MODULE EscapeProcessor ---------------------------
(***************************************************************************)
(* The ~. escape processor of the client: a state machine over the keys of *)
(* one stdin chunk after another, that holds back a ~ typed at the start   *)
(* of a line until the next key tells what it is for.                      *)
(***************************************************************************)
EXTENDS Integers, Sequences, FiniteSets

CONSTANTS
  MaxKeys,    \* bound: keys typed on one connection
  MaxChunk    \* bound: keys in one read of stdin

ASSUME EscapeAssumption == MaxKeys \in Nat /\ MaxChunk \in Nat \ {0}

VARIABLES
  state,    \* e.state
  action,   \* what the last Process returned
  typed,    \* keys read from stdin on this connection
  emitted   \* keys Process has passed on, on this connection

escapeVars == <<state, action, typed, emitted>>

\* \r and \n are treated alike; "other" is any key the processor does not know.
Keys == {"newline", "tilde", "dot", "other"}

Chunks == UNION {[1 .. n -> Keys] : n \in 1 .. MaxChunk}

EscapeTypeOK ==
  /\ state \in {"escNone", "escAfterNewline", "escAfterTilde"}
  /\ action \in {"EscSend", "EscDisconnect"}
  /\ typed \in Seq(Keys)
  /\ emitted \in Seq(Keys)

EscapeInit ==
  /\ state = "escAfterNewline"
  /\ action = "EscSend"
  /\ typed = <<>>
  /\ emitted = <<>>

-----------------------------------------------------------------------------
(* One key.  r holds the processor's state, the keys written to dst so far *)
(* and the action.                                                         *)

Emit(r, st, ks) == [r EXCEPT !.state = st, !.dst = @ \o ks]

MidLine(r, b) ==
  Emit(r, IF b = "newline" THEN "escAfterNewline" ELSE "escNone", <<b>>)

LineStart(r, b) ==
  CASE b = "tilde"   -> [r EXCEPT !.state = "escAfterTilde"]
    [] b = "newline" -> Emit(r, "escAfterNewline", <<b>>)
    [] OTHER         -> Emit(r, "escNone", <<b>>)

\* Mutant: the held ~ is dropped when a newline follows.
HeldDropped(r, b) ==
  CASE b = "dot"     -> [r EXCEPT !.action = "EscDisconnect"]
    [] b = "tilde"   -> Emit(r, "escNone", <<"tilde">>)
    [] b = "newline" -> Emit(r, "escAfterNewline", <<b>>)
    [] OTHER         -> Emit(r, "escNone", <<"tilde", b>>)

\* Mutant: after ~~ the next key may still complete an escape.
HeldAgain(r, b) ==
  CASE b = "dot"     -> [r EXCEPT !.action = "EscDisconnect"]
    [] b = "tilde"   -> Emit(r, "escAfterTilde", <<"tilde">>)
    [] b = "newline" -> Emit(r, "escAfterNewline", <<"tilde", b>>)
    [] OTHER         -> Emit(r, "escNone", <<"tilde", b>>)

\* Mutant: the held ~ is not forgotten once it is passed on.
HeldSticks(r, b) ==
  CASE b = "dot"     -> [r EXCEPT !.action = "EscDisconnect"]
    [] b = "tilde"   -> Emit(r, "escNone", <<"tilde">>)
    [] b = "newline" -> Emit(r, "escAfterNewline", <<"tilde", b>>)
    [] OTHER         -> Emit(r, "escAfterTilde", <<"tilde", b>>)

HeldTilde(r, b) ==
  CASE b = "dot"     -> [r EXCEPT !.action = "EscDisconnect"]
    [] b = "tilde"   -> Emit(r, "escNone", <<"tilde">>)
    [] b = "newline" -> Emit(r, "escAfterNewline", <<"tilde", b>>)
    [] OTHER         -> Emit(r, "escNone", <<"tilde", b>>)

Key(r, b) ==
  CASE r.action = "EscDisconnect" -> r
    [] r.action = "EscSend" /\ r.state = "escNone" -> MidLine(r, b)
    [] r.action = "EscSend" /\ r.state = "escAfterNewline" -> LineStart(r, b)
    [] r.action = "EscSend" /\ r.state = "escAfterTilde" -> HeldTilde(r, b)

\* The processor after each key of a chunk.
Loop(chunk) ==
  LET after[i \in 0 .. Len(chunk)] ==
        IF i = 0 THEN [state |-> state, dst |-> <<>>, action |-> "EscSend"]
                 ELSE Key(after[i - 1], chunk[i])
  IN  after

\* Process over a chunk; after EscDisconnect the caller discards dst.
Process(chunk) ==
  LET r == Loop(chunk)[Len(chunk)]
  IN  /\ action = "EscSend"
      /\ Len(typed) + Len(chunk) <= MaxKeys
      /\ typed' = typed \o chunk
      /\ state' = r.state
      /\ action' = r.action
      /\ emitted' = IF r.action = "EscSend" THEN emitted \o r.dst ELSE emitted

\* Reset, on every new connection.
Reset ==
  /\ action = "EscSend"
  /\ state' = "escAfterNewline"
  /\ typed' = <<>>
  /\ emitted' = <<>>
  /\ UNCHANGED action

-----------------------------------------------------------------------------
(* The reference: what the keys mean, told from the whole input.           *)

StartsLine(i) == i = 1 \/ typed[i - 1] = "newline"

\* A ~ that starts a line and is not passed on: doubled, or the last key so far.
Swallowed(i) ==
  /\ typed[i] = "tilde"
  /\ StartsLine(i)
  /\ i = Len(typed) \/ typed[i + 1] = "tilde"

\* The keys to pass on, by their places in the input.
Kept == {i \in DOMAIN typed : ~ Swallowed(i)}

\* However the input is cut into chunks, what is passed on is the input without
\* the first ~ of a line-leading ~~ and without a ~ still held (escape.go
\* Process): nothing is lost, added or reordered.
\* The first conjunct is the type invariant.
EmitsExactly ==
  /\ EscapeTypeOK
  /\ action = "EscSend" =>
       /\ Len(emitted) = Cardinality(Kept)
       /\ \A i \in Kept : emitted[Cardinality({j \in Kept : j <= i})] = typed[i]

\* The client disconnects exactly when ~. was typed at the start of a line, the
\* two keys in one chunk or in two (escape.go:64-66, 73-74).
DisconnectsExactly ==
  action = "EscDisconnect" <=>
    \E i \in DOMAIN typed :
      /\ i > 1
      /\ typed[i] = "dot"
      /\ typed[i - 1] = "tilde"
      /\ StartsLine(i - 1)

\* What one Process writes fits escapeBuf, which has two bytes more than the
\* largest read: a ~ held from the chunk before comes on top of a whole chunk
\* (client.go:328).
FitsEscapeBuf ==
  [][Len(emitted') - Len(emitted) <= MaxChunk + 2]_escapeVars
=============================================================================

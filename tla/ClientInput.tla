---------------------------- MODULE ClientInput -----------------------------
(***************************************************************************)
(* The way of a key through the client's ioLoop: the escape processor,     *)
(* then the coalescer, then a Data message.  Both forget what they hold    *)
(* when the connection is lost and Run starts over.                        *)
(***************************************************************************)
EXTENDS Coalescer, EscapeProcessor

VARIABLE
  reason   \* what ioLoop returned to end Run; "none" while it runs

inputVars == <<coalVars, escapeVars, reason>>

InputInit ==
  /\ CoalInit
  /\ EscapeInit
  /\ reason = "none"

\* The stdin case of ioLoop.  On ~. it returns without a flush.
StdinCase(chunk) ==
  /\ reason = "none"
  /\ Process(chunk)
  /\ \/ /\ action' = "EscDisconnect"
        /\ reason' = "exitEscape"
        /\ Stop
     \/ /\ action' = "EscSend"
        /\ IF Len(emitted') > Len(emitted)
             THEN Add(Len(emitted') - Len(emitted))
             ELSE UNCHANGED coalVars
        /\ UNCHANGED reason

\* Stdin is closed: flush, then return.
InputEOF ==
  /\ reason = "none"
  /\ FlushBoundary
  /\ reason' = "exitStdinEOF"
  /\ UNCHANGED escapeVars

\* The context is done: no flush.
InputCancelled ==
  /\ reason = "none"
  /\ Stop
  /\ reason' = "exitCancelled"
  /\ UNCHANGED escapeVars

InputTimer ==
  /\ reason = "none"
  /\ TimerCase
  /\ UNCHANGED <<escapeVars, reason>>

InputTick ==
  /\ reason = "none"
  /\ Tick
  /\ UNCHANGED <<escapeVars, reason>>

\* ioLoop returned exitNetwork: its coalescer is stopped and dropped, and the
\* escape processor is reset for the next connection.
Reconnected ==
  /\ reason = "none"
  /\ Reset
  /\ Stop
  /\ UNCHANGED reason

Exited == reason # "none" /\ UNCHANGED inputVars

InputNext ==
  \/ \E chunk \in Chunks : StdinCase(chunk)
  \/ InputEOF
  \/ InputCancelled
  \/ InputTimer
  \/ InputTick
  \/ Reconnected
  \/ Exited

InputSpec == InputInit /\ [][InputNext]_inputVars
=============================================================================

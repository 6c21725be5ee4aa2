----------------------------- MODULE Coalescer ------------------------------
(***************************************************************************)
(* The write coalescer of internal/coalesce, by the calls of the event     *)
(* loop that owns it (ClientInput composes the two).  Time is relative: a  *)
(* byte is its age in ticks, the timer is the ticks it has left.  The      *)
(* runtime is that of go.mod's Go version: a timer that is stopped or      *)
(* reset never delivers an old expiry.                                     *)
(***************************************************************************)
EXTENDS Integers, Sequences

CONSTANTS
  Delay,      \* ticks from the first byte of a batch to its flush
  Threshold   \* bytes that trigger a flush

ASSUME CoalescerAssumption ==
  /\ Delay \in Nat \ {0}
  /\ Threshold \in Nat \ {0}

Off == -1   \* the timer is not running

\* Ages are told apart up to the first one beyond Delay.
Older(age) == IF age <= Delay THEN age + 1 ELSE age

VARIABLES
  buf,      \* ages of the bytes held, in the order they were added
  armed,    \* c.armed
  timer     \* ticks left; 0: expired, its value can be received

coalVars == <<buf, armed, timer>>

CoalTypeOK ==
  /\ buf \in Seq(0 .. Delay + 1)
  /\ armed \in BOOLEAN
  /\ timer \in Off .. Delay

CoalInit ==
  /\ buf = <<>>
  /\ armed = FALSE
  /\ timer = Off

-----------------------------------------------------------------------------
Fresh(n) == [i \in 1 .. n |-> 0]

\* Mutant: every Add restarts the timer (debounce).
ArmAlways ==
  /\ timer' = Delay
  /\ armed' = TRUE

\* Arm the timer on the first byte of a batch.
Arm ==
  IF buf = <<>> /\ ~ armed
    THEN timer' = Delay /\ armed' = TRUE
    ELSE UNCHANGED <<timer, armed>>

\* Flush of a non-empty batch: stop the timer, hand out the bytes.
Flush ==
  /\ buf' = <<>>
  /\ armed' = FALSE
  /\ timer' = Off

\* Add n bytes; the owner flushes at once if the threshold is reached.
Add(n) ==
  IF Len(buf) + n >= Threshold
    THEN Flush
    ELSE /\ Arm
         /\ buf' = buf \o Fresh(n)

\* The owner's timer case: Timer() is nil unless armed.
TimerCase ==
  /\ armed
  /\ timer = 0
  /\ Flush

\* An explicit Flush at a boundary: of an empty buffer it does nothing.
FlushBoundary ==
  IF buf # <<>> THEN Flush ELSE UNCHANGED coalVars

\* One tick.  The loop is idle: it takes an expired timer before time passes.
Tick ==
  /\ ~ (armed /\ timer = 0)
  /\ buf' = [i \in DOMAIN buf |-> Older(buf[i])]
  /\ timer' = IF timer > 0 THEN timer - 1 ELSE timer
  /\ UNCHANGED armed

\* Stop: whatever is held is dropped with the coalescer.
Stop ==
  /\ buf' = <<>>
  /\ armed' = FALSE
  /\ timer' = Off

-----------------------------------------------------------------------------
\* No byte waits longer than Delay, whatever is added after it: the deadline
\* counts from the first byte of a batch ("deadline semantics, not debounce",
\* coalesce.go:48-49).
\* The first conjunct is the type invariant.
DeadlineMet ==
  /\ CoalTypeOK
  /\ \A i \in DOMAIN buf : buf[i] <= Delay
=============================================================================

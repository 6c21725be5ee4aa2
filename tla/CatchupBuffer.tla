--------------------------- MODULE CatchupBuffer ----------------------------
(***************************************************************************)
(* The ring buffer of internal/catchup, driven by an owner that stores its *)
(* Data messages under consecutive sequence numbers, as both flush         *)
(* functions do.  A payload is its length.  Every method holds the mutex   *)
(* from start to end, so a call is one step.                               *)
(***************************************************************************)
EXTENDS Integers, Sequences

CONSTANTS
  Capacity,   \* slots of the ring
  MaxSize,    \* most payload bytes
  Lens,       \* lengths of the payloads stored
  MaxStores   \* bound: calls of Store

ASSUME BufferAssumption ==
  /\ Capacity \in Nat \ {0}
  /\ MaxSize \in Nat \ {0}
  /\ Lens \subseteq Nat
  /\ MaxStores \in Nat

VARIABLES
  entries,   \* the ring
  size,      \* total payload bytes
  head,      \* next write position
  count,     \* entries stored
  seq        \* the owner's sendSeq

vars == <<entries, size, head, count, seq>>

Slots == 0 .. Capacity - 1

Entry == [seq : Nat, len : Nat]

\* entry{}: an unused or released slot.
None == [seq |-> 0, len |-> 0]

TypeOK ==
  /\ entries \in [Slots -> Entry]
  /\ size \in Nat
  /\ head \in Slots
  /\ count \in 0 .. Capacity
  /\ seq \in Nat

Init ==
  /\ entries = [i \in Slots |-> None]
  /\ size = 0
  /\ head = 0
  /\ count = 0
  /\ seq = 0

-----------------------------------------------------------------------------
\* Mutant: the oldest entry is looked for without wrapping around.
TailUnwrapped == IF head >= count THEN head - count ELSE 0

\* Where the oldest entry is.
Oldest == (head - count + Capacity) % Capacity

\* Where the newest entry is.
Newest == (head - 1 + Capacity) % Capacity

\* The i-th oldest entry's slot, from 0.
Slot(i) == (Oldest + i) % Capacity

\* Payload bytes in the n oldest entries.
Bytes(n) ==
  LET sum[i \in 0 .. count] == IF i = 0 THEN 0 ELSE sum[i - 1] + entries[Slot(i - 1)].len
  IN  sum[n]

\* Mutant: the limit itself is already too much.
EvictsEagerly(n, len) ==
  /\ n = count \/ size - Bytes(n) + len < MaxSize
  /\ \A m \in 0 .. n - 1 : size - Bytes(m) + len >= MaxSize

\* Store's first loop evicts n entries to make room for len bytes.
EvictsForBytes(n, len) ==
  /\ n = count \/ size - Bytes(n) + len <= MaxSize
  /\ \A m \in 0 .. n - 1 : size - Bytes(m) + len > MaxSize

\* Mutant: an eviction forgets the bytes it releases.
SizeLeaks(n, len) == size + len

\* size once n entries are evicted and len bytes are stored.
SizeAfter(n, len) == size - Bytes(n) + len

\* The slots of the n oldest entries.
Freed(n) == {Slot(m) : m \in 0 .. n - 1}

\* The ring once the n oldest entries are released and e is written at head.
RingAfter(n, e) ==
  [i \in Slots |-> IF i = head THEN e ELSE IF i \in Freed(n) THEN None ELSE entries[i]]

\* One more eviction if the ring has no free slot.
Evicted(n) == IF count - n >= Capacity THEN n + 1 ELSE n

Store(len) ==
  /\ seq < MaxStores
  /\ \E n \in 0 .. count :
       /\ EvictsForBytes(n, len)
       /\ entries' = RingAfter(Evicted(n), [seq |-> seq + 1, len |-> len])
       /\ size' = SizeAfter(Evicted(n), len)
       /\ count' = count - Evicted(n) + 1
  /\ head' = (head + 1) % Capacity
  /\ seq' = seq + 1

\* ReplaySince: the numbers stored after afterSeq, in ring order.
ReplaySince(afterSeq) ==
  LET result[i \in 0 .. count] ==
        IF i = 0 THEN <<>>
        ELSE LET s == entries[Slot(i - 1)].seq
             IN  IF s > afterSeq THEN Append(result[i - 1], s) ELSE result[i - 1]
  IN  result[count]

OldestSeq == IF count = 0 THEN 0 ELSE entries[Oldest].seq

NewestSeq == IF count = 0 THEN 0 ELSE entries[Newest].seq

\* The owner has stored all it will: the bound MaxStores.
Done == seq = MaxStores /\ UNCHANGED vars

Next == (\E len \in Lens : Store(len)) \/ Done

Spec == Init /\ [][Next]_vars

-----------------------------------------------------------------------------
\* The oldest number a peer can still be sent.
OldestKept == IF count = 0 THEN 1 ELSE OldestSeq

Log == INSTANCE CatchupLog WITH
  CatchupSlots <- Capacity,
  oldest <- OldestKept,
  newest <- NewestSeq

\* The ring is a catchup log: what it holds is an interval of numbers that ends
\* with the newest, whatever the wraparounds and evictions (buffer.go Store).
Implements == Log!Spec

\* Read from the oldest slot on, the ring holds the newest count numbers in
\* order, however often it wrapped around (buffer.go tail, newest, Store).
Contents ==
  \A i \in 0 .. count - 1 : entries[Slot(i)].seq = seq - count + 1 + i

\* A replay is what the log promises a peer at afterSeq: consecutive numbers up
\* to the newest, none below what was asked for (buffer.go:87-112).
ReplayExact ==
  \A afterSeq \in 0 .. seq + 1 :
    ReplaySince(afterSeq) = Log!ReplaySince(seq - count + 1, seq, afterSeq)

\* However many entries one Store evicts, size never drifts from the payloads
\* held, evicted payloads are not kept reachable in their slots, and the byte
\* limit holds, except for one payload that alone exceeds it (buffer.go:53-68,
\* 80-85).
\* The first conjunct is the type invariant.
Accounted ==
  /\ TypeOK
  /\ size = Bytes(count)
  /\ \A i \in Slots \ Freed(count) : entries[i] = None
  /\ size <= MaxSize \/ count = 1

\* How many entries a Store evicted.
Gone == count - count' + 1

\* Store evicts no more than it must: the last entry it gave up would not have
\* fitted beside the new one, by bytes or by slots.
EvictsNoMore ==
  [][seq' # seq /\ Gone > 0 =>
       \/ size' + entries[Slot(Gone - 1)].len > MaxSize
       \/ count' = Capacity]_vars
=============================================================================

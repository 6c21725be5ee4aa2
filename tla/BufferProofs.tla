---------------------------- MODULE BufferProofs ----------------------------
(***************************************************************************)
(* The ring of CatchupBuffer, for every capacity, byte limit and sequence  *)
(* of payloads, and the size and the mode of the terminal (Terminal), for  *)
(* every window and TERM.                                                  *)
(***************************************************************************)
EXTENDS CatchupBuffer, Terminal, WellFoundedInduction, TLAPS

-----------------------------------------------------------------------------
(* Loops.                                                                  *)

\* A non-empty set of numbers has a smallest one.
LEMMA Smallest ==
  ASSUME NEW S, S \subseteq Nat, S # {}
  PROVE  \E n \in S : \A m \in S : n <= m
<1> DEFINE R == OpToRel(<, Nat)
<1>1. IsWellFoundedOn(R, Nat)
  BY NatLessThanWellFounded, Zenon
<1>2. \A m, n \in Nat : m < n => <<m, n>> \in R
  BY DEF OpToRel
<1> HIDE DEF R
<1>3. PICK n \in S : \A m \in S : ~ (<<m, n>> \in R)
  BY <1>1, WFMin, Zenon
<1>4. ASSUME NEW m \in S
      PROVE  n <= m
  <2>1. m \in Nat /\ n \in Nat
    OBVIOUS
  <2>2. ~ (m < n)
    BY <2>1, <1>2, <1>3, Zenon
  <2> QED
    BY <2>1, <2>2
<1> QED
  BY <1>4

\* f is the run of a loop: its states after 0, 1 ... N rounds.
IsRun(f, N, S, s0, Body) ==
  /\ f \in [0 .. N -> S]
  /\ f[0] = s0
  /\ \A i \in 1 .. N : f[i] = Body[i][f[i - 1]]

\* A loop has a run: from any start, and whatever its body does in each round, there is
\* the sequence of its states.
LEMMA LoopRuns ==
  ASSUME NEW N \in Nat, NEW S, NEW s0 \in S, NEW Body \in [1 .. N -> [S -> S]]
  PROVE  \E f : IsRun(f, N, S, s0, Body)
<1> DEFINE Runs(n) == {f \in [0 .. n -> S] : f[0] = s0 /\ \A i \in 1 .. n : f[i] = Body[i][f[i - 1]]}
           Bad == {n \in 0 .. N : Runs(n) = {}}
<1> HIDE DEF Runs
<1>1. ASSUME Bad # {}
      PROVE  FALSE
  <2>1. PICK n \in Bad : \A m \in Bad : n <= m
    <3>1. Bad \subseteq Nat
      OBVIOUS
    <3> HIDE DEF Bad
    <3> QED
      BY <1>1, <3>1, Smallest, Zenon
  <2>2. n \in 0 .. N /\ Runs(n) = {}
    BY <2>1
  <2>3. [i \in 0 .. 0 |-> s0] \in Runs(0)
    BY DEF Runs
  <2>4. n # 0
    BY <2>2, <2>3
  <2>5. n - 1 \in 0 .. N /\ n - 1 \notin Bad
    BY <2>1, <2>2, <2>4
  <2>6. PICK f \in [0 .. n - 1 -> S] : f[0] = s0 /\ \A i \in 1 .. n - 1 : f[i] = Body[i][f[i - 1]]
    BY <2>5 DEF Runs
  <2> DEFINE g == [i \in 0 .. n |-> IF i = n THEN Body[n][f[n - 1]] ELSE f[i]]
  <2>7. Body[n][f[n - 1]] \in S
    <3>1. n \in 1 .. N /\ n - 1 \in 0 .. n - 1
      BY <2>2, <2>4
    <3>2. f[n - 1] \in S
      BY <3>1, <2>6
    <3>3. Body[n] \in [S -> S]
      BY <3>1
    <3> QED
      BY <3>2, <3>3
  <2>8. g \in [0 .. n -> S]
    BY <2>2, <2>4, <2>6, <2>7
  <2>9. g[0] = s0
    BY <2>2, <2>4, <2>6
  <2>10. ASSUME NEW i \in 1 .. n
         PROVE  g[i] = Body[i][g[i - 1]]
    <3>1. n \in Nat /\ i \in Nat /\ i - 1 \in 0 .. n - 1 /\ i \in 0 .. n
      BY <2>2
    <3>2. g[i - 1] = f[i - 1]
      BY <3>1
    <3>3. CASE i = n
      BY <3>1, <3>2, <3>3
    <3>4. CASE i # n
      <4>1. i \in 1 .. n - 1
        BY <3>1, <3>4
      <4>2. g[i] = f[i]
        BY <3>1, <3>4
      <4> QED
        BY <4>1, <4>2, <3>2, <2>6
    <3> QED
      BY <3>3, <3>4
  <2>11. g \in Runs(n)
    BY <2>8, <2>9, <2>10, Zenon DEF Runs
  <2> QED
    BY <2>2, <2>11
<1>2. Runs(N) # {}
  BY <1>1
<1> QED
  BY <1>2 DEF Runs, IsRun

-----------------------------------------------------------------------------
(* The catchup buffer.                                                     *)

\* Two sequences with the same elements are the same.
LEMMA SeqSame ==
  ASSUME NEW S, NEW s \in Seq(S), NEW t \in Seq(S), Len(s) = Len(t),
         \A i \in 1 .. Len(s) : s[i] = t[i]
  PROVE  s = t
OBVIOUS

\* Every index the buffer computes is below twice the capacity.
LEMMA ModSmall ==
  ASSUME NEW C \in Nat \ {0}, NEW a \in 0 .. 2 * C - 1
  PROVE  a % C = IF a < C THEN a ELSE a - C
OBVIOUS

\* The part of TypeOK that does not speak of bytes, and the contents.
RingInv ==
  /\ entries \in [Slots -> Entry]
  /\ head \in Slots
  /\ count \in 0 .. Capacity
  /\ seq \in Nat
  /\ count <= seq
  /\ count = 0 => seq = 0
  /\ Contents

\* The slots read from the tail, without the modulus.
LEMMA SlotLinear ==
  ASSUME NEW h \in Slots, NEW c \in 0 .. Capacity, NEW i \in 0 .. c,
         i < c \/ c < Capacity
  PROVE  (((h - c + Capacity) % Capacity) + i) % Capacity
           = IF h - c + i >= 0 THEN h - c + i ELSE h - c + i + Capacity
<1>1. Capacity \in Nat \ {0} /\ h \in Nat /\ h < Capacity /\ c \in Nat /\ i \in Nat
  BY BufferAssumption DEF Slots
<1> DEFINE t == (h - c + Capacity) % Capacity
<1>2. h - c + Capacity \in 0 .. 2 * Capacity - 1
  BY <1>1
<1>3. t = IF h - c >= 0 THEN h - c ELSE h - c + Capacity
  <2> DEFINE a == h - c + Capacity
  <2>1. a \in 0 .. 2 * Capacity - 1 /\ a = h - c + Capacity
    BY <1>2
  <2> HIDE DEF a
  <2>2. a % Capacity = IF a < Capacity THEN a ELSE a - Capacity
    BY <1>1, <2>1, ModSmall, ZenonT(60)
  <2>3. t = a % Capacity
    BY DEF a
  <2> QED
    BY <1>1, <2>1, <2>2, <2>3
<1> HIDE DEF t
<1> DEFINE a == t + i
<1>4. a \in 0 .. 2 * Capacity - 1 /\ a = t + i
  BY <1>1, <1>3
<1> HIDE DEF a
<1>5. a % Capacity = IF a < Capacity THEN a ELSE a - Capacity
  BY <1>1, <1>4, ModSmall
<1>6. a % Capacity = IF h - c + i >= 0 THEN h - c + i ELSE h - c + i + Capacity
  BY <1>1, <1>3, <1>4, <1>5
<1> QED
  BY <1>6 DEF a, t

\* What a Store of len bytes that evicts e entries does to the ring: entry e + i of the
\* old ring is entry i of the new one, the last is at head, and what is kept is
\* neither overwritten nor released.
Moved(e, len) ==
  /\ e \in 0 .. count /\ count - e < Capacity
  /\ count' = count - e + 1
  /\ entries' = [i \in Slots |-> IF i = head THEN [seq |-> seq + 1, len |-> len]
                   ELSE IF i \in Freed(e) THEN None ELSE entries[i]]
  /\ head' \in Slots
  /\ \A i \in 0 .. count' - 1 : Slot(i)' = IF i = count' - 1 THEN head ELSE Slot(e + i)
  /\ \A j \in e .. count - 1 : Slot(j) \in Slots /\ Slot(j) # head /\ Slot(j) \notin Freed(e)

\* Store does so.
LEMMA StoreMoves ==
  ASSUME RingInv, NEW len \in Nat, NEW n \in 0 .. count,
         entries' = RingAfter(Evicted(n), [seq |-> seq + 1, len |-> len]),
         count' = count - Evicted(n) + 1,
         head' = (head + 1) % Capacity
  PROVE  Moved(Evicted(n), len)
<1> DEFINE e == Evicted(n)
<1>2. /\ Capacity \in Nat \ {0}
      /\ head \in Nat /\ head < Capacity
      /\ count \in Nat /\ count <= Capacity
  BY BufferAssumption DEF RingInv, Slots
<1>3. /\ e \in 0 .. count /\ count - e < Capacity
      /\ count' = count - e + 1
  BY <1>2 DEF Evicted
<1>4. entries' = [i \in Slots |-> IF i = head THEN [seq |-> seq + 1, len |-> len]
                    ELSE IF i \in Freed(e) THEN None ELSE entries[i]]
  BY DEF RingAfter
<1> HIDE DEF e
<1>5. head' = IF head + 1 < Capacity THEN head + 1 ELSE 0
  <2> DEFINE a == head + 1
  <2>1. a \in 0 .. 2 * Capacity - 1 /\ a = head + 1
    BY <1>2
  <2> HIDE DEF a
  <2>2. a % Capacity = IF a < Capacity THEN a ELSE a - Capacity
    BY <1>2, <2>1, ModSmall, ZenonT(60)
  <2>3. head' = a % Capacity
    BY DEF a
  <2> QED
    BY <1>2, <2>1, <2>2, <2>3
<1>6. head' \in Slots /\ count' \in 0 .. Capacity
  BY <1>2, <1>3, <1>5 DEF Slots
<1>8. ASSUME NEW i \in 0 .. count' - 1
      PROVE  Slot(i)' = IF i = count' - 1 THEN head ELSE Slot(e + i)
  <2>1. Slot(i)' = IF head' - count' + i >= 0 THEN head' - count' + i
                   ELSE head' - count' + i + Capacity
    BY <1>2, <1>3, <1>6, SlotLinear DEF Slot, Oldest
  <2>2. CASE i = count' - 1
    BY <1>2, <1>3, <1>5, <2>1, <2>2
  <2>3. CASE i # count' - 1
    <3>1. e + i \in 0 .. count /\ e + i < count /\ head \in Slots /\ count \in 0 .. Capacity
      BY <1>2, <1>3, <2>3 DEF Slots
    <3>2. Slot(e + i) = IF head - count + (e + i) >= 0 THEN head - count + (e + i)
                        ELSE head - count + (e + i) + Capacity
      BY <3>1, SlotLinear DEF Slot, Oldest
    <3> QED
      BY <1>2, <1>3, <1>5, <2>1, <2>3, <3>1, <3>2
  <2> QED
    BY <2>2, <2>3
<1>9. ASSUME NEW j \in e .. count - 1
      PROVE  Slot(j) \in Slots /\ Slot(j) # head /\ Slot(j) \notin Freed(e)
  <2>1. head \in Slots /\ count \in 0 .. Capacity
    BY <1>2 DEF Slots
  <2>2. ASSUME NEW m \in 0 .. count - 1
        PROVE  Slot(m) = IF head - count + m >= 0 THEN head - count + m
                         ELSE head - count + m + Capacity
    <3>1. m \in 0 .. count /\ m < count
      BY <1>2
    <3> QED
      BY <2>1, <3>1, SlotLinear DEF Slot, Oldest
  <2>3. j \in 0 .. count - 1
    BY <1>2, <1>3
  <2>4. Slot(j) = IF head - count + j >= 0 THEN head - count + j
                  ELSE head - count + j + Capacity
    BY <2>2, <2>3
  <2>5. Slot(j) \in Slots /\ Slot(j) # head
    BY <1>2, <1>3, <2>3, <2>4 DEF Slots
  <2>6. ASSUME NEW m \in 0 .. e - 1
        PROVE  Slot(m) # Slot(j)
    <3>1. m \in 0 .. count - 1 /\ m < j
      BY <1>2, <1>3
    <3>2. Slot(m) = IF head - count + m >= 0 THEN head - count + m
                    ELSE head - count + m + Capacity
      BY <2>2, <3>1
    <3> QED
      BY <1>2, <2>3, <2>4, <3>1, <3>2
  <2> QED
    BY <2>5, <2>6 DEF Freed
<1> QED
  BY <1>3, <1>4, <1>6, <1>8, <1>9, Zenon DEF Moved, e

\* Store preserves the invariant of the ring and adds one number.
LEMMA StoreStep ==
  ASSUME RingInv, NEW len \in Nat, Store(len)
  PROVE  /\ RingInv'
         /\ seq' = seq + 1
         /\ count' \in 1 .. count + 1
<1>1. PICK n \in 0 .. count : Moved(Evicted(n), len)
  BY StoreMoves DEF Store
<1> DEFINE e == Evicted(n)
<1>2. /\ Capacity \in Nat \ {0}
      /\ head \in Slots /\ count \in Nat /\ count <= Capacity
      /\ seq \in Nat /\ count <= seq /\ seq' = seq + 1
      /\ entries \in [Slots -> Entry]
  BY BufferAssumption DEF RingInv, Store
<1> HIDE DEF e
<1>3. /\ e \in 0 .. count /\ count - e < Capacity
      /\ count' = count - e + 1 /\ head' \in Slots
      /\ entries' = [i \in Slots |-> IF i = head THEN [seq |-> seq + 1, len |-> len]
                       ELSE IF i \in Freed(e) THEN None ELSE entries[i]]
      /\ \A i \in 0 .. count' - 1 : Slot(i)' = IF i = count' - 1 THEN head ELSE Slot(e + i)
      /\ \A j \in e .. count - 1 : Slot(j) \in Slots /\ Slot(j) # head /\ Slot(j) \notin Freed(e)
  BY <1>1 DEF Moved, e
<1>4. count' \in 1 .. Capacity /\ count' <= seq'
  BY <1>2, <1>3
<1>5. entries' \in [Slots -> Entry]
  BY <1>2, <1>3 DEF Entry, None
<1>6. Contents'
  <2> SUFFICES ASSUME NEW i \in 0 .. count' - 1
               PROVE  entries'[Slot(i)'].seq = seq' - count' + 1 + i
    BY DEF Contents
  <2>1. CASE i = count' - 1
    <3>1. Slot(i)' = head
      BY <1>3, <2>1
    <3>2. entries'[head] = [seq |-> seq + 1, len |-> len]
      BY <1>2, <1>3
    <3> QED
      BY <1>2, <1>3, <2>1, <3>1, <3>2
  <2>2. CASE i # count' - 1
    <3>1. e + i \in e .. count - 1 /\ e + i \in 0 .. count - 1 /\ Slot(i)' = Slot(e + i)
      BY <1>2, <1>3, <2>2
    <3>2. entries'[Slot(e + i)] = entries[Slot(e + i)]
      BY <1>3, <3>1
    <3>3. entries[Slot(e + i)].seq = seq - count + 1 + (e + i)
      BY <3>1 DEF RingInv, Contents
    <3> QED
      BY <1>2, <1>3, <3>1, <3>2, <3>3
  <2> QED
    BY <2>1, <2>2
<1> QED
  BY <1>2, <1>3, <1>4, <1>5, <1>6 DEF RingInv

\* RingInv is inductive.
LEMMA RingStep == RingInv /\ [Next]_vars => RingInv'
<1> SUFFICES ASSUME RingInv, [Next]_vars PROVE RingInv'
  OBVIOUS
<1>1. CASE \E len \in Lens : Store(len)
  BY <1>1, StoreStep, BufferAssumption
<1>2. CASE UNCHANGED vars
  BY <1>2 DEF vars, RingInv, Contents, Slot, Oldest
<1> QED
  BY <1>1, <1>2 DEF Next, Done

\* An empty ring satisfies RingInv.
LEMMA RingInit == Init => RingInv
BY BufferAssumption DEF Init, RingInv, Contents, Slots, Entry, None

\* RingInv holds in every reachable state.
LEMMA RingAlways == Spec => []RingInv
BY RingInit, RingStep, PTL DEF Spec

\* The ring holds the newest count numbers in order, for every capacity, byte
\* limit and sequence of payload lengths.
THEOREM RingContents == Spec => []Contents
<1>1. RingInv => Contents
  BY DEF RingInv
<1> QED
  BY <1>1, RingAlways, PTL

\* The numbers at the two ends of the ring.
LEMMA RingEnds ==
  RingInv => /\ NewestSeq = seq
             /\ OldestKept = seq - count + 1
<1> SUFFICES ASSUME RingInv
             PROVE  /\ NewestSeq = seq
                    /\ OldestKept = seq - count + 1
  OBVIOUS
<1>1. /\ Capacity \in Nat \ {0} /\ head \in Nat /\ head < Capacity /\ head \in Slots
      /\ count \in Nat /\ count \in 0 .. Capacity /\ seq \in Nat
  BY BufferAssumption DEF RingInv, Slots
<1>2. CASE count = 0
  BY <1>1, <1>2 DEF RingInv, NewestSeq, OldestKept
<1>3. CASE count # 0
  <2>1. 0 \in 0 .. count - 1 /\ count - 1 \in 0 .. count - 1
    BY <1>1, <1>3
  <2>2. entries[Slot(0)].seq = seq - count + 1 /\ entries[Slot(count - 1)].seq = seq
    BY <1>1, <2>1 DEF RingInv, Contents
  <2>3. head - count + Capacity \in 0 .. 2 * Capacity - 1 /\ head - 1 + Capacity \in 0 .. 2 * Capacity - 1
    BY <1>1
  <2>4. Oldest \in 0 .. Capacity - 1
    BY <1>1, <2>3, ModSmall DEF Oldest
  <2>5. Slot(0) = Oldest
    <3>1. Oldest + 0 = Oldest /\ Oldest \in 0 .. 2 * Capacity - 1 /\ Oldest < Capacity
      BY <1>1, <2>4
    <3> QED
      BY <1>1, <3>1, ModSmall DEF Slot
  <2>6. Slot(count - 1) = Newest
    <3>1. count - 1 \in 0 .. count /\ count - 1 < count
      BY <1>1, <1>3
    <3>2. Slot(count - 1) = IF head - count + (count - 1) >= 0 THEN head - count + (count - 1)
                            ELSE head - count + (count - 1) + Capacity
      BY <1>1, <3>1, SlotLinear DEF Slot, Oldest
    <3>3. Newest = IF head - 1 + Capacity < Capacity THEN head - 1 + Capacity ELSE head - 1
      <4> DEFINE a == head - 1 + Capacity
      <4>1. a \in 0 .. 2 * Capacity - 1 /\ a = head - 1 + Capacity
        BY <2>3
      <4> HIDE DEF a
      <4>2. a % Capacity = IF a < Capacity THEN a ELSE a - Capacity
        BY <1>1, <4>1, ModSmall, ZenonT(60)
      <4>3. Newest = a % Capacity
        BY DEF Newest, a
      <4> QED
        BY <1>1, <4>1, <4>2, <4>3
    <3> QED
      BY <1>1, <3>2, <3>3
  <2> QED
    BY <1>3, <2>2, <2>5, <2>6 DEF NewestSeq, OldestSeq, OldestKept
<1> QED
  BY <1>2, <1>3

\* A store of number s + 1 that leaves d of c entries keeps a suffix of them.
LEMMA KeptRange ==
  ASSUME NEW s \in Nat, NEW c \in Int, NEW d \in Int, NEW C \in Nat,
         d >= 1, d <= c + 1, d <= C
  PROVE  /\ s - d + 2 \in s - c + 1 .. s + 1
         /\ (s + 1) - (s - d + 2) < C
OBVIOUS

\* The ring buffer implements the catchup log that Reconnect assumes of both
\* sides, for every capacity, byte limit and sequence of payload lengths.
THEOREM RingImplements == Spec => Implements
<1>1. Init => Log!Init
  BY DEF Init, Log!Init, NewestSeq, OldestKept
<1>2. RingInv /\ RingInv' /\ [Next]_vars =>
        [Log!Store]_<<OldestKept, NewestSeq>>
  <2> SUFFICES ASSUME RingInv, RingInv', [Next]_vars
               PROVE  [Log!Store]_<<OldestKept, NewestSeq>>
    OBVIOUS
  <2>1. NewestSeq = seq /\ OldestKept = seq - count + 1
    BY RingEnds
  <2>2. (NewestSeq = seq /\ OldestKept = seq - count + 1)'
    BY RingEnds, PTL
  <2>3. CASE \E len \in Lens : Store(len)
    <3>1. seq' = seq + 1 /\ count' \in 1 .. count + 1
      BY <2>3, StoreStep, BufferAssumption
    <3>2. count \in 0 .. Capacity /\ count' \in 0 .. Capacity /\ seq \in Nat /\ Capacity \in Nat
      BY BufferAssumption DEF RingInv
    <3>3. OldestKept' \in OldestKept .. seq + 1 /\ (seq + 1) - OldestKept' < Capacity
      <4>1. OldestKept' = seq - count' + 2 /\ OldestKept = seq - count + 1
        BY <2>1, <2>2, <3>1, <3>2
      <4>2. count \in Int /\ count' \in Int /\ count' >= 1 /\ count' <= count + 1 /\ count' <= Capacity
        BY <3>1, <3>2
      <4>3. /\ seq - count' + 2 \in seq - count + 1 .. seq + 1
            /\ (seq + 1) - (seq - count' + 2) < Capacity
        BY <3>2, <4>2, KeptRange, ZenonT(60)
      <4> QED
        BY <4>1, <4>3
    <3>4. NewestSeq' = NewestSeq + 1 /\ OldestKept' \in Log!StoreKeeps(OldestKept, NewestSeq + 1)
      BY <2>1, <2>2, <3>1, <3>3 DEF Log!StoreKeeps
    <3> QED
      BY <3>4 DEF Log!Store
  <2>4. CASE UNCHANGED vars
    BY <2>4 DEF vars, NewestSeq, OldestKept, OldestSeq, Newest, Oldest
  <2> QED
    BY <2>3, <2>4 DEF Next, Done
<1> QED
  BY <1>1, <1>2, RingAlways, PTL DEF Spec, Implements, Log!Spec

\* The slots in use are slots.
LEMMA SlotIn == RingInv => \A i \in 0 .. count - 1 : Slot(i) \in Slots /\ entries[Slot(i)] \in Entry
<1> SUFFICES ASSUME RingInv, NEW i \in 0 .. count - 1
             PROVE  Slot(i) \in Slots /\ entries[Slot(i)] \in Entry
  OBVIOUS
<1>1. /\ Capacity \in Nat \ {0} /\ head \in Slots /\ head \in Nat /\ head < Capacity
      /\ count \in 0 .. Capacity /\ i \in 0 .. count /\ i < count
  BY BufferAssumption DEF RingInv, Slots
<1>2. Slot(i) = IF head - count + i >= 0 THEN head - count + i ELSE head - count + i + Capacity
  BY <1>1, SlotLinear DEF Slot, Oldest
<1>3. Slot(i) \in Slots
  BY <1>1, <1>2 DEF Slots
<1> QED
  BY <1>3 DEF RingInv

\* Bytes, entry by entry.
LEMMA BytesSum ==
  RingInv => /\ Bytes(0) = 0
             /\ \A i \in 1 .. count : Bytes(i) = Bytes(i - 1) + entries[Slot(i - 1)].len
             /\ \A i \in 0 .. count : Bytes(i) \in Nat
<1> SUFFICES ASSUME RingInv
             PROVE  /\ Bytes(0) = 0
                    /\ \A i \in 1 .. count : Bytes(i) = Bytes(i - 1) + entries[Slot(i - 1)].len
                    /\ \A i \in 0 .. count : Bytes(i) \in Nat
  OBVIOUS
<1> DEFINE N == count
           len(i) == entries[Slot(i - 1)].len
           Unfolded(f) == [i \in 0 .. N |-> IF i = 0 THEN 0 ELSE f[i - 1] + len(i)]
           Body == [i \in 1 .. N |-> [r \in Nat |-> r + len(i)]]
<1>1. N \in Nat
  BY BufferAssumption DEF RingInv
<1>2. \A i \in 1 .. N : len(i) \in Nat
  <2>1. \A i \in 1 .. N : i - 1 \in 0 .. count - 1
    BY <1>1
  <2> QED
    BY <2>1, SlotIn DEF Entry
<1> HIDE DEF N, len
<1>3. Body \in [1 .. N -> [Nat -> Nat]]
  BY <1>2
<1>4. \A i \in 1 .. N : \A r \in Nat : Body[i][r] = r + len(i)
  OBVIOUS
<1> HIDE DEF Body
<1>5. PICK f : IsRun(f, N, Nat, 0, Body)
  BY <1>1, <1>3, LoopRuns, Zenon
<1>6. f \in [0 .. N -> Nat] /\ f[0] = 0 /\ \A i \in 1 .. N : f[i] = Body[i][f[i - 1]]
  BY <1>5 DEF IsRun
<1>7. ASSUME NEW i \in 0 .. N, i # 0
      PROVE  f[i] = f[i - 1] + len(i)
  <2>1. i \in 1 .. N /\ i - 1 \in 0 .. N
    BY <1>1, <1>7
  <2>2. f[i - 1] \in Nat
    BY <2>1, <1>6
  <2> QED
    BY <2>1, <2>2, <1>4, <1>6
<1>8. f = Unfolded(f)
  BY <1>6, <1>7
<1> DEFINE g == CHOOSE h : h = Unfolded(h)
<1>9. g = Unfolded(g)
  BY <1>8, Zenon
<1>10. \A n : Bytes(n) = g[n]
  BY DEF Bytes, N, len
<1> HIDE DEF g
<1>11. g[0] = 0 /\ \A i \in 1 .. N : g[i] = g[i - 1] + len(i)
  BY <1>1, <1>9
<1> DEFINE Bad == {i \in 0 .. N : g[i] \notin Nat}
<1>12. ASSUME Bad # {}
       PROVE  FALSE
  <2>1. PICK n \in Bad : \A m \in Bad : n <= m
    <3>1. Bad \subseteq Nat
      BY <1>1
    <3> HIDE DEF Bad
    <3> QED
      BY <1>12, <3>1, Smallest, Zenon
  <2>2. n \in 1 .. N
    BY <2>1, <1>1, <1>11
  <2>3. n - 1 \in 0 .. N /\ ~ (n <= n - 1)
    BY <2>2, <1>1
  <2>4. g[n - 1] \in Nat
    BY <2>1, <2>3
  <2> QED
    BY <2>1, <2>2, <2>4, <1>2, <1>11
<1> QED
  BY <1>10, <1>11, <1>12 DEF N, len

\* The bytes of what a Store keeps are those it held before, and the new payload's.
LEMMA BytesMoved ==
  ASSUME RingInv, RingInv', NEW len \in Nat, NEW e, Moved(e, len)
  PROVE  Bytes(count)' = Bytes(count) - Bytes(e) + len
<1>c. PICK c : c = count'
  OBVIOUS
<1> DEFINE old(i) == entries[Slot(i - 1)].len
           new(i) == entries'[Slot(i - 1)'].len
           New(i) == Bytes(i)'
           Old(i) == Bytes(i)
<1>1. /\ Old(0) = 0
      /\ \A i \in 1 .. count : Old(i) = Old(i - 1) + old(i)
      /\ \A i \in 0 .. count : Old(i) \in Nat
  BY BytesSum
<1>2. (/\ Bytes(0) = 0
       /\ \A i \in 1 .. count : Bytes(i) = Bytes(i - 1) + entries[Slot(i - 1)].len
       /\ \A i \in 0 .. count : Bytes(i) \in Nat)'
  BY BytesSum, PTL
<1>3. /\ New(0) = 0
      /\ \A i \in 1 .. c : New(i) = New(i - 1) + new(i)
      /\ \A i \in 0 .. c : New(i) \in Nat
  BY <1>2, <1>c
<1>4. /\ count \in Nat /\ e \in Nat /\ e <= count /\ c = count - e + 1 /\ head \in Slots
      /\ entries \in [Slots -> Entry]
  BY <1>c, BufferAssumption DEF RingInv, Moved
<1>5. ASSUME NEW i \in 1 .. c - 1
      PROVE  new(i) = old(e + i)
  <2>1. /\ i - 1 \in 0 .. c - 1 /\ i - 1 # c - 1
        /\ e + (i - 1) \in e .. count - 1 /\ e + (i - 1) = e + i - 1
    BY <1>4
  <2>2. Slot(i - 1)' = Slot(e + (i - 1))
    BY <2>1, <1>c DEF Moved
  <2>3. entries'[Slot(e + (i - 1))] = entries[Slot(e + (i - 1))]
    BY <2>1 DEF Moved
  <2>4. old(e + i) = entries[Slot(e + (i - 1))].len
    <3>1. (e + i) - 1 = e + (i - 1)
      BY <1>4
    <3> QED
      BY <3>1, Zenon
  <2> QED
    BY <2>2, <2>3, <2>4
<1>6. new(c) = len
  <2>1. c - 1 \in 0 .. c - 1 /\ Slot(c - 1)' = head
    BY <1>4, <1>c DEF Moved
  <2>2. entries'[head] = [seq |-> seq + 1, len |-> len]
    BY <1>4 DEF Moved
  <2> QED
    BY <2>1, <2>2
<1> HIDE DEF old, new, New, Old
<1> DEFINE Bad == {i \in 0 .. c - 1 : New(i) # Old(e + i) - Old(e)}
<1>7. ASSUME Bad # {}
      PROVE  FALSE
  <2>1. PICK n \in Bad : \A m \in Bad : n <= m
    <3>1. Bad \subseteq Nat
      BY <1>4
    <3> HIDE DEF Bad
    <3> QED
      BY <1>7, <3>1, Smallest, Zenon
  <2>2. n \in 0 .. c - 1 /\ New(n) # Old(e + n) - Old(e)
    BY <2>1
  <2>3. n # 0
    <3>1. e + 0 = e /\ e \in 0 .. count
      BY <1>4
    <3>2. Old(e) \in Nat /\ Old(e) - Old(e) = 0
      BY <3>1, <1>1
    <3> QED
      BY <2>2, <3>1, <3>2, <1>3
  <2>4. /\ n \in 1 .. c - 1 /\ n \in 1 .. c /\ n - 1 \in 0 .. c - 1 /\ ~ (n <= n - 1)
        /\ e + n \in 1 .. count /\ e + n - 1 \in 0 .. count /\ e + (n - 1) = e + n - 1
        /\ e \in 0 .. count /\ n - 1 \in 0 .. c
    BY <2>2, <2>3, <1>4
  <2>5. New(n - 1) = Old(e + n - 1) - Old(e)
    BY <2>1, <2>4
  <2>6. New(n) = New(n - 1) + new(n) /\ Old(e + n) = Old(e + n - 1) + old(e + n)
    BY <2>4, <1>1, <1>3
  <2>7. new(n) = old(e + n)
    BY <2>4, <1>5
  <2>8. Old(e) \in Nat /\ Old(e + n) \in Nat /\ Old(e + n - 1) \in Nat
    BY <2>4, <1>1
  <2>9. old(e + n) = Old(e + n) - Old(e + n - 1)
    <3>1. old(e + n) \in Int
      <4>1. \A j \in 1 .. count : old(j) \in Nat
        <5>1. \A j \in 1 .. count : j - 1 \in 0 .. count - 1
          BY <1>4
        <5> QED
          BY <5>1, SlotIn DEF Entry, old
      <4> QED
        BY <4>1, <2>4
    <3> QED
      BY <3>1, <2>6, <2>8
  <2> QED
    BY <2>2, <2>5, <2>6, <2>7, <2>8, <2>9
<1>8. New(c) = New(c - 1) + len /\ New(c - 1) = Old(count) - Old(e)
  <2>1. c \in 1 .. c /\ c - 1 \in 0 .. c - 1 /\ e + (c - 1) = count
    BY <1>4
  <2> QED
    BY <2>1, <1>3, <1>6, <1>7
<1>9. Bytes(count)' = New(c)
  BY <1>c DEF New
<1> QED
  BY <1>8, <1>9 DEF Old

\* RingInv with the bytes.
BytesInv ==
  /\ size = Bytes(count)
  /\ \A i \in Slots \ Freed(count) : entries[i] = None
  /\ size <= MaxSize \/ count = 1

\* Store keeps the account, and evicts no more than it must.
LEMMA StoreAccounts ==
  ASSUME RingInv, BytesInv, NEW len \in Nat, Store(len)
  PROVE  /\ BytesInv'
         /\ Gone > 0 => size' + entries[Slot(Gone - 1)].len > MaxSize \/ count' = Capacity
<1>r. RingInv'
  BY StoreStep
<1>1. PICK n \in 0 .. count :
        Moved(Evicted(n), len) /\ EvictsForBytes(n, len) /\ size' = SizeAfter(Evicted(n), len)
  BY StoreMoves DEF Store
<1>e. PICK e : e = Evicted(n)
  OBVIOUS
<1>2. /\ Capacity \in Nat \ {0} /\ MaxSize \in Nat /\ count \in Nat /\ count <= Capacity
      /\ e \in 0 .. count /\ e \in {n, n + 1}
      /\ e # n => count - n >= Capacity
      /\ count' = count - e + 1
      /\ n = count => e = n
  BY <1>1, <1>e, BufferAssumption DEF RingInv, Evicted, Moved
<1>3. /\ \A i \in 1 .. count : Bytes(i) = Bytes(i - 1) + entries[Slot(i - 1)].len
      /\ \A i \in 0 .. count : Bytes(i) \in Nat
  BY BytesSum
<1>4. \A i \in 1 .. count : entries[Slot(i - 1)].len \in Nat
  <2>1. \A i \in 1 .. count : i - 1 \in 0 .. count - 1
    BY <1>2
  <2> QED
    BY <2>1, SlotIn DEF Entry
<1>5. size' = size - Bytes(e) + len /\ size = Bytes(count)
  BY <1>1, <1>e DEF SizeAfter, BytesInv
<1>6. /\ n = count \/ size - Bytes(n) + len <= MaxSize
      /\ \A m \in 0 .. n - 1 : size - Bytes(m) + len > MaxSize
  BY <1>1 DEF EvictsForBytes
<1>m. Moved(e, len)
  BY <1>1, <1>e
<1>c. PICK c : c = count'
  OBVIOUS
<1>7. size' = Bytes(count)'
  BY <1>5, <1>m, <1>r, BytesMoved
<1>8. size' <= MaxSize \/ count' = 1
  <2>1. CASE e = n
    BY <2>1, <1>2, <1>5, <1>6
  <2>2. CASE e = n + 1
    <3>1. n + 1 \in 1 .. count /\ n \in 0 .. count /\ n # count /\ count \in 0 .. count
      BY <2>2, <1>2
    <3>2. /\ Bytes(n + 1) = Bytes(n) + entries[Slot(n)].len
          /\ entries[Slot(n)].len \in Nat /\ Bytes(n) \in Nat /\ size \in Nat
      <4>1. (n + 1) - 1 = n
        BY <1>2
      <4> QED
        BY <4>1, <3>1, <1>3, <1>4, <1>5
    <3> QED
      BY <2>2, <3>1, <3>2, <1>2, <1>5, <1>6
  <2> QED
    BY <1>2, <2>1, <2>2
<1>9. ASSUME NEW s \in Slots, s \notin Freed(count)'
      PROVE  entries'[s] = None
  <2>1. s # head
    <3>1. c - 1 \in 0 .. c - 1 /\ Slot(c - 1)' = head
      BY <1>2, <1>c, <1>m DEF Moved
    <3> QED
      BY <1>9, <1>c, <3>1 DEF Freed
  <2>2. ASSUME NEW j \in e .. count - 1
        PROVE  s # Slot(j)
    <3>0. PICK k : k = j - e
      OBVIOUS
    <3>1. /\ k \in 0 .. c - 1 /\ k # c - 1 /\ e + k = j
      BY <1>2, <1>c, <3>0
    <3>2. Slot(k)' = Slot(j)
      BY <3>1, <1>c, <1>m DEF Moved
    <3> QED
      BY <1>9, <1>c, <3>1, <3>2 DEF Freed
  <2>3. CASE s \in Freed(e)
    BY <2>1, <2>3, <1>m DEF Moved
  <2>4. CASE s \notin Freed(e)
    <3>1. \A j \in 0 .. count - 1 : j \in 0 .. e - 1 \/ j \in e .. count - 1
      BY <1>2
    <3>2. s \notin Freed(count)
      BY <2>2, <2>4, <3>1 DEF Freed
    <3> QED
      BY <2>1, <2>4, <3>2, <1>m DEF Moved, BytesInv
  <2> QED
    BY <2>3, <2>4
<1>10. BytesInv'
  BY <1>7, <1>8, <1>9 DEF BytesInv
<1>11. ASSUME Gone > 0, count' # Capacity
       PROVE  size' + entries[Slot(Gone - 1)].len > MaxSize
  <2>1. Gone = e
    BY <1>2 DEF Gone
  <2>2. e = n /\ n \in 1 .. count /\ n - 1 \in 0 .. n - 1 /\ n - 1 \in 0 .. count /\ count \in 0 .. count
    BY <2>1, <1>2, <1>11
  <2>3. /\ Bytes(n) = Bytes(n - 1) + entries[Slot(n - 1)].len
        /\ Bytes(n) \in Nat /\ Bytes(n - 1) \in Nat /\ size \in Nat
        /\ entries[Slot(n - 1)].len \in Nat
    BY <2>2, <1>3, <1>4, <1>5
  <2>4. size - Bytes(n - 1) + len > MaxSize
    BY <2>2, <1>6
  <2>5. size' + entries[Slot(n - 1)].len = size - Bytes(n - 1) + len
    BY <2>2, <2>3, <1>5
  <2> QED
    BY <2>1, <2>2, <2>4, <2>5
<1> QED
  BY <1>10, <1>11

\* The bytes in every reachable state.
LEMMA BytesAlways == Spec => []BytesInv
<1>1. Init => BytesInv
  <2> SUFFICES ASSUME Init PROVE BytesInv
    OBVIOUS
  <2>1. RingInv
    BY RingInit
  <2>2. Bytes(count) = 0
    BY <2>1, BytesSum DEF Init
  <2> QED
    BY <2>2, BufferAssumption DEF Init, BytesInv
<1>2. RingInv /\ BytesInv /\ [Next]_vars => BytesInv'
  <2> SUFFICES ASSUME RingInv, BytesInv, [Next]_vars PROVE BytesInv'
    OBVIOUS
  <2>1. CASE \E len \in Lens : Store(len)
    BY <2>1, StoreAccounts, BufferAssumption
  <2>2. CASE UNCHANGED vars
    BY <2>2 DEF vars, BytesInv, Bytes, Freed, Slot, Oldest
  <2> QED
    BY <2>1, <2>2 DEF Next, Done
<1> QED
  BY <1>1, <1>2, RingAlways, PTL DEF Spec

\* size is the payloads held, released slots are empty, and the byte limit holds.
THEOREM RingAccounted == Spec => []Accounted
<1>1. RingInv /\ BytesInv => Accounted
  <2> SUFFICES ASSUME RingInv, BytesInv PROVE Accounted
    OBVIOUS
  <2>1. count \in 0 .. count
    BY BufferAssumption DEF RingInv
  <2>2. size \in Nat
    BY <2>1, BytesSum DEF BytesInv
  <2> QED
    BY <2>2 DEF RingInv, BytesInv, Accounted, TypeOK
<1> QED
  BY <1>1, RingAlways, BytesAlways, PTL

\* Store evicts no entry that it could have kept.
THEOREM RingEvictsNoMore == Spec => EvictsNoMore
<1>1. RingInv /\ BytesInv /\ [Next]_vars =>
        [seq' # seq /\ Gone > 0 =>
           \/ size' + entries[Slot(Gone - 1)].len > MaxSize
           \/ count' = Capacity]_vars
  <2> SUFFICES ASSUME RingInv, BytesInv, [Next]_vars, seq' # seq, Gone > 0
               PROVE  \/ size' + entries[Slot(Gone - 1)].len > MaxSize
                      \/ count' = Capacity
    OBVIOUS
  <2>1. PICK len \in Lens : Store(len)
    BY DEF Next, Done, vars
  <2> QED
    BY <2>1, StoreAccounts, BufferAssumption
<1> QED
  BY <1>1, RingAlways, BytesAlways, PTL DEF Spec, EvictsNoMore

\* An interval grows at its end.
LEMMA IntervalGrows ==
  ASSUME NEW lo \in Nat, NEW hi \in Nat
  PROVE  /\ Log!Interval(lo, hi) \in Seq(Nat)
         /\ hi < lo => Log!Interval(lo, hi) = <<>>
         /\ lo <= hi /\ hi > 0 =>
              Log!Interval(lo, hi) = Append(Log!Interval(lo, hi - 1), hi)
<1> DEFINE n == IF lo <= hi THEN hi - lo + 1 ELSE 0
<1>1. n \in Nat /\ \A i \in 1 .. n : lo + i - 1 \in Nat
  OBVIOUS
<1>2. Log!Interval(lo, hi) = [i \in 1 .. n |-> lo + i - 1]
  BY DEF Log!Interval
<1>3. Log!Interval(lo, hi) \in Seq(Nat)
  BY <1>1, <1>2
<1>4. hi < lo => Log!Interval(lo, hi) = <<>>
  BY <1>2
<1>5. ASSUME lo <= hi, hi > 0
      PROVE  Log!Interval(lo, hi) = Append(Log!Interval(lo, hi - 1), hi)
  <2> DEFINE m == hi - lo
             s == [i \in 1 .. m |-> lo + i - 1]
             t == [i \in 1 .. m + 1 |-> lo + i - 1]
  <2>1. m \in Nat /\ m + 1 = n /\ lo + (m + 1) - 1 = hi
    BY <1>5
  <2>2. Log!Interval(lo, hi - 1) = s
    <3>1. (IF lo <= hi - 1 THEN (hi - 1) - lo + 1 ELSE 0) = m
      BY <1>5
    <3> QED
      BY <3>1 DEF Log!Interval
  <2>3. Log!Interval(lo, hi) = t
    BY <1>2, <2>1
  <2>4. s \in Seq(Nat) /\ Len(s) = m /\ t \in Seq(Nat) /\ Len(t) = m + 1
    BY <2>1
  <2>5. Append(s, hi) \in Seq(Nat) /\ Len(Append(s, hi)) = m + 1
    <3> HIDE DEF s, t, m
    <3> QED
      BY <2>4
  <2>6. ASSUME NEW i \in 1 .. m + 1
        PROVE  t[i] = Append(s, hi)[i]
    <3>1. CASE i = m + 1
      BY <3>1, <2>1, <2>4
    <3>2. CASE i # m + 1
      <4>1. i \in 1 .. m
        BY <3>2, <2>1
      <4> QED
        BY <4>1, <2>4
    <3> QED
      BY <3>1, <3>2
  <2> HIDE DEF s, t, m
  <2>7. t = Append(s, hi)
    BY <2>4, <2>5, <2>6, SeqSame
  <2> QED
    BY <2>2, <2>3, <2>7
<1> QED
  BY <1>3, <1>4, <1>5

\* The loop of ReplaySince.
LEMMA ReplayLoop ==
  ASSUME RingInv, NEW afterSeq \in Nat
  PROVE  ReplaySince(afterSeq) = Log!ReplaySince(seq - count + 1, seq, afterSeq)
<1> DEFINE N == count
           o == seq - count + 1
           lo == IF afterSeq + 1 > o THEN afterSeq + 1 ELSE o
           num(i) == entries[Slot(i - 1)].seq
           Take(r, i) == IF num(i) > afterSeq THEN Append(r, num(i)) ELSE r
           Unfolded(f) == [i \in 0 .. N |-> IF i = 0 THEN <<>> ELSE Take(f[i - 1], i)]
           Body == [i \in 1 .. N |-> [r \in Seq(Nat) |-> Take(r, i)]]
<1>1. N \in Nat /\ N <= seq /\ seq \in Nat /\ o \in Nat /\ o = seq - N + 1 /\ o > 0
      /\ lo \in Nat /\ lo >= o
  BY BufferAssumption DEF RingInv
<1>2. \A i \in 1 .. N : num(i) = seq - N + i
  <2>1. \A i \in 1 .. N : i - 1 \in 0 .. count - 1 /\ seq - N + i = seq - count + 1 + (i - 1)
    BY <1>1
  <2> QED
    BY <2>1 DEF RingInv, Contents
<1>3. \A i \in 1 .. N : num(i) \in Nat
  BY <1>1, <1>2
<1> HIDE DEF N, num, o, lo
<1>4. ASSUME NEW i \in 1 .. N, NEW r \in Seq(Nat)
      PROVE  Take(r, i) \in Seq(Nat)
  <2>1. num(i) \in Nat
    BY <1>3
  <2> QED
    BY <2>1
<1>5. Body \in [1 .. N -> [Seq(Nat) -> Seq(Nat)]] /\ <<>> \in Seq(Nat)
  BY <1>4
<1>6. \A i \in 1 .. N : \A r \in Seq(Nat) : Body[i][r] = Take(r, i)
  OBVIOUS
<1> HIDE DEF Body, Take
<1>7. PICK f : IsRun(f, N, Seq(Nat), <<>>, Body)
  BY <1>1, <1>5, LoopRuns, Zenon
<1>8. f \in [0 .. N -> Seq(Nat)] /\ f[0] = <<>> /\ \A i \in 1 .. N : f[i] = Body[i][f[i - 1]]
  BY <1>7 DEF IsRun
<1>9. ASSUME NEW i \in 0 .. N, i # 0
      PROVE  f[i] = Take(f[i - 1], i)
  <2>1. i \in 1 .. N /\ i - 1 \in 0 .. N
    BY <1>1, <1>9
  <2>2. f[i - 1] \in Seq(Nat)
    BY <2>1, <1>8
  <2> QED
    BY <2>1, <2>2, <1>6, <1>8
<1>10. f = Unfolded(f)
  BY <1>8, <1>9
<1> DEFINE g == CHOOSE h : h = Unfolded(h)
<1>11. g = Unfolded(g)
  BY <1>10, Zenon
<1>12. ReplaySince(afterSeq) = g[N]
  BY DEF ReplaySince, N, num, Take
<1> HIDE DEF g
<1>13. g[0] = <<>> /\ \A i \in 1 .. N : g[i] = Take(g[i - 1], i)
  BY <1>1, <1>11
<1> DEFINE Bad == {i \in 0 .. N : g[i] # Log!Interval(lo, seq - N + i)}
<1>14. ASSUME Bad # {}
       PROVE  FALSE
  <2>1. PICK n \in Bad : \A m \in Bad : n <= m
    <3>1. Bad \subseteq Nat
      BY <1>1
    <3> HIDE DEF Bad
    <3> QED
      BY <1>14, <3>1, Smallest, Zenon
  <2>2. n \in 0 .. N /\ g[n] # Log!Interval(lo, seq - N + n)
    BY <2>1
  <2>3. n # 0
    <3>1. seq - N + 0 \in Nat /\ seq - N + 0 < lo
      BY <1>1
    <3>2. Log!Interval(lo, seq - N + 0) = <<>>
      BY <3>1, <1>1, IntervalGrows
    <3> QED
      BY <3>2, <2>2, <1>13
  <2>4. n \in 1 .. N /\ n - 1 \in 0 .. N /\ ~ (n <= n - 1)
    BY <2>2, <2>3, <1>1
  <2> DEFINE hi == seq - N + n
  <2>5. /\ hi \in Nat /\ hi > 0 /\ hi - 1 \in Nat /\ seq - N + (n - 1) = hi - 1
        /\ hi >= o
    BY <2>4, <1>1
  <2>6. g[n - 1] = Log!Interval(lo, hi - 1)
    BY <2>1, <2>4, <2>5
  <2>7. num(n) = hi /\ g[n] = Take(g[n - 1], n)
    BY <2>4, <1>2, <1>13
  <2> HIDE DEF hi
  <2>8. CASE hi > afterSeq
    <3>1. lo <= hi
      BY <2>5, <2>8, <1>1 DEF lo
    <3>2. Log!Interval(lo, hi) = Append(Log!Interval(lo, hi - 1), hi)
      BY <3>1, <2>5, <1>1, IntervalGrows, Zenon
    <3>3. g[n] = Append(g[n - 1], hi)
      BY <2>7, <2>8 DEF Take
    <3> QED
      BY <3>2, <3>3, <2>2, <2>6 DEF hi
  <2>9. CASE ~ (hi > afterSeq)
    <3>1. hi < lo /\ hi - 1 < lo
      BY <2>5, <2>9, <1>1 DEF lo
    <3>2. Log!Interval(lo, hi) = <<>> /\ Log!Interval(lo, hi - 1) = <<>>
      BY <3>1, <2>5, <1>1, IntervalGrows, Zenon
    <3>3. g[n] = g[n - 1]
      BY <2>7, <2>9 DEF Take
    <3> QED
      BY <3>2, <3>3, <2>2, <2>6 DEF hi
  <2> QED
    BY <2>8, <2>9
<1>15. g[N] = Log!Interval(lo, seq)
  <2>1. N \in 0 .. N /\ seq - N + N = seq
    BY <1>1
  <2> QED
    BY <2>1, <1>14
<1> QED
  BY <1>12, <1>15 DEF Log!ReplaySince, lo, o

\* A replay is what the log promises, at every point where a peer may stand.
THEOREM RingReplays == Spec => []ReplayExact
<1>1. RingInv => ReplayExact
  <2> SUFFICES ASSUME RingInv, NEW afterSeq \in 0 .. seq + 1
               PROVE  ReplaySince(afterSeq) = Log!ReplaySince(seq - count + 1, seq, afterSeq)
    BY DEF ReplayExact
  <2>1. afterSeq \in Nat
    BY DEF RingInv
  <2> QED
    BY <2>1, ReplayLoop
<1> QED
  BY <1>1, RingAlways, PTL

-----------------------------------------------------------------------------
(* The terminal.                                                           *)

\* What the proofs need to know of the largest 16-bit number.
LEMMA U16 == MaxUint16 \in Nat /\ MaxUint16 > 14
BY DEF MaxUint16

\* A bounce gives a size that 16 bits can hold, and a smaller one if it can.
LEMMA BounceShrinks ==
  ASSUME NEW rows \in 0 .. MaxUint16
  PROVE  /\ Bounced(rows) \in 0 .. MaxUint16
         /\ Bounced(rows) = IF rows <= 1 THEN rows ELSE rows - 1
<1>1. rows \in Nat /\ rows <= MaxUint16 /\ MaxUint16 \in Nat
  BY U16
<1>2. rows > 1 => (rows - 1) % (MaxUint16 + 1) = rows - 1
  BY <1>1
<1> QED
  BY <1>1, <1>2 DEF Bounced

\* Every step keeps the types: the PTY's rows stay within 16 bits.
LEMMA TerminalTypeStep == TerminalTypeOK /\ [TerminalNext]_terminalVars => TerminalTypeOK'
<1> SUFFICES ASSUME TerminalTypeOK, [TerminalNext]_terminalVars PROVE TerminalTypeOK'
  OBVIOUS
<1>s. resizes \in Seq(Rows) /\ win \in Rows /\ Rows \subseteq 0 .. MaxUint16
  BY TerminalAssumption DEF TerminalTypeOK
<1> USE TerminalAssumption, U16
<1>1. CASE WindowChange
  BY <1>1 DEF WindowChange, TerminalTypeOK
<1>2. CASE Lost
  <2>1. resizes' \in Seq(Rows)
    <3>1. \A n \in 0 .. Len(resizes) : SubSeq(resizes, 1, n) \in Seq(Rows)
      BY <1>s
    <3> QED
      BY <3>1, <1>2 DEF Lost
  <2>2. info' \subseteq [n : 0 .. MaxUint16, term : Terms]
    BY <1>2 DEF Lost, TerminalTypeOK
  <2>3. losses' \in 0 .. MaxLosses
    BY <1>2 DEF Lost, TerminalTypeOK
  <2> QED
    BY <1>2, <2>1, <2>2, <2>3, Zenon DEF Lost, TerminalTypeOK
<1>3. CASE ClientExits
  BY <1>3, Zenon DEF ClientExits, TerminalTypeOK
<1>4. CASE Dial
  BY <1>4 DEF Dial, TerminalTypeOK
<1>5. CASE SendTerminalInfo
  <2>1. info' \subseteq [n : 0 .. MaxUint16, term : Terms]
    <3>1. term \in Terms /\ term.len \in Nat
      BY Zenon DEF TerminalTypeOK, Terms
    <3>2. term.len <= MaxUint16 =>
            [n |-> term.len, term |-> term] \in [n : 0 .. MaxUint16, term : Terms]
      BY <3>1
    <3> QED
      BY <3>1, <3>2, <1>5 DEF SendTerminalInfo, EncodeTerminalInfo
  <2> QED
    BY <1>5, <2>1 DEF SendTerminalInfo, TerminalTypeOK
<1>6. CASE MakeRaw
  <2>1. raw' \in BOOLEAN /\ client' \in {"resize", "exited"}
    BY <1>6, Zenon DEF MakeRaw, TerminalTypeOK
  <2> QED
    BY <1>6, <2>1 DEF MakeRaw, TerminalTypeOK
<1>a. ASSUME SendResize
      PROVE  resizes' \in Seq(Rows) /\ gap' \in BOOLEAN
  <2>1. Append(resizes, win) \in Seq(Rows)
    BY <1>s
  <2> QED
    BY <1>a, <1>s, <2>1, Zenon DEF SendResize
<1>7. CASE FirstResize
  BY <1>7, <1>a DEF FirstResize, TerminalTypeOK
<1>8. CASE Notify
  BY <1>8 DEF Notify, TerminalTypeOK
<1>9. CASE Sigwinch
  BY <1>9, <1>a, Zenon DEF Sigwinch, TerminalTypeOK
<1>10. CASE ReadInfo
  <2>1. PICK p \in info : \E t \in DecodeTerminalInfo(p) :
          /\ shellTerm' = IF spawned THEN shellTerm ELSE SanitizeTerm(t)
          /\ \/ /\ session' = "serve" /\ losses' = losses
                /\ pty' = Bounced(IF spawned THEN pty ELSE SpawnRows)
             \/ Broken /\ session' = "none" /\ pty' = IF spawned THEN pty ELSE SpawnRows
    BY <1>10 DEF ReadInfo
  <2>2. \A t \in DecodeTerminalInfo(p) : t \in Terms
    BY DEF TerminalTypeOK, DecodeTerminalInfo
  <2>3. shellTerm' \in Terms \cup {NoTerm, Fallback}
    BY <2>1, <2>2 DEF TerminalTypeOK, SanitizeTerm
  <2>4. session' \in {"none", "serve"} /\ losses' \in 0 .. MaxLosses
    BY <2>1 DEF TerminalTypeOK, Broken
  <2>5. pty' \in 0 .. MaxUint16
    <3>1. (IF spawned THEN pty ELSE SpawnRows) \in 0 .. MaxUint16
      BY DEF TerminalTypeOK
    <3> QED
      BY <2>1, <3>1, BounceShrinks
  <2> QED
    BY <1>10, <2>3, <2>4, <2>5 DEF ReadInfo, TerminalTypeOK
<1>11. CASE SessionDies
  BY <1>11 DEF SessionDies, TerminalTypeOK
<1>12. CASE SessionCloses
  BY <1>12 DEF SessionCloses, Broken, TerminalTypeOK
<1>13. CASE Resize
  <2>1. Head(resizes) \in Rows /\ Tail(resizes) \in Seq(Rows)
    BY <1>13, <1>s DEF Resize
  <2> QED
    BY <1>13, <1>s, <2>1, Zenon DEF Resize, TerminalTypeOK
<1>14. CASE UNCHANGED terminalVars
  BY <1>14 DEF terminalVars, TerminalTypeOK
<1> QED
  BY <1>1, <1>2, <1>3, <1>4, <1>5, <1>6, <1>7, <1>8, <1>9, <1>10, <1>11, <1>12, <1>13,
     <1>14 DEF TerminalNext, ClientStep, SessionStep

\* The size last sent is that of the window, or the client is about to send it:
\* a change it did not hear of sets gap.
SizeInv ==
  isTty /\ ~notified /\ ~gap /\ client \in {"notify", "loop"} /\ session \in {"info", "serve"} =>
    IF resizes = <<>> THEN session = "serve" /\ pty = win ELSE resizes[Len(resizes)] = win

\* Until a connection's first Resize the PTY is smaller than that of the last
\* Resize applied, if it can be.
BounceInv ==
  /\ pty <= last
  /\ session = "serve" => spawned
  /\ ~spawned => last = SpawnRows
  /\ fresh /\ session = "serve" /\ last > 1 => pty < last

\* The inductive invariant of the terminal.
TerminalInv ==
  TerminalTypeOK /\ SizeInv /\ RawOnlyConnected /\ BounceInv

\* TerminalInv is inductive.
LEMMA TerminalStep == TerminalInv /\ [TerminalNext]_terminalVars => TerminalInv'
<1> SUFFICES ASSUME TerminalInv, [TerminalNext]_terminalVars PROVE TerminalInv'
  OBVIOUS
<1>t. TerminalTypeOK /\ TerminalTypeOK'
  BY TerminalTypeStep DEF TerminalInv
<1>s. /\ resizes \in Seq(Rows) /\ win \in Rows /\ Rows \subseteq Nat
      /\ pty \in Nat /\ pty \in 0 .. MaxUint16 /\ last \in Nat
      /\ SpawnRows \in Nat /\ SpawnRows \in 0 .. MaxUint16
  <2>1. Rows \subseteq Nat /\ SpawnRows \in Nat /\ SpawnRows \in 0 .. MaxUint16
    BY TerminalAssumption, U16
  <2>2. pty \in 0 .. MaxUint16 /\ last \in Rows \cup {SpawnRows}
    BY <1>t DEF TerminalTypeOK
  <2> QED
    BY <1>t, <2>1, <2>2, U16 DEF TerminalTypeOK
\* Sending the size of the window, whatever was under way.
<1>a. ASSUME SendResize, UNCHANGED <<isTty, win, session>>
      PROVE  SizeInv'
  <2>1. Append(resizes, win) # <<>> /\ Append(resizes, win)[Len(Append(resizes, win))] = win
    BY <1>s
  <2>2. isTty => resizes' = Append(resizes, win)
    BY <1>a DEF SendResize
  <2> QED
    BY <1>a, <2>1, <2>2, Zenon DEF SizeInv
<1>b. SizeInv'
  <2>1. CASE WindowChange
    BY <2>1, Zenon DEF WindowChange, SizeInv, TerminalInv
  <2>2. CASE FirstResize \/ Sigwinch
    BY <2>2, <1>a DEF FirstResize, Sigwinch
  <2>3. CASE Notify
    BY <2>3 DEF Notify, SizeInv, TerminalInv
  <2>4. CASE ReadInfo
    BY <2>4 DEF ReadInfo, SizeInv, TerminalInv
  <2>5. CASE Resize
    <3>1. resizes # <<>> /\ resizes' = Tail(resizes) /\ pty' = Head(resizes)
      BY <2>5 DEF Resize
    <3>a. Len(resizes) = 1 \/ Len(resizes) > 1
      <4>1. Len(resizes) \in Nat /\ Len(resizes) # 0
        BY <1>s, <3>1
      <4> QED
        BY <4>1
    <3>2. CASE Len(resizes) = 1
      <4>1. resizes' = <<>> /\ pty' = resizes[Len(resizes)]
        BY <1>s, <3>1, <3>2
      <4> QED
        BY <2>5, <3>1, <4>1 DEF Resize, SizeInv, TerminalInv
    <3>3. CASE Len(resizes) > 1
      <4>1. resizes' # <<>> /\ resizes'[Len(resizes')] = resizes[Len(resizes)]
        <5>1. /\ Tail(resizes) \in Seq(Rows) /\ Len(Tail(resizes)) = Len(resizes) - 1
              /\ \A i \in 1 .. Len(resizes) - 1 : Tail(resizes)[i] = resizes[i + 1]
          BY <1>s, <3>1
        <5>2. Len(resizes) \in Nat
          BY <1>s
        <5>3. Len(resizes') # 0 /\ resizes'[Len(resizes')] = resizes[Len(resizes)]
          BY <5>1, <5>2, <3>1, <3>3
        <5> QED
          BY <5>3
      <4> QED
        BY <2>5, <3>1, <4>1 DEF Resize, SizeInv, TerminalInv
    <3> QED
      BY <3>a, <3>2, <3>3
  <2>6. CASE SessionDies \/ SessionCloses
    BY <2>6, Zenon DEF SessionDies, SessionCloses, SizeInv
  <2>7. CASE Lost \/ ClientExits \/ Dial \/ SendTerminalInfo \/ MakeRaw
    BY <2>7, Zenon DEF Lost, ClientExits, Dial, SendTerminalInfo, MakeRaw, SizeInv
  <2>8. CASE UNCHANGED terminalVars
    BY <2>8 DEF terminalVars, SizeInv, TerminalInv
  <2> QED
    BY <2>1, <2>2, <2>3, <2>4, <2>5, <2>6, <2>7, <2>8
       DEF TerminalNext, ClientStep, SessionStep
<1>c. RawOnlyConnected'
  <2> USE DEF TerminalInv, RawOnlyConnected
  <2>1. CASE WindowChange \/ Lost \/ ClientExits
    BY <2>1, Zenon DEF WindowChange, Lost, ClientExits
  <2>2. CASE ClientStep
    BY <2>2, Zenon DEF ClientStep, Dial, SendTerminalInfo, MakeRaw, FirstResize, Notify,
       Sigwinch
  <2>3. CASE SessionStep \/ UNCHANGED terminalVars
    BY <2>3, Zenon DEF SessionStep, ReadInfo, SessionDies, SessionCloses, Resize,
       terminalVars
  <2> QED
    BY <2>1, <2>2, <2>3 DEF TerminalNext
<1>d. BounceInv'
  <2> USE DEF TerminalInv, BounceInv
  <2>1. CASE WindowChange \/ Lost \/ ClientExits
    BY <2>1 DEF WindowChange, Lost, ClientExits
  <2>2. CASE ClientStep
    BY <2>2 DEF ClientStep, Dial, SendTerminalInfo, MakeRaw, FirstResize, Notify, Sigwinch
  <2>3. CASE ReadInfo
    <3> DEFINE rows == IF spawned THEN pty ELSE SpawnRows
    <3>1. rows \in 0 .. MaxUint16 /\ rows \in Nat /\ rows <= last
      BY <1>s
    <3>2. Bounced(rows) = IF rows <= 1 THEN rows ELSE rows - 1
      BY <3>1, BounceShrinks
    <3>3. /\ last' = last /\ spawned' = TRUE
          /\ (session' = "serve" /\ pty' = Bounced(rows)) \/ (session' = "none" /\ pty' = rows)
      BY <2>3, Zenon DEF ReadInfo
    <3> HIDE DEF rows
    <3> QED
      BY <1>s, <3>1, <3>2, <3>3
  <2>4. CASE SessionDies \/ SessionCloses
    BY <2>4 DEF SessionDies, SessionCloses
  <2>5. CASE Resize
    BY <2>5, <1>t, TerminalAssumption DEF Resize, TerminalTypeOK
  <2>6. CASE UNCHANGED terminalVars
    BY <2>6 DEF terminalVars
  <2> QED
    BY <2>1, <2>2, <2>3, <2>4, <2>5, <2>6 DEF TerminalNext, SessionStep
<1> QED
  BY <1>t, <1>b, <1>c, <1>d DEF TerminalInv

\* TerminalInv holds from the start.
LEMMA TerminalStart == TerminalInit => TerminalInv
<1> SUFFICES ASSUME TerminalInit PROVE TerminalInv
  OBVIOUS
<1>1. TerminalTypeOK
  <2>1. <<>> \in Seq(Rows) /\ {} \subseteq [n : 0 .. MaxUint16, term : Terms]
    OBVIOUS
  <2>2. 0 \in 0 .. MaxUint16 /\ 0 \in 0 .. MaxChanges /\ 0 \in 0 .. MaxLosses
    BY TerminalAssumption, U16
  <2> QED
    BY <2>1, <2>2, Zenon DEF TerminalInit, TerminalTypeOK
<1>2. BounceInv
  BY TerminalAssumption, U16 DEF TerminalInit, BounceInv
<1> QED
  BY <1>1, <1>2 DEF TerminalInit, TerminalInv, SizeInv, RawOnlyConnected

\* Whatever connections are lost and whatever the window does, a connected client
\* with nothing under way shows the PTY at the size of its window, but for a
\* change between the first Resize and signal.Notify.
THEOREM TerminalSizes == TerminalSpec => []SizeCurrent
<1>1. TerminalInv => SizeCurrent
  BY DEF TerminalInv, SizeInv, SizeCurrent, Joined, Quiet
<1> QED
  BY TerminalStart, TerminalStep, <1>1, PTL DEF TerminalSpec

\* The user's terminal is raw on a connection only.
THEOREM TerminalRestored == TerminalSpec => []RawOnlyConnected
<1>1. TerminalInv => RawOnlyConnected
  BY DEF TerminalInv
<1> QED
  BY TerminalStart, TerminalStep, <1>1, PTL DEF TerminalSpec

\* The first Resize of a connection changes the size of the PTY, if the window has
\* kept a size of more than one row.
THEOREM TerminalRedraws == TerminalSpec => UnchangedWindowRedraws
<1>1. TerminalInv /\ [TerminalNext]_terminalVars =>
        [Resize /\ fresh /\ pty' = last /\ pty' > 1 => pty' # pty]_terminalVars
  <2> SUFFICES ASSUME TerminalInv, Resize, fresh, pty' = last, pty' > 1
               PROVE  pty' # pty
    BY DEF terminalVars
  <2>1. pty < last /\ pty \in Nat /\ last \in Nat
    BY TerminalAssumption, U16 DEF TerminalInv, BounceInv, TerminalTypeOK, Resize
  <2> QED
    BY <2>1
<1> QED
  BY TerminalStart, TerminalStep, <1>1, PTL DEF TerminalSpec, UnchangedWindowRedraws

=============================================================================

---------------------------- MODULE InputProofs -----------------------------
(***************************************************************************)
(* The client's input (ClientInput), whatever is typed and however it is   *)
(* cut into reads: the coalescer's deadline, and the escape processor      *)
(* against its reference.                                                  *)
(***************************************************************************)
EXTENDS ClientInput, WellFoundedInduction, FiniteSetTheorems, TLAPS

-----------------------------------------------------------------------------
(* Loops.                                                                  *)

\* A non-empty set of numbers has a smallest one.
LEMMA Smallest ==
  ASSUME NEW S, S \subseteq Nat, S # {}
  PROVE  \E n \in S : \A m \in S : n <= m
<1> DEFINE R == OpToRel(<, Nat)
<1>1. IsWellFoundedOn(R, Nat)
  BY NatLessThanWellFounded, Zenon
<1>2. \A m, n \in Nat : m < n => <<m, n>> \in R
  BY DEF OpToRel
<1> HIDE DEF R
<1>3. PICK n \in S : \A m \in S : ~ (<<m, n>> \in R)
  BY <1>1, WFMin, Zenon
<1>4. ASSUME NEW m \in S
      PROVE  n <= m
  <2>1. m \in Nat /\ n \in Nat
    OBVIOUS
  <2>2. ~ (m < n)
    BY <2>1, <1>2, <1>3, Zenon
  <2> QED
    BY <2>1, <2>2
<1> QED
  BY <1>4

\* f is the run of a loop: its states after 0, 1 ... N rounds.
IsRun(f, N, S, s0, Body) ==
  /\ f \in [0 .. N -> S]
  /\ f[0] = s0
  /\ \A i \in 1 .. N : f[i] = Body[i][f[i - 1]]

\* A loop has a run: from any start, and whatever its body does in each round, there is
\* the sequence of its states.
LEMMA LoopRuns ==
  ASSUME NEW N \in Nat, NEW S, NEW s0 \in S, NEW Body \in [1 .. N -> [S -> S]]
  PROVE  \E f : IsRun(f, N, S, s0, Body)
<1> DEFINE Runs(n) == {f \in [0 .. n -> S] : f[0] = s0 /\ \A i \in 1 .. n : f[i] = Body[i][f[i - 1]]}
           Bad == {n \in 0 .. N : Runs(n) = {}}
<1> HIDE DEF Runs
<1>1. ASSUME Bad # {}
      PROVE  FALSE
  <2>1. PICK n \in Bad : \A m \in Bad : n <= m
    <3>1. Bad \subseteq Nat
      OBVIOUS
    <3> HIDE DEF Bad
    <3> QED
      BY <1>1, <3>1, Smallest, Zenon
  <2>2. n \in 0 .. N /\ Runs(n) = {}
    BY <2>1
  <2>3. [i \in 0 .. 0 |-> s0] \in Runs(0)
    BY DEF Runs
  <2>4. n # 0
    BY <2>2, <2>3
  <2>5. n - 1 \in 0 .. N /\ n - 1 \notin Bad
    BY <2>1, <2>2, <2>4
  <2>6. PICK f \in [0 .. n - 1 -> S] : f[0] = s0 /\ \A i \in 1 .. n - 1 : f[i] = Body[i][f[i - 1]]
    BY <2>5 DEF Runs
  <2> DEFINE g == [i \in 0 .. n |-> IF i = n THEN Body[n][f[n - 1]] ELSE f[i]]
  <2>7. Body[n][f[n - 1]] \in S
    <3>1. n \in 1 .. N /\ n - 1 \in 0 .. n - 1
      BY <2>2, <2>4
    <3>2. f[n - 1] \in S
      BY <3>1, <2>6
    <3>3. Body[n] \in [S -> S]
      BY <3>1
    <3> QED
      BY <3>2, <3>3
  <2>8. g \in [0 .. n -> S]
    BY <2>2, <2>4, <2>6, <2>7
  <2>9. g[0] = s0
    BY <2>2, <2>4, <2>6
  <2>10. ASSUME NEW i \in 1 .. n
         PROVE  g[i] = Body[i][g[i - 1]]
    <3>1. n \in Nat /\ i \in Nat /\ i - 1 \in 0 .. n - 1 /\ i \in 0 .. n
      BY <2>2
    <3>2. g[i - 1] = f[i - 1]
      BY <3>1
    <3>3. CASE i = n
      BY <3>1, <3>2, <3>3
    <3>4. CASE i # n
      <4>1. i \in 1 .. n - 1
        BY <3>1, <3>4
      <4>2. g[i] = f[i]
        BY <3>1, <3>4
      <4> QED
        BY <4>1, <4>2, <3>2, <2>6
    <3> QED
      BY <3>3, <3>4
  <2>11. g \in Runs(n)
    BY <2>8, <2>9, <2>10, Zenon DEF Runs
  <2> QED
    BY <2>2, <2>11
<1>2. Runs(N) # {}
  BY <1>1
<1> QED
  BY <1>2 DEF Runs, IsRun

-----------------------------------------------------------------------------
(* The coalescer.                                                          *)

\* What a concatenation is.
LEMMA Concat ==
  ASSUME NEW S, NEW s \in Seq(S), NEW t \in Seq(S)
  PROVE  /\ s \o t \in Seq(S)
         /\ Len(s \o t) = Len(s) + Len(t)
         /\ \A i \in 1 .. Len(s) + Len(t) :
              (s \o t)[i] = IF i <= Len(s) THEN s[i] ELSE t[i - Len(s)]
OBVIOUS

-----------------------------------------------------------------------------
(* The client's input: the coalescer.                                      *)

\* The timer runs exactly while bytes are held, and it has no more left than the
\* oldest of them may wait.
CoalInv ==
  /\ CoalTypeOK
  /\ armed <=> buf # <<>>
  /\ IF armed THEN timer >= 0 ELSE timer = Off
  /\ \A i \in DOMAIN buf : buf[i] + timer <= Delay

\* Empty and stopped.
LEMMA CoalEmpty ==
  ASSUME buf' = <<>>, armed' \in BOOLEAN, ~ armed', timer' = Off
  PROVE  CoalInv'
<1>1. buf' \in Seq(0 .. Delay + 1) /\ DOMAIN buf' = {}
  OBVIOUS
<1>2. timer' \in Off .. Delay
  BY CoalescerAssumption DEF Off
<1> QED
  BY <1>1, <1>2 DEF CoalInv, CoalTypeOK

\* Adding bytes to a batch: they are the youngest.
LEMMA CoalAdds ==
  ASSUME CoalInv, NEW n \in Nat \ {0}, Add(n)
  PROVE  CoalInv'
<1>1. CASE Len(buf) + n >= Threshold
  BY <1>1, CoalEmpty, Zenon DEF Add, Flush
<1>2. CASE ~ (Len(buf) + n >= Threshold)
  <2> USE CoalescerAssumption
  <2>1. /\ buf \in Seq(0 .. Delay + 1) /\ Len(buf) \in Nat
        /\ timer \in Int /\ -1 <= timer /\ timer <= Delay
        /\ armed \in BOOLEAN
    BY DEF CoalInv, CoalTypeOK, Off
  <2>2. Arm /\ buf' = buf \o Fresh(n)
    BY <1>2 DEF Add
  <2>3. Fresh(n) \in Seq(0 .. Delay + 1) /\ Len(Fresh(n)) = n /\ \A i \in 1 .. n : Fresh(n)[i] = 0
    BY DEF Fresh
  <2>4. /\ buf' \in Seq(0 .. Delay + 1) /\ Len(buf') = Len(buf) + n
        /\ DOMAIN buf' = 1 .. Len(buf) + n /\ DOMAIN buf = 1 .. Len(buf)
        /\ \A i \in 1 .. Len(buf) : buf'[i] = buf[i]
        /\ \A i \in Len(buf) + 1 .. Len(buf) + n : buf'[i] = 0
    <3>1. buf' \in Seq(0 .. Delay + 1) /\ Len(buf') = Len(buf) + n
      BY <2>1, <2>2, <2>3, Concat, Zenon
    <3>2. DOMAIN buf' = 1 .. Len(buf) + n /\ DOMAIN buf = 1 .. Len(buf)
      BY <2>1, <3>1
    <3>3. \A i \in 1 .. Len(buf) : buf'[i] = buf[i]
      BY <2>1, <2>2, <2>3
    <3>4. ASSUME NEW i \in Len(buf) + 1 .. Len(buf) + n
          PROVE  buf'[i] = 0
      <4>1. i - Len(buf) \in 1 .. n /\ i \in 1 .. Len(buf) + n /\ ~ (i <= Len(buf))
        BY <2>1
      <4>2. buf'[i] = Fresh(n)[i - Len(buf)]
        BY <4>1, <2>1, <2>2, <2>3
      <4> QED
        BY <4>1, <4>2, <2>3
    <3> QED
      BY <3>1, <3>2, <3>3, <3>4
  <2>5. buf' # <<>>
    BY <2>1, <2>4
  <2>6. CASE buf = <<>>
    <3>1. Len(buf) = 0 /\ timer' = Delay /\ armed'
      BY <2>2, <2>6 DEF Arm, CoalInv
    <3>2. \A i \in DOMAIN buf' : buf'[i] = 0
      BY <3>1, <2>4
    <3> QED
      BY <3>1, <3>2, <2>4, <2>5 DEF CoalInv, CoalTypeOK, Off
  <2>7. CASE buf # <<>>
    <3>1. armed /\ armed' /\ timer' = timer /\ timer >= 0
      BY <2>2, <2>7 DEF Arm, CoalInv
    <3>2. \A i \in DOMAIN buf' : buf'[i] + timer <= Delay
      <4>1. \A i \in 1 .. Len(buf) : buf[i] + timer <= Delay
        BY <2>4 DEF CoalInv
      <4>2. \A i \in DOMAIN buf' : i \in 1 .. Len(buf) \/ i \in Len(buf) + 1 .. Len(buf) + n
        BY <2>1, <2>4
      <4>3. 0 + timer <= Delay
        BY <2>1
      <4> QED
        BY <4>1, <4>2, <4>3, <2>4, Zenon
    <3> QED
      BY <3>1, <3>2, <2>1, <2>4, <2>5 DEF CoalInv, CoalTypeOK, Off
  <2> QED
    BY <2>6, <2>7
<1> QED
  BY <1>1, <1>2

\* A tick ages every byte and takes one from the timer, which was not yet zero.
LEMMA CoalTicks ==
  ASSUME CoalInv, Tick
  PROVE  CoalInv'
<1>1. /\ buf \in Seq(0 .. Delay + 1) /\ Len(buf) \in Nat /\ DOMAIN buf = 1 .. Len(buf)
      /\ \A i \in DOMAIN buf : buf[i] \in 0 .. Delay + 1
      /\ timer \in Int /\ -1 <= timer /\ timer <= Delay /\ Delay \in Nat
      /\ armed \in BOOLEAN
  BY CoalescerAssumption DEF CoalInv, CoalTypeOK, Off
<1>2. /\ buf' = [i \in DOMAIN buf |-> Older(buf[i])] /\ armed' = armed
      /\ timer' = IF timer > 0 THEN timer - 1 ELSE timer
      /\ ~ (armed /\ timer = 0)
  BY DEF Tick
<1>3. \A i \in DOMAIN buf : buf'[i] \in 0 .. Delay + 1
  BY <1>1, <1>2 DEF Older
<1>4. buf' \in Seq(0 .. Delay + 1) /\ DOMAIN buf' = DOMAIN buf /\ Len(buf') = Len(buf)
  BY <1>1, <1>2, <1>3
<1>5. CASE buf = <<>>
  <2>1. buf' = <<>>
    BY <1>1, <1>4, <1>5
  <2> QED
    BY <1>1, <1>2, <1>5, <2>1, CoalEmpty DEF CoalInv, Off
<1>6. CASE buf # <<>>
  <2>1. armed /\ timer > 0 /\ timer' = timer - 1 /\ buf' # <<>>
    BY <1>1, <1>2, <1>4, <1>6 DEF CoalInv
  <2>2. \A i \in DOMAIN buf' : buf'[i] + timer' <= Delay
    BY <1>1, <1>2, <1>4, <2>1 DEF CoalInv, Older
  <2> QED
    BY <1>1, <1>2, <1>4, <2>1, <2>2 DEF CoalInv, CoalTypeOK, Off
<1> QED
  BY <1>5, <1>6

-----------------------------------------------------------------------------
(* The escape processor.                                                   *)

EscStates == {"escNone", "escAfterNewline", "escAfterTilde"}

\* What the loop of Process carries from key to key.
Results == [state : EscStates, dst : Seq(Keys), action : {"EscSend", "EscDisconnect"}]

\* The state after a key that was passed on.
AfterKey(b) == IF b = "newline" THEN "escAfterNewline" ELSE "escNone"

\* What one key does to it: held back, passed on alone or with the ~ before it, or
\* the end of the connection.
LEMMA KeyCases ==
  ASSUME NEW r \in Results, NEW b \in Keys
  PROVE  /\ r.action = "EscDisconnect" => Key(r, b) = r
         /\ r.action = "EscSend" /\ r.state = "escAfterTilde" /\ b = "dot" =>
              Key(r, b) = [state |-> r.state, dst |-> r.dst, action |-> "EscDisconnect"]
         /\ r.action = "EscSend" /\ r.state = "escAfterTilde" /\ b \notin {"dot", "tilde"} =>
              Key(r, b) = [state |-> AfterKey(b), dst |-> r.dst \o <<"tilde", b>>,
                           action |-> "EscSend"]
         /\ r.action = "EscSend" /\ r.state = "escAfterNewline" /\ b = "tilde" =>
              Key(r, b) = [state |-> "escAfterTilde", dst |-> r.dst, action |-> "EscSend"]
         /\ r.action = "EscSend" /\ ( \/ r.state = "escAfterTilde" /\ b = "tilde"
                                      \/ r.state = "escAfterNewline" /\ b # "tilde"
                                      \/ r.state = "escNone" ) =>
              Key(r, b) = [state |-> AfterKey(b), dst |-> r.dst \o <<b>>, action |-> "EscSend"]
BY Zenon DEF Results, EscStates, Keys, Key, MidLine, LineStart, HeldTilde, Emit, AfterKey

\* It keeps the types.
LEMMA KeyTyped ==
  ASSUME NEW r \in Results, NEW b \in Keys
  PROVE  Key(r, b) \in Results
<1>1. /\ r.dst \in Seq(Keys) /\ <<b>> \in Seq(Keys) /\ <<"tilde", b>> \in Seq(Keys)
      /\ r.state \in EscStates
  BY DEF Results, Keys
<1>2. r.dst \o <<b>> \in Seq(Keys) /\ r.dst \o <<"tilde", b>> \in Seq(Keys)
  BY <1>1, Concat
<1>3. /\ [state |-> r.state, dst |-> r.dst, action |-> "EscDisconnect"] \in Results
      /\ [state |-> AfterKey(b), dst |-> r.dst \o <<"tilde", b>>, action |-> "EscSend"] \in Results
      /\ [state |-> "escAfterTilde", dst |-> r.dst, action |-> "EscSend"] \in Results
      /\ [state |-> AfterKey(b), dst |-> r.dst \o <<b>>, action |-> "EscSend"] \in Results
  BY <1>1, <1>2 DEF Results, EscStates, AfterKey
<1>4. r.action \in {"EscSend", "EscDisconnect"} /\ r.state \in EscStates
  BY DEF Results
<1> QED
  BY <1>3, <1>4, KeyCases, Zenon DEF EscStates

\* The loop of Process, key by key.
LEMMA LoopSteps ==
  ASSUME state \in EscStates, NEW chunk \in Seq(Keys)
  PROVE  /\ Loop(chunk) \in [0 .. Len(chunk) -> Results]
         /\ Loop(chunk)[0] = [state |-> state, dst |-> <<>>, action |-> "EscSend"]
         /\ \A i \in 1 .. Len(chunk) : Loop(chunk)[i] = Key(Loop(chunk)[i - 1], chunk[i])
<1> DEFINE N == Len(chunk)
           s0 == [state |-> state, dst |-> <<>>, action |-> "EscSend"]
           Unfolded(f) == [i \in 0 .. N |-> IF i = 0 THEN s0 ELSE Key(f[i - 1], chunk[i])]
           Body == [i \in 1 .. N |-> [r \in Results |-> Key(r, chunk[i])]]
<1>1. N \in Nat /\ \A i \in 1 .. N : chunk[i] \in Keys
  OBVIOUS
<1>2. s0 \in Results
  BY DEF Results, EscStates
<1>3. Body \in [1 .. N -> [Results -> Results]]
  BY <1>1, KeyTyped
<1>4. \A i \in 1 .. N : \A r \in Results : Body[i][r] = Key(r, chunk[i])
  OBVIOUS
<1> HIDE DEF N, s0, Body
<1>r. PICK f : IsRun(f, N, Results, s0, Body)
  BY <1>1, <1>2, <1>3, LoopRuns
<1>5. f \in [0 .. N -> Results] /\ f[0] = s0 /\ \A i \in 1 .. N : f[i] = Body[i][f[i - 1]]
  BY <1>r DEF IsRun
<1>6. ASSUME NEW i \in 0 .. N
      PROVE  f[i] = Unfolded(f)[i]
  <2>1. CASE i = 0
    BY <2>1, <1>5
  <2>2. CASE i # 0
    <3>1. i \in 1 .. N /\ i - 1 \in 0 .. N
      BY <1>1, <2>2
    <3>2. f[i - 1] \in Results
      BY <3>1, <1>5
    <3> QED
      BY <2>2, <3>1, <3>2, <1>4, <1>5
  <2> QED
    BY <2>1, <2>2
<1>7. f = Unfolded(f)
  BY <1>5, <1>6
<1>8. Loop(chunk) = CHOOSE g : g = Unfolded(g)
  BY DEF Loop, N, s0
<1>9. Loop(chunk) = Unfolded(Loop(chunk))
  BY <1>7, <1>8, Zenon
<1> DEFINE g == Loop(chunk)
<1>10. g[0] = s0 /\ \A i \in 1 .. N : g[i] = Key(g[i - 1], chunk[i])
  BY <1>1, <1>9
<1> HIDE DEF g
<1> DEFINE Bad == {i \in 0 .. N : g[i] \notin Results}
<1>11. ASSUME Bad # {}
       PROVE  FALSE
  <2>1. PICK n \in Bad : \A m \in Bad : n <= m
    <3>1. Bad \subseteq Nat
      BY <1>1
    <3> HIDE DEF Bad
    <3> QED
      BY <1>11, <3>1, Smallest, Zenon
  <2>2. n \in 1 .. N
    BY <2>1, <1>1, <1>2, <1>10
  <2>3. n - 1 \in 0 .. N /\ ~ (n <= n - 1)
    BY <2>2, <1>1
  <2>4. g[n - 1] \in Results
    BY <2>1, <2>3
  <2> QED
    BY <2>1, <2>2, <2>4, <1>1, <1>10, KeyTyped
<1>12. g \in [0 .. N -> Results]
  <2>1. g = [i \in 0 .. N |-> g[i]]
    BY <1>9 DEF g
  <2> QED
    BY <2>1, <1>11
<1> QED
  BY <1>10, <1>12 DEF g, N, s0

\* The reference again, for the first n keys of an input t.
StartsAt(t, i) == i = 1 \/ t[i - 1] = "newline"

SwallowedAt(t, n, i) == t[i] = "tilde" /\ StartsAt(t, i) /\ (i = n \/ t[i + 1] = "tilde")

KeptOf(t, n) == {i \in 1 .. n : ~ SwallowedAt(t, n, i)}

EscapedBy(t, n) ==
  \E i \in 1 .. n : i > 1 /\ t[i] = "dot" /\ t[i - 1] = "tilde" /\ StartsAt(t, i - 1)

\* out is what the places in K of t hold, in order.
ExactFor(t, K, out) ==
  /\ Len(out) = Cardinality(K)
  /\ \A i \in K : out[Cardinality({j \in K : j <= i})] = t[i]

\* The processor after the first n keys of t, none of them the end of an escape.
Agree(t, n, st, out) ==
  /\ st = "escAfterNewline" <=> StartsAt(t, n + 1)
  /\ st = "escAfterTilde" <=> n > 0 /\ t[n] = "tilde" /\ StartsAt(t, n)
  /\ ExactFor(t, KeptOf(t, n), out)
  /\ ~ EscapedBy(t, n)

\* Passing on one more key, from a later place.
LEMMA ExactMore ==
  ASSUME NEW t, NEW n \in Nat, NEW K \in SUBSET (1 .. n), NEW m \in Nat, m > n, t[m] \in Keys,
         NEW out \in Seq(Keys), ExactFor(t, K, out)
  PROVE  ExactFor(t, K \cup {m}, out \o <<t[m]>>)
<1> DEFINE J == K \cup {m}
           new == out \o <<t[m]>>
<1>1. IsFiniteSet(K) /\ m \notin K
  <2>1. IsFiniteSet(1 .. n)
    BY FS_Interval
  <2>2. IsFiniteSet(K)
    BY <2>1, FS_Subset, Zenon
  <2> QED
    BY <2>2
<1>2. Cardinality(J) = Cardinality(K) + 1 /\ Cardinality(K) \in Nat
  BY <1>1, FS_AddElement, FS_CardinalityType, Zenon
<1>3. /\ Len(out) \in Nat /\ Len(new) = Len(out) + 1 /\ new[Len(out) + 1] = t[m]
      /\ \A k \in 1 .. Len(out) : new[k] = out[k]
  OBVIOUS
<1>4. {j \in J : j <= m} = J
  <2>1. \A j \in J : j <= m
    OBVIOUS
  <2> QED
    BY <2>1, Zenon
<1>5. ASSUME NEW i \in K
      PROVE  new[Cardinality({j \in J : j <= i})] = t[i]
  <2> DEFINE B == {j \in K : j <= i}
  <2>1. {j \in J : j <= i} = B
    OBVIOUS
  <2>2. B \subseteq K /\ i \in B
    OBVIOUS
  <2> HIDE DEF B
  <2>3. IsFiniteSet(B) /\ Cardinality(B) \in Nat /\ Cardinality(B) <= Cardinality(K)
    BY <1>1, <2>2, FS_Subset, FS_CardinalityType, Zenon
  <2>4. Cardinality(B) # 0
    BY <2>2, <2>3, FS_EmptySet
  <2>5. Cardinality(B) \in 1 .. Len(out)
    BY <2>3, <2>4, <1>2 DEF ExactFor
  <2>6. out[Cardinality(B)] = t[i]
    BY DEF ExactFor, B
  <2> QED
    BY <2>1, <2>5, <2>6, <1>3, Zenon
<1>6. new[Cardinality({j \in J : j <= m})] = t[m]
  BY <1>2, <1>3, <1>4, Zenon DEF ExactFor
<1>7. Len(new) = Cardinality(J)
  BY <1>2, <1>3 DEF ExactFor
<1> QED
  BY <1>5, <1>6, <1>7, Zenon DEF ExactFor

\* Which keys the next one adds to those that are passed on.
LEMMA KeptMore ==
  ASSUME NEW t, NEW n \in Nat
  PROVE  /\ n > 0 /\ t[n] = "tilde" /\ StartsAt(t, n) /\ t[n + 1] # "tilde" =>
              KeptOf(t, n + 1) = (KeptOf(t, n) \cup {n}) \cup {n + 1} /\ n \notin KeptOf(t, n)
         /\ n > 0 /\ t[n] = "tilde" /\ StartsAt(t, n) /\ t[n + 1] = "tilde" =>
              KeptOf(t, n + 1) = KeptOf(t, n) \cup {n + 1}
         /\ ~ (n > 0 /\ t[n] = "tilde" /\ StartsAt(t, n)) =>
              KeptOf(t, n + 1) =
                IF t[n + 1] = "tilde" /\ StartsAt(t, n + 1) THEN KeptOf(t, n)
                                                            ELSE KeptOf(t, n) \cup {n + 1}
<1>1. \A i \in 1 .. n - 1 : SwallowedAt(t, n + 1, i) <=> SwallowedAt(t, n, i)
  BY DEF SwallowedAt
<1>2. /\ n > 0 => (SwallowedAt(t, n, n) <=> t[n] = "tilde" /\ StartsAt(t, n))
      /\ n > 0 => (SwallowedAt(t, n + 1, n) <=>
                     t[n] = "tilde" /\ StartsAt(t, n) /\ t[n + 1] = "tilde")
      /\ SwallowedAt(t, n + 1, n + 1) <=> t[n + 1] = "tilde" /\ StartsAt(t, n + 1)
  BY DEF SwallowedAt
<1>3. \A i : i \in 1 .. n + 1 <=> i \in 1 .. n - 1 \/ (i = n /\ n > 0) \/ i = n + 1
  OBVIOUS
<1>4. \A i : i \in 1 .. n <=> i \in 1 .. n - 1 \/ (i = n /\ n > 0)
  OBVIOUS
<1>5. n > 0 /\ t[n] = "tilde" => ~ StartsAt(t, n + 1)
  BY DEF StartsAt
<1>6. n \notin 1 .. n - 1 /\ n + 1 \notin 1 .. n - 1 /\ n + 1 # n
  OBVIOUS
<1> QED
  BY <1>1, <1>2, <1>3, <1>4, <1>5, <1>6 DEF KeptOf

\* Writing one key or two at the end.
LEMMA WritesAtEnd ==
  ASSUME NEW o \in Seq(Keys), NEW d \in Seq(Keys), NEW x \in Keys, NEW y \in Keys
  PROVE  /\ Len(d \o <<x>>) = Len(d) + 1 /\ Len(d \o <<x, y>>) = Len(d) + 2
         /\ o \o (d \o <<x>>) = (o \o d) \o <<x>>
         /\ o \o (d \o <<x, y>>) = ((o \o d) \o <<x>>) \o <<y>>
         /\ (o \o d) \o <<x>> \in Seq(Keys)
<1> DEFINE K == Keys
<1>1. o \in Seq(K) /\ d \in Seq(K) /\ x \in K /\ y \in K
  OBVIOUS
<1> HIDE DEF K
<1>2. o \o d \in Seq(K) /\ <<x>> \in Seq(K) /\ <<x, y>> \in Seq(K)
  BY <1>1
<1>3. Len(d \o <<x>>) = Len(d) + 1 /\ Len(d \o <<x, y>>) = Len(d) + 2
  BY <1>1
<1>4. o \o (d \o <<x>>) = (o \o d) \o <<x>>
  BY <1>1, <1>2
<1>5. o \o (d \o <<x, y>>) = (o \o d) \o <<x, y>>
  BY <1>1, <1>2
<1>6. ASSUME NEW p \in Seq(K)
      PROVE  p \o <<x, y>> = (p \o <<x>>) \o <<y>>
  <2>1. p \o <<x, y>> = Append(Append(p, x), y)
    BY <1>1
  <2>2. p \o <<x>> = Append(p, x)
    BY <1>1
  <2>3. Append(p, x) \in Seq(K)
    BY <1>1
  <2>4. Append(p, x) \o <<y>> = Append(Append(p, x), y)
    BY <1>1, <2>3
  <2> QED
    BY <2>1, <2>2, <2>4, Zenon
<1>7. (o \o d) \o <<x>> \in Seq(K)
  BY <1>2
<1>8. o \o (d \o <<x, y>>) = ((o \o d) \o <<x>>) \o <<y>>
  BY <1>2, <1>5, <1>6
<1> QED
  BY <1>3, <1>4, <1>7, <1>8, Zenon DEF K

\* A ~ at the start of a line counts as held.
Held(st) == IF st = "escAfterTilde" THEN 1 ELSE 0

\* One key, whatever came before: the processor still agrees with the reference, or it
\* has seen the end of an escape; it writes at most one key, and the held one.
LEMMA KeyAgrees ==
  ASSUME NEW t \in Seq(Keys), NEW n \in Nat, n < Len(t), NEW out \in Seq(Keys),
         NEW r \in Results, r.action = "EscSend", Agree(t, n, r.state, out \o r.dst),
         NEW q, q = Key(r, t[n + 1])
  PROVE  /\ q.action = "EscSend" => Agree(t, n + 1, q.state, out \o q.dst)
         /\ q.action # "EscSend" => EscapedBy(t, n + 1)
         /\ Len(q.dst) + Held(q.state) <= Len(r.dst) + Held(r.state) + 1
<1> DEFINE b == t[n + 1]
<1>1. /\ n + 1 \in 1 .. Len(t) /\ b \in Keys
      /\ n > 0 => t[n] \in Keys
  BY DEF Keys
<1>2. /\ r.dst \in Seq(Keys) /\ Len(r.dst) \in Nat /\ r.state \in EscStates
      /\ out \o r.dst \in Seq(Keys) /\ <<b>> \in Seq(Keys) /\ <<"tilde">> \in Seq(Keys)
  BY <1>1, Concat DEF Results, Keys
<1>3. /\ Len(r.dst \o <<b>>) = Len(r.dst) + 1 /\ Len(r.dst \o <<"tilde", b>>) = Len(r.dst) + 2
      /\ out \o (r.dst \o <<b>>) = (out \o r.dst) \o <<b>>
      /\ out \o (r.dst \o <<"tilde", b>>) = ((out \o r.dst) \o <<"tilde">>) \o <<b>>
      /\ (out \o r.dst) \o <<"tilde">> \in Seq(Keys)
  <2>1. "tilde" \in Keys /\ b \in Keys /\ out \in Seq(Keys) /\ r.dst \in Seq(Keys)
    BY <1>1, <1>2, Zenon DEF Keys
  <2> HIDE DEF b
  <2>2. Len(r.dst \o <<b>>) = Len(r.dst) + 1 /\ Len(r.dst \o <<"tilde", b>>) = Len(r.dst) + 2
    BY <2>1, WritesAtEnd
  <2>3. out \o (r.dst \o <<b>>) = (out \o r.dst) \o <<b>>
    BY <2>1, WritesAtEnd, Zenon
  <2>4. /\ out \o (r.dst \o <<"tilde", b>>) = ((out \o r.dst) \o <<"tilde">>) \o <<b>>
        /\ (out \o r.dst) \o <<"tilde">> \in Seq(Keys)
    BY <2>1, WritesAtEnd, Zenon
  <2> QED
    BY <2>2, <2>3, <2>4, Zenon
<1>4. KeptOf(t, n) \in SUBSET (1 .. n) /\ KeptOf(t, n) \cup {n} \in SUBSET (0 .. n)
  BY DEF KeptOf
<1>5. EscapedBy(t, n + 1) <=> EscapedBy(t, n) \/ (n > 0 /\ b = "dot" /\ t[n] = "tilde" /\ StartsAt(t, n))
  BY DEF EscapedBy
<1>6. StartsAt(t, n + 2) <=> b = "newline"
  BY DEF StartsAt
<1>7. ~ EscapedBy(t, n) /\ ExactFor(t, KeptOf(t, n), out \o r.dst)
  BY DEF Agree
<1> DEFINE Heldback == n > 0 /\ t[n] = "tilde" /\ StartsAt(t, n)
<1>8. CASE r.state = "escAfterTilde" /\ b = "dot"
  <2>1. q = [state |-> r.state, dst |-> r.dst, action |-> "EscDisconnect"]
    BY <1>1, <1>8, KeyCases, Zenon
  <2> QED
    BY <2>1, <1>2, <1>5, <1>8 DEF Agree, Held
<1>9. CASE r.state = "escAfterTilde" /\ b \notin {"dot", "tilde"}
  <2>1. q.state = AfterKey(b) /\ q.dst = r.dst \o <<"tilde", b>> /\ q.action = "EscSend"
    <3>1. q = [state |-> AfterKey(b), dst |-> r.dst \o <<"tilde", b>>, action |-> "EscSend"]
      BY <1>1, <1>9, KeyCases, Zenon
    <3> QED
      BY <3>1
  <2>2. Heldback /\ r.state # "escAfterNewline"
    BY <1>9 DEF Agree
  <2>3. KeptOf(t, n + 1) = (KeptOf(t, n) \cup {n}) \cup {n + 1} /\ n \notin KeptOf(t, n)
    BY <1>9, <2>2, KeptMore, Zenon
  <2>4. KeptOf(t, n) \in SUBSET (1 .. n - 1)
    BY <1>4, <2>3
  <2>5. ExactFor(t, KeptOf(t, n) \cup {n}, (out \o r.dst) \o <<"tilde">>)
    <3>1. n - 1 \in Nat /\ n > n - 1 /\ t[n] = "tilde" /\ t[n] \in Keys
      BY <2>2 DEF Keys
    <3> QED
      BY <3>1, <2>4, <1>2, <1>7, ExactMore, Zenon
  <2>6. ExactFor(t, KeptOf(t, n + 1), out \o q.dst)
    <3>1. KeptOf(t, n) \cup {n} \in SUBSET (1 .. n) /\ n + 1 \in Nat /\ n + 1 > n
      BY <1>4, <2>2
    <3>2. out \o q.dst = ((out \o r.dst) \o <<"tilde">>) \o <<b>>
      BY <2>1, <1>3, Zenon
    <3> DEFINE o2 == (out \o r.dst) \o <<"tilde">>
               K2 == KeptOf(t, n) \cup {n}
    <3>3. o2 \in Seq(Keys) /\ t[n + 1] \in Keys /\ ExactFor(t, K2, o2)
      BY <1>1, <1>3, <2>5
    <3>4. ExactFor(t, K2 \cup {n + 1}, o2 \o <<t[n + 1]>>)
      <4> HIDE DEF o2, K2
      <4> QED
        BY <3>1, <3>3, ExactMore, Zenon DEF K2
    <3> QED
      BY <3>2, <3>4, <2>3, Zenon
  <2>7. ~ EscapedBy(t, n + 1)
    BY <1>5, <1>7, <1>9
  <2> QED
    BY <2>1, <2>6, <2>7, <1>2, <1>3, <1>6, <1>9 DEF Agree, AfterKey, Held
<1>10. CASE r.state = "escAfterNewline" /\ b = "tilde"
  <2>1. q = [state |-> "escAfterTilde", dst |-> r.dst, action |-> "EscSend"]
    BY <1>1, <1>10, KeyCases, Zenon
  <2>2. StartsAt(t, n + 1) /\ ~ Heldback
    BY <1>10 DEF Agree
  <2>3. KeptOf(t, n + 1) = KeptOf(t, n)
    BY <1>10, <2>2, KeptMore, Zenon
  <2> QED
    BY <2>1, <2>2, <2>3, <1>2, <1>5, <1>6, <1>7, <1>10 DEF Agree, Held
<1>11. CASE \/ r.state = "escAfterTilde" /\ b = "tilde"
            \/ r.state = "escAfterNewline" /\ b # "tilde"
            \/ r.state = "escNone"
  <2>1. q.state = AfterKey(b) /\ q.dst = r.dst \o <<b>> /\ q.action = "EscSend"
    <3>1. q = [state |-> AfterKey(b), dst |-> r.dst \o <<b>>, action |-> "EscSend"]
      BY <1>1, <1>11, KeyCases, Zenon
    <3> QED
      BY <3>1
  <2>2. ~ (b = "tilde" /\ StartsAt(t, n + 1)) /\ ~ (Heldback /\ b # "tilde")
    BY <1>11 DEF Agree, StartsAt
  <2>3. KeptOf(t, n + 1) = KeptOf(t, n) \cup {n + 1}
    BY <2>2, KeptMore, Zenon
  <2>4. ExactFor(t, KeptOf(t, n + 1), out \o q.dst)
    <3>1. n + 1 \in Nat /\ n + 1 > n
      OBVIOUS
    <3>2. out \o q.dst = (out \o r.dst) \o <<b>>
      BY <2>1, <1>3, Zenon
    <3> QED
      BY <3>1, <3>2, <2>3, <1>1, <1>2, <1>4, <1>7, ExactMore, Zenon
  <2>5. ~ EscapedBy(t, n + 1)
    BY <1>5, <1>7, <2>2
  <2>6. /\ q.state = "escAfterNewline" <=> StartsAt(t, n + 2)
        /\ q.state # "escAfterTilde" /\ ~ (b = "tilde" /\ StartsAt(t, n + 1))
    BY <2>1, <2>2, <1>6 DEF AfterKey
  <2>7. Len(q.dst) + Held(q.state) <= Len(r.dst) + Held(r.state) + 1
    <3>1. Len(q.dst) = Len(r.dst) + 1
      BY <2>1, <1>3, Zenon
    <3>2. Held(q.state) = 0 /\ Held(r.state) \in {0, 1}
      BY <2>6 DEF Held
    <3> QED
      BY <3>1, <3>2, <1>2
  <2>8. Agree(t, n + 1, q.state, out \o q.dst)
    BY <2>4, <2>5, <2>6 DEF Agree
  <2> QED
    BY <2>1, <2>7, <2>8
<1> QED
  BY <1>2, <1>8, <1>9, <1>10, <1>11 DEF EscStates

\* The reference looks at no key after the first n.
LEMMA AgreePrefix ==
  ASSUME NEW t, NEW T, NEW n \in Nat, \A i \in 1 .. n : t[i] = T[i], NEW st, NEW out,
         Agree(t, n, st, out)
  PROVE  Agree(T, n, st, out)
<1>1. \A i \in 1 .. n + 1 : StartsAt(t, i) <=> StartsAt(T, i)
  BY DEF StartsAt
<1>2. \A i \in 1 .. n : SwallowedAt(t, n, i) <=> SwallowedAt(T, n, i)
  <2>1. \A i \in 1 .. n : i # n => t[i + 1] = T[i + 1]
    OBVIOUS
  <2> QED
    BY <1>1, <2>1 DEF SwallowedAt
<1>3. KeptOf(t, n) = KeptOf(T, n) /\ KeptOf(t, n) \subseteq 1 .. n
  BY <1>2 DEF KeptOf
<1>4. EscapedBy(t, n) <=> EscapedBy(T, n)
  <2>1. \A i \in 1 .. n : i > 1 => i - 1 \in 1 .. n
    OBVIOUS
  <2> QED
    BY <1>1, <2>1 DEF EscapedBy
<1>5. n > 0 => t[n] = T[n] /\ (StartsAt(t, n) <=> StartsAt(T, n))
  BY <1>1
<1>6. StartsAt(t, n + 1) <=> StartsAt(T, n + 1)
  BY <1>1
<1>7. ExactFor(T, KeptOf(T, n), out)
  BY <1>3 DEF Agree, ExactFor
<1> QED
  BY <1>4, <1>5, <1>6, <1>7 DEF Agree

\* After i keys of a chunk, whatever was read before it.
LoopGood(chunk, i) ==
  LET r == Loop(chunk)[i] IN
  /\ Len(r.dst) + Held(r.state) <= i + Held(state)
  /\ r.action = "EscSend" => Agree(typed \o chunk, Len(typed) + i, r.state, emitted \o r.dst)
  /\ r.action # "EscSend" => EscapedBy(typed \o chunk, Len(typed) + i)

\* The loop of Process keeps to the reference.
LEMMA LoopAgrees ==
  ASSUME EscapeTypeOK, Agree(typed, Len(typed), state, emitted), NEW chunk \in Seq(Keys)
  PROVE  \A i \in 0 .. Len(chunk) : LoopGood(chunk, i)
<1> DEFINE a == Loop(chunk)
           T == typed \o chunk
           L == Len(typed)
           N == Len(chunk)
           Bad == {i \in 0 .. N : ~ LoopGood(chunk, i)}
<1>1. /\ N \in Nat /\ L \in Nat /\ T \in Seq(Keys) /\ Len(T) = L + N
      /\ \A i \in 1 .. L : typed[i] = T[i]
      /\ \A i \in 1 .. N : chunk[i] = T[L + i] /\ chunk[i] \in Keys
      /\ emitted \in Seq(Keys) /\ state \in EscStates
  <2>1. typed \in Seq(Keys) /\ emitted \in Seq(Keys) /\ state \in EscStates /\ L \in Nat /\ N \in Nat
    BY DEF EscapeTypeOK, EscStates
  <2>2. T \in Seq(Keys) /\ Len(T) = L + N
    BY <2>1, Concat
  <2>3. \A i \in 1 .. L : typed[i] = T[i]
    BY <2>1
  <2>4. \A i \in 1 .. N : chunk[i] = T[L + i]
    BY <2>1
  <2>5. \A i \in 1 .. N : chunk[i] \in Keys
    OBVIOUS
  <2> QED
    BY <2>1, <2>2, <2>3, <2>4, <2>5
<1>2. /\ a \in [0 .. N -> Results]
      /\ a[0] = [state |-> state, dst |-> <<>>, action |-> "EscSend"]
      /\ \A i \in 1 .. N : a[i] = Key(a[i - 1], chunk[i])
  BY <1>1, LoopSteps
<1> HIDE DEF a, T, L, N
<1>3. LoopGood(chunk, 0)
  <2>1. Agree(T, L, state, emitted)
    BY <1>1, AgreePrefix, Zenon DEF L
  <2>2. emitted \o <<>> = emitted /\ Len(<<>>) = 0 /\ L + 0 = L
    BY <1>1
  <2>3. Held(state) \in {0, 1}
    BY DEF Held
  <2>4. a[0].dst = <<>> /\ a[0].state = state /\ a[0].action = "EscSend"
    BY <1>2
  <2> QED
    BY <2>1, <2>2, <2>3, <2>4 DEF LoopGood, a, T, L
<1>4. ASSUME NEW n \in 1 .. N, LoopGood(chunk, n - 1)
      PROVE  LoopGood(chunk, n)
  <2> DEFINE r == a[n - 1]
             q == a[n]
             m == L + (n - 1)
  <2>1. /\ r \in Results /\ q \in Results /\ q = Key(r, T[m + 1])
        /\ m \in Nat /\ m < Len(T) /\ m + 1 = L + n
    <3>1. n - 1 \in 0 .. N /\ n \in 0 .. N /\ m \in Nat /\ m < Len(T) /\ m + 1 = L + n
      BY <1>1
    <3>2. r \in Results /\ q \in Results
      BY <3>1, <1>2
    <3>3. q = Key(r, chunk[n]) /\ chunk[n] = T[L + n]
      BY <1>1, <1>2
    <3> QED
      BY <3>1, <3>2, <3>3
  <2>2. /\ Len(r.dst) + Held(r.state) <= (n - 1) + Held(state)
        /\ r.action = "EscSend" => Agree(T, m, r.state, emitted \o r.dst)
        /\ r.action # "EscSend" => EscapedBy(T, m)
    BY <1>4 DEF LoopGood, a, T, L
  <2>3. /\ Len(r.dst) \in Nat /\ Len(q.dst) \in Nat
        /\ Held(r.state) \in {0, 1} /\ Held(q.state) \in {0, 1} /\ Held(state) \in {0, 1}
    BY <2>1 DEF Results, Held
  <2>4. r.action \in {"EscSend", "EscDisconnect"}
    BY <2>1 DEF Results
  <2> HIDE DEF r, q, m
  <2>5. CASE r.action = "EscSend"
    <3>1. /\ q.action = "EscSend" => Agree(T, m + 1, q.state, emitted \o q.dst)
          /\ q.action # "EscSend" => EscapedBy(T, m + 1)
          /\ Len(q.dst) + Held(q.state) <= Len(r.dst) + Held(r.state) + 1
      BY <2>1, <2>2, <2>5, <1>1, KeyAgrees, Zenon
    <3>2. Len(q.dst) + Held(q.state) <= n + Held(state)
      <4>1. /\ Len(q.dst) + Held(q.state) <= Len(r.dst) + Held(r.state) + 1
            /\ Len(r.dst) + Held(r.state) <= (n - 1) + Held(state)
        BY <3>1, <2>2, Zenon
      <4>2. /\ n \in Int /\ Len(q.dst) \in Int /\ Len(r.dst) \in Int
            /\ Held(q.state) \in Int /\ Held(r.state) \in Int /\ Held(state) \in Int
        BY <2>3
      <4>3. \A x, y, z, u, v, w \in Int : x + y <= u + v + 1 /\ u + v <= (z - 1) + w => x + y <= z + w
        OBVIOUS
      <4> QED
        BY <4>1, <4>2, <4>3, Zenon
    <3>3. /\ q.action = "EscSend" => Agree(T, L + n, q.state, emitted \o q.dst)
          /\ q.action # "EscSend" => EscapedBy(T, L + n)
      BY <3>1, <2>1
    <3> QED
      BY <3>2, <3>3 DEF LoopGood, q, a, T, L
  <2>6. CASE r.action = "EscDisconnect"
    <3>1. q = r
      <4>1. m + 1 \in 1 .. Len(T)
        BY <2>1, <1>1
      <4>2. T[m + 1] \in Keys
        BY <4>1, <1>1
      <4> QED
        BY <4>2, <2>1, <2>6, KeyCases, Zenon
    <3>2. EscapedBy(T, L + n)
      BY <2>1, <2>2, <2>6, <1>1 DEF EscapedBy
    <3>3. Len(q.dst) + Held(q.state) <= n + Held(state)
      BY <3>1, <2>2, <2>3
    <3> QED
      BY <3>1, <3>2, <3>3, <2>6 DEF LoopGood, q, a, T, L
  <2> QED
    BY <2>4, <2>5, <2>6
<1>5. ASSUME Bad # {}
      PROVE  FALSE
  <2>1. PICK n \in Bad : \A k \in Bad : n <= k
    <3>1. Bad \subseteq Nat
      BY <1>1
    <3> HIDE DEF Bad
    <3> QED
      BY <1>5, <3>1, Smallest, Zenon
  <2>2. n \in 1 .. N
    BY <2>1, <1>1, <1>3
  <2>3. n - 1 \in 0 .. N /\ ~ (n <= n - 1)
    BY <2>2, <1>1
  <2> QED
    BY <2>1, <2>2, <2>3, <1>4
<1> QED
  BY <1>5 DEF N

\* What the processor did so far is what the reference says of the keys read so far.
EscapeInv ==
  /\ EscapeTypeOK
  /\ action = "EscSend" => Agree(typed, Len(typed), state, emitted)
  /\ action # "EscSend" => EscapedBy(typed, Len(typed))

\* A chunk is a short sequence of keys.
LEMMA ChunkTyped ==
  ASSUME NEW chunk \in Chunks
  PROVE  chunk \in Seq(Keys) /\ Len(chunk) \in 1 .. MaxChunk
<1>1. PICK n \in 1 .. MaxChunk : chunk \in [1 .. n -> Keys]
  BY DEF Chunks
<1>2. n \in Nat
  BY EscapeAssumption
<1> QED
  BY <1>1, <1>2

\* Process over one chunk.
LEMMA ProcessStep ==
  ASSUME EscapeInv, NEW chunk \in Chunks, Process(chunk)
  PROVE  /\ EscapeInv'
         /\ Len(emitted) \in Nat /\ Len(emitted') \in Nat
         /\ Len(emitted') - Len(emitted) <= MaxChunk + 1
<1> DEFINE r == Loop(chunk)[Len(chunk)]
<1>1. /\ chunk \in Seq(Keys) /\ Len(chunk) \in Nat /\ Len(chunk) <= MaxChunk /\ MaxChunk \in Nat
      /\ Len(chunk) \in 0 .. Len(chunk)
  BY ChunkTyped, EscapeAssumption
<1>2. /\ action = "EscSend" /\ typed' = typed \o chunk
      /\ state' = r.state /\ action' = r.action
      /\ emitted' = IF r.action = "EscSend" THEN emitted \o r.dst ELSE emitted
  BY DEF Process
<1>3. /\ typed \in Seq(Keys) /\ emitted \in Seq(Keys) /\ state \in EscStates
      /\ Len(emitted) \in Nat /\ Len(typed) \in Nat
  BY DEF EscapeInv, EscapeTypeOK, EscStates
<1>4. r \in Results
  BY <1>1, <1>3, LoopSteps
<1>5. LoopGood(chunk, Len(chunk))
  BY <1>1, <1>2, LoopAgrees DEF EscapeInv
<1>6. /\ Len(r.dst) + Held(r.state) <= Len(chunk) + Held(state)
      /\ r.action = "EscSend" => Agree(typed \o chunk, Len(typed) + Len(chunk), r.state, emitted \o r.dst)
      /\ r.action # "EscSend" => EscapedBy(typed \o chunk, Len(typed) + Len(chunk))
  BY <1>5 DEF LoopGood
<1> HIDE DEF r
<1>7. r.dst \in Seq(Keys) /\ Len(r.dst) \in Nat /\ r.state \in EscStates
      /\ r.action \in {"EscSend", "EscDisconnect"}
  BY <1>4 DEF Results
<1>8. /\ typed' \in Seq(Keys) /\ Len(typed') = Len(typed) + Len(chunk)
      /\ emitted \o r.dst \in Seq(Keys) /\ Len(emitted \o r.dst) = Len(emitted) + Len(r.dst)
  BY <1>1, <1>2, <1>3, <1>7, Concat
<1>9. Len(r.dst) <= MaxChunk + 1
  <2>1. Held(state) \in {0, 1} /\ Held(r.state) \in {0, 1}
    BY DEF Held
  <2> QED
    BY <2>1, <1>1, <1>6, <1>7
<1>10. CASE r.action = "EscSend"
  <2>1. emitted' = emitted \o r.dst
    BY <1>2, <1>10
  <2>2. EscapeTypeOK'
    BY <2>1, <1>2, <1>7, <1>8 DEF EscapeTypeOK, EscStates
  <2>3. Agree(typed', Len(typed'), state', emitted')
    BY <2>1, <1>2, <1>6, <1>8, <1>10, Zenon
  <2>4. EscapeInv'
    BY <2>2, <2>3, <1>2, <1>10 DEF EscapeInv
  <2>5. Len(emitted') = Len(emitted) + Len(r.dst)
    BY <2>1, <1>8
  <2> QED
    BY <2>4, <2>5, <1>1, <1>3, <1>7, <1>9
<1>11. CASE r.action = "EscDisconnect"
  <2>1. emitted' = emitted
    BY <1>2, <1>11
  <2>2. EscapeTypeOK'
    BY <2>1, <1>2, <1>3, <1>7, <1>8 DEF EscapeTypeOK, EscStates
  <2>3. EscapedBy(typed', Len(typed'))
    <3>1. r.action # "EscSend"
      BY <1>11
    <3> QED
      BY <3>1, <1>2, <1>6, <1>8, Zenon
  <2>4. EscapeInv'
    BY <2>2, <2>3, <1>2, <1>11 DEF EscapeInv
  <2> QED
    BY <2>1, <2>4, <1>1, <1>3
<1> QED
  BY <1>7, <1>10, <1>11

\* Before the first key, and after Reset.
LEMMA EscapeFresh ==
  /\ Agree(<<>>, 0, "escAfterNewline", <<>>)
  /\ <<>> \in Seq(Keys) /\ Len(<<>>) = 0
<1>1. KeptOf(<<>>, 0) = {}
  BY DEF KeptOf
<1>2. ExactFor(<<>>, {}, <<>>)
  BY FS_EmptySet DEF ExactFor
<1>3. StartsAt(<<>>, 1) /\ ~ EscapedBy(<<>>, 0)
  BY DEF StartsAt, EscapedBy
<1> QED
  BY <1>1, <1>2, <1>3 DEF Agree

\* The inductive invariant of the client's input.
InputInv == CoalInv /\ EscapeInv

\* Every step of the client's ioLoop keeps what is said of the two.
LEMMA InputStep ==
  ASSUME InputInv, [InputNext]_inputVars
  PROVE  InputInv' /\ [Len(emitted') - Len(emitted) <= MaxChunk + 2]_escapeVars
<1> DEFINE Fits == [Len(emitted') - Len(emitted) <= MaxChunk + 2]_escapeVars
<1>s. Stop => CoalInv'
  BY CoalEmpty, Zenon DEF Stop
<1>f. Flush => CoalInv'
  BY CoalEmpty, Zenon DEF Flush
<1>u. UNCHANGED coalVars => CoalInv'
  BY DEF InputInv, CoalInv, CoalTypeOK, coalVars
<1>e. UNCHANGED escapeVars => EscapeInv' /\ Fits
  BY DEF InputInv, EscapeInv, EscapeTypeOK, escapeVars
<1>1. ASSUME NEW chunk \in Chunks, StdinCase(chunk)
      PROVE  InputInv' /\ Fits
  <2>1. /\ EscapeInv' /\ Len(emitted) \in Nat /\ Len(emitted') \in Nat
        /\ Len(emitted') - Len(emitted) <= MaxChunk + 1
    BY <1>1, ProcessStep DEF StdinCase, InputInv
  <2>2. Fits
    BY <2>1, EscapeAssumption
  <2>3. CASE Stop
    BY <2>1, <2>2, <2>3, <1>s DEF InputInv
  <2>4. CASE Len(emitted') > Len(emitted) /\ Add(Len(emitted') - Len(emitted))
    <3>1. Len(emitted') - Len(emitted) \in Nat \ {0}
      BY <2>1, <2>4
    <3>2. CoalInv'
      BY <3>1, <2>4, CoalAdds DEF InputInv
    <3> QED
      BY <3>2, <2>1, <2>2 DEF InputInv
  <2>5. CASE UNCHANGED coalVars
    BY <2>1, <2>2, <2>5, <1>u DEF InputInv
  <2> QED
    BY <1>1, <2>3, <2>4, <2>5 DEF StdinCase
<1>2. CASE InputEOF \/ InputCancelled \/ InputTimer
  BY <1>2, <1>s, <1>f, <1>u, <1>e DEF InputEOF, InputCancelled, InputTimer, FlushBoundary,
     TimerCase, InputInv
<1>3. CASE InputTick
  BY <1>3, <1>e, CoalTicks DEF InputTick, InputInv
<1>4. CASE Reconnected
  <2>1. CoalInv'
    BY <1>4, <1>s DEF Reconnected
  <2>2. /\ action = "EscSend" /\ action' = "EscSend" /\ state' = "escAfterNewline"
        /\ typed' = <<>> /\ emitted' = <<>>
    BY <1>4 DEF Reconnected, Reset
  <2>3. EscapeInv'
    BY <2>2, EscapeFresh DEF EscapeInv, EscapeTypeOK
  <2>4. Len(emitted) \in Nat /\ Len(emitted') = 0
    BY <2>2, EscapeFresh DEF InputInv, EscapeInv, EscapeTypeOK
  <2> QED
    BY <2>1, <2>3, <2>4, EscapeAssumption DEF InputInv
<1>5. CASE Exited \/ UNCHANGED inputVars
  BY <1>5, <1>u, <1>e DEF Exited, inputVars, InputInv
<1> QED
  BY <1>1, <1>2, <1>3, <1>4, <1>5 DEF InputNext

\* The invariant of the client's input.
LEMMA InputInvariant == InputSpec => []InputInv
<1>1. InputInit => InputInv
  <2> SUFFICES ASSUME InputInit PROVE InputInv
    OBVIOUS
  <2>1. CoalInv
    <3>1. buf \in Seq(0 .. Delay + 1) /\ DOMAIN buf = {} /\ timer \in Off .. Delay
      BY CoalescerAssumption DEF InputInit, CoalInit, Off
    <3> QED
      BY <3>1, Zenon DEF InputInit, CoalInit, CoalInv, CoalTypeOK
  <2>2. EscapeInv
    BY EscapeFresh DEF InputInit, EscapeInit, EscapeInv, EscapeTypeOK
  <2> QED
    BY <2>1, <2>2 DEF InputInv
<1>2. InputInv /\ [InputNext]_inputVars => InputInv'
  BY InputStep
<1> QED
  BY <1>1, <1>2, PTL DEF InputSpec

\* No key waits in the coalescer longer than Delay, whatever is typed after it.
THEOREM InputDeadline == InputSpec => []DeadlineMet
<1>1. InputInv => DeadlineMet
  <2> SUFFICES ASSUME InputInv, NEW i \in DOMAIN buf PROVE buf[i] <= Delay
    BY DEF InputInv, CoalInv, DeadlineMet
  <2>1. buf \in Seq(0 .. Delay + 1) /\ timer \in Off .. Delay /\ Delay \in Nat
    BY CoalescerAssumption DEF InputInv, CoalInv, CoalTypeOK
  <2>2. buf[i] \in Int /\ timer \in Int
    BY <2>1 DEF Off
  <2>3. buf # <<>>
    OBVIOUS
  <2>4. timer >= 0 /\ buf[i] + timer <= Delay
    BY <2>3 DEF InputInv, CoalInv
  <2> QED
    BY <2>1, <2>2, <2>4
<1> QED
  BY <1>1, InputInvariant, PTL

\* The escape processor passes on what the reference says, however the input is cut.
THEOREM InputExact == InputSpec => []EmitsExactly
<1>1. InputInv => EmitsExactly
  <2> SUFFICES ASSUME InputInv, action = "EscSend"
               PROVE  /\ Len(emitted) = Cardinality(Kept)
                      /\ \A i \in Kept : emitted[Cardinality({j \in Kept : j <= i})] = typed[i]
    BY DEF InputInv, EscapeInv, EmitsExactly
  <2>1. DOMAIN typed = 1 .. Len(typed)
    BY DEF InputInv, EscapeInv, EscapeTypeOK
  <2>2. Kept = KeptOf(typed, Len(typed))
    BY <2>1 DEF Kept, KeptOf, Swallowed, SwallowedAt, StartsLine, StartsAt
  <2> QED
    BY <2>2 DEF InputInv, EscapeInv, Agree, ExactFor
<1> QED
  BY <1>1, InputInvariant, PTL

\* It ends the connection exactly on ~. at the start of a line.
THEOREM EscapeExact == InputSpec => []DisconnectsExactly
<1>1. InputInv => DisconnectsExactly
  <2> SUFFICES ASSUME InputInv PROVE DisconnectsExactly
    OBVIOUS
  <2>1. DOMAIN typed = 1 .. Len(typed) /\ action \in {"EscSend", "EscDisconnect"}
    BY DEF InputInv, EscapeInv, EscapeTypeOK
  <2>2. action = "EscDisconnect" <=> EscapedBy(typed, Len(typed))
    BY <2>1 DEF InputInv, EscapeInv, Agree
  <2> QED
    BY <2>1, <2>2, Zenon DEF DisconnectsExactly, EscapedBy, StartsLine, StartsAt
<1> QED
  BY <1>1, InputInvariant, PTL

\* What one read of stdin makes Process write fits the buffer the client gives it.
THEOREM EscapeFits == InputSpec => FitsEscapeBuf
<1>1. InputInv /\ [InputNext]_inputVars =>
        [Len(emitted') - Len(emitted) <= MaxChunk + 2]_escapeVars
  BY InputStep
<1> QED
  BY <1>1, InputInvariant, PTL DEF InputSpec, FitsEscapeBuf

=============================================================================

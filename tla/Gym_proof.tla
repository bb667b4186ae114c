------------------------------ MODULE Gym_proof ------------------------------
(***************************************************************************)
(* Proofs about the training environment, for every size of the ring, the  *)
(* window, the rollouts and the payoff window: the ring buffer holds the   *)
(* last transitions pushed and they tell the truth; rollouts panic only on *)
(* ragged observations; advantages are discounted sums along an episode;   *)
(* rates follow payoffs; two players never both win.                       *)
(***************************************************************************)
EXTENDS Training, SelfPlay, SequenceTheorems, WellFoundedInduction, TLAPS

-----------------------------------------------------------------------------
\* Naturals.

Below == {x \in Nat \X Nat : x[1] < x[2]}

LEMMA BelowIsWellFounded == IsWellFoundedOn(Below, Nat)
<1>1. OpToRel(<, Nat) = Below
  BY DEF OpToRel, Below
<1> QED
  BY <1>1, NatLessThanWellFounded

LEMMA Least ==
  ASSUME NEW M, M \subseteq Nat, M # {}
  PROVE  \E m \in M : \A n \in M : m <= n
<1>1. PICK m \in M : \A n \in M : ~ (<<n, m>> \in Below)
  BY BelowIsWellFounded, WFMin, Zenon
<1>2. ASSUME NEW n \in M PROVE m <= n
  <2>1. m \in Nat /\ n \in Nat /\ <<n, m>> \notin Below
    BY <1>1
  <2> QED
    BY <2>1 DEF Below
<1> QED
  BY <1>2

\* Induction, with the set T of the naturals that have the property.
LEMMA NatSet ==
  ASSUME NEW T, 0 \in T, \A n \in Nat : n \in T => n + 1 \in T
  PROVE  \A n \in Nat : n \in T
<1> SUFFICES ASSUME ~ \A n \in Nat : n \in T PROVE FALSE
  OBVIOUS
<1> DEFINE bad == {n \in Nat : n \notin T}
<1>1. PICK m \in bad : \A n \in bad : m <= n
  <2>1. bad # {} /\ bad \subseteq Nat
    OBVIOUS
  <2> HIDE DEF bad
  <2> QED
    BY <2>1, Least
<1>2. m \in Nat /\ m # 0 /\ m - 1 \in Nat /\ (m - 1) + 1 = m
  BY <1>1
<1>3. m - 1 \in T
  BY <1>1, <1>2
<1> QED
  BY <1>1, <1>2, <1>3

\* f begins with c and takes n steps in V.
Iterates(f, n, V, c, step) ==
  /\ f \in [0..n -> V]
  /\ f[0] = c
  /\ \A i \in 1..n : f[i] = step[<<i, f[i - 1]>>]

LEMMA Iterated ==
  ASSUME NEW V, NEW c \in V, NEW step \in [Nat \X V -> V]
  PROVE  \A n \in Nat : \E f : Iterates(f, n, V, c, step)
<1> DEFINE Is(f, n) == f[0] = c /\ \A i \in 1..n : f[i] = step[<<i, f[i - 1]>>]
           T == {n \in Nat : \E f \in [0..n -> V] : Is(f, n)}
<1>1. 0 \in T
  <2>1. [i \in 0..0 |-> c] \in [0..0 -> V] /\ Is([i \in 0..0 |-> c], 0)
    OBVIOUS
  <2> QED
    BY <2>1
<1>2. ASSUME NEW n \in Nat, n \in T PROVE n + 1 \in T
  <2>1. PICK f \in [0..n -> V] : Is(f, n)
    BY <1>2
  <2> DEFINE g == [i \in 0..(n + 1) |-> IF i = n + 1 THEN step[<<n + 1, f[n]>>] ELSE f[i]]
  <2>2. g \in [0..(n + 1) -> V]
    <3>1. step[<<n + 1, f[n]>>] \in V
      BY <2>1
    <3> QED
      BY <2>1, <3>1
  <2>3. Is(g, n + 1)
    <3>1. g[0] = c
      BY <2>1
    <3>2. ASSUME NEW i \in 1..(n + 1) PROVE g[i] = step[<<i, g[i - 1]>>]
      <4>1. CASE i = n + 1
        <5>1. i - 1 = n /\ i - 1 \in 0..(n + 1) /\ i - 1 # n + 1
          BY <4>1
        <5>2. g[i] = step[<<n + 1, f[n]>>] /\ g[i - 1] = f[n]
          BY <4>1, <5>1
        <5> QED
          BY <4>1, <5>2
      <4>2. CASE i # n + 1
        <5>1. /\ i \in 1..n /\ i - 1 \in 0..(n + 1) /\ i - 1 # n + 1
          BY <4>2
        <5>2. g[i] = f[i] /\ g[i - 1] = f[i - 1]
          BY <5>1
        <5>3. f[i] = step[<<i, f[i - 1]>>]
          BY <2>1, <5>1
        <5> QED
          BY <5>2, <5>3
      <4> QED
        BY <4>1, <4>2
    <3> HIDE DEF g
    <3> QED
      BY <3>1, <3>2
  <2> HIDE DEF g, Is
  <2> QED
    BY <2>2, <2>3
<1>3. \A n \in Nat : n \in T
  <2> HIDE DEF T
  <2> QED
    BY <1>1, <1>2, NatSet
<1> QED
  BY <1>3 DEF Iterates

\* Two functions that begin alike and step alike.
InStep(f, g, n) == f[0] = g[0] /\ \A i \in 1..n : f[i - 1] = g[i - 1] => f[i] = g[i]

LEMMA SameSteps ==
  ASSUME NEW n \in Nat, NEW f, NEW g, InStep(f, g, n)
  PROVE  \A i \in 0..n : f[i] = g[i]
<1> DEFINE T == {i \in Nat : i \in 0..n => f[i] = g[i]}
<1>1. 0 \in T
  BY DEF InStep
<1>2. ASSUME NEW i \in Nat, i \in T PROVE i + 1 \in T
  <2>1. CASE i + 1 \in 0..n
    <3>1. i \in 0..n /\ i + 1 \in 1..n /\ (i + 1) - 1 = i
      BY <2>1
    <3>2. f[(i + 1) - 1] = g[(i + 1) - 1] => f[i + 1] = g[i + 1]
      BY <3>1 DEF InStep
    <3> QED
      BY <1>2, <3>1, <3>2
  <2> QED
    BY <2>1
<1>3. \A i \in Nat : i \in T
  <2> HIDE DEF T
  <2> QED
    BY <1>1, <1>2, NatSet
<1> QED
  BY <1>3

LEMMA SameAt ==
  ASSUME NEW n \in Nat, NEW f, NEW g, InStep(f, g, n)
  PROVE  f[n] = g[n]
  BY SameSteps

-----------------------------------------------------------------------------
\* The ring.

\* Indices wrap at most once.
LEMMA Wrap ==
  ASSUME NEW i \in Nat, i < 2 * Capacity
  PROVE  i % Capacity = IF i < Capacity THEN i ELSE i - Capacity
  BY CapacityAssumption, SMT

\* How a push moves the head and the number of slots in use.
LEMMA PushMoves ==
  ASSUME RingType, NEW t \in Transition, Push(t)
  PROVE  /\ head < Capacity - 1 => head' = head + 1
         /\ head = Capacity - 1 => head' = 0
         /\ len < Capacity => len' = len + 1
         /\ len = Capacity => len' = len
         /\ slots' = [slots EXCEPT ![head] = t]
         /\ head \in 0 .. Capacity - 1 /\ len \in 0 .. Capacity
         /\ Capacity \in Nat \ {0}
<1>1. Capacity \in Nat \ {0} /\ head \in 0 .. Capacity - 1 /\ len \in 0 .. Capacity
  BY CapacityAssumption DEF RingType, Index
<1>2. (head + 1) % Capacity = IF head + 1 < Capacity THEN head + 1 ELSE head + 1 - Capacity
  <2>1. head + 1 \in Nat /\ head + 1 < 2 * Capacity
    BY <1>1
  <2> DEFINE i == head + 1
  <2>2. i % Capacity = IF i < Capacity THEN i ELSE i - Capacity
    <3> HIDE DEF i
    <3> QED BY <2>1, Wrap DEF i
  <2> QED BY <1>1, <2>1, <2>2
<1> QED BY <1>1, <1>2 DEF Push

LEMMA PushKeepsType ==
  ASSUME RingType, NEW t \in Transition, Push(t)
  PROVE  RingType'
<1>1. /\ head < Capacity - 1 => head' = head + 1
      /\ head = Capacity - 1 => head' = 0
      /\ len < Capacity => len' = len + 1
      /\ len = Capacity => len' = len
      /\ slots' = [slots EXCEPT ![head] = t]
      /\ head \in 0 .. Capacity - 1 /\ len \in 0 .. Capacity
      /\ Capacity \in Nat \ {0}
  BY PushMoves
<1>2. t # None
  BY NoneAssumption
<1>3. slots' \in [Index -> Transition \cup {None}]
  BY <1>1 DEF RingType
<1>4. head' \in Index /\ len' \in 0 .. Capacity /\ (len' < Capacity => head' = len')
  BY <1>1 DEF RingType, Index
<1>5. \A i \in Index : slots'[i] = IF i = head THEN t ELSE slots[i]
  BY <1>1 DEF RingType
<1>6. \A i \in Index : i < len' <=> slots'[i] # None
  <2> SUFFICES ASSUME NEW i \in Index PROVE i < len' <=> slots'[i] # None
    OBVIOUS
  <2>1. (i < len <=> slots[i] # None) /\ (len < Capacity => head = len)
    BY DEF RingType
  <2>2. slots'[i] = IF i = head THEN t ELSE slots[i]
    BY <1>5
  <2>3. i \in Nat /\ i < Capacity
    BY <1>1 DEF Index
  <2> QED BY <1>1, <1>2, <2>1, <2>2, <2>3
<1> QED BY <1>3, <1>4, <1>6 DEF RingType

\* The slots in use are those that hold a transition.
THEOREM RingTypeInvariant == RingSpec => []RingType
<1>1. RingInit => RingType
  BY CapacityAssumption DEF RingInit, RingType, Index
<1>2. RingType /\ [\E t \in Transition : Push(t)]_ring => RingType'
  <2> SUFFICES ASSUME RingType, [\E t \in Transition : Push(t)]_ring PROVE RingType'
    OBVIOUS
  <2>1. CASE UNCHANGED ring
    BY <2>1 DEF ring, RingType, Index
  <2>2. CASE \E t \in Transition : Push(t)
    BY <2>2, PushKeepsType
  <2> QED BY <2>1, <2>2
<1> QED BY <1>1, <1>2, PTL DEF RingSpec

\* The slot that the i-th element of the snapshot is read from.
SlotOf(i) ==
  IF len < Capacity THEN i - 1
  ELSE IF head + (i - 1) < Capacity THEN head + (i - 1) ELSE head + (i - 1) - Capacity

SnapshotShape ==
  /\ Snapshot \in Seq(Transition)
  /\ Len(Snapshot) = len
  /\ \A i \in 1 .. len : Snapshot[i] = slots[SlotOf(i)]

LEMMA ShapeOfSnapshot == RingType => SnapshotShape
<1> SUFFICES ASSUME RingType PROVE SnapshotShape
  OBVIOUS
<1>1. Capacity \in Nat \ {0} /\ head \in 0 .. Capacity - 1 /\ len \in 0 .. Capacity
  BY CapacityAssumption DEF RingType, Index
<1>2. ASSUME NEW i \in 1 .. len
      PROVE  /\ (Start + (i - 1)) % Capacity = SlotOf(i)
             /\ slots[SlotOf(i)] \in Transition
  <2>1. CASE len < Capacity
    <3>1. Start = 0 /\ SlotOf(i) = i - 1 /\ i - 1 \in 0 .. len - 1
      BY <1>1, <2>1 DEF Start, SlotOf
    <3>2. (Start + (i - 1)) % Capacity = i - 1
      BY <1>1, <2>1, <3>1
    <3>3. i - 1 \in Index /\ i - 1 < len
      BY <1>1, <2>1, <3>1 DEF Index
    <3> QED BY <3>1, <3>2, <3>3 DEF RingType
  <2>2. CASE len = Capacity
    <3> DEFINE j == head + (i - 1)
    <3>1. j \in Nat /\ j < 2 * Capacity
      BY <1>1, <2>2
    <3>2. Start + (i - 1) = j /\ SlotOf(i) = IF j < Capacity THEN j ELSE j - Capacity
      BY <1>1, <2>2 DEF Start, SlotOf
    <3>3. j % Capacity = SlotOf(i)
      <4> HIDE DEF j
      <4> QED BY <3>1, <3>2, Wrap
    <3>4. SlotOf(i) \in Index /\ SlotOf(i) < len
      BY <1>1, <2>2, <3>1, <3>2 DEF Index
    <3> QED BY <3>2, <3>3, <3>4 DEF RingType
  <2> QED BY <1>1, <2>1, <2>2
<1>3. Snapshot = [i \in 1 .. len |-> slots[SlotOf(i)]]
  BY <1>2 DEF Snapshot
<1>4. Snapshot \in [1 .. len -> Transition] /\ len \in Nat
  BY <1>1, <1>2, <1>3
<1>5. Snapshot \in Seq(Transition)
  BY <1>4, SMT
<1>6. Len(Snapshot) = len
  BY <1>3, <1>4, <1>5, LenProperties
<1> QED BY <1>3, <1>5, <1>6 DEF SnapshotShape

\* A push adds to the snapshot, and drops its first element if it was full.
LEMMA PushKeepsLast ==
  ASSUME RingType, RingType', SnapshotShape, SnapshotShape', NEW t \in Transition, Push(t)
  PROVE  Snapshot' = Recent!KeepLast(Snapshot, t, Capacity)
<1>1. /\ head < Capacity - 1 => head' = head + 1
      /\ head = Capacity - 1 => head' = 0
      /\ len < Capacity => len' = len + 1
      /\ len = Capacity => len' = len
      /\ slots' = [slots EXCEPT ![head] = t]
      /\ head \in 0 .. Capacity - 1 /\ len \in 0 .. Capacity
      /\ Capacity \in Nat \ {0}
  BY PushMoves
<1>2. /\ slots \in [0 .. Capacity - 1 -> Transition \cup {None}]
      /\ len < Capacity => head = len
      /\ len' < Capacity => head' = len'
  BY DEF RingType, Index
<1>3. \A k \in 0 .. Capacity - 1 : slots'[k] = IF k = head THEN t ELSE slots[k]
  BY <1>1, <1>2
<1>4. /\ Snapshot \in Seq(Transition) /\ Len(Snapshot) = len
      /\ Snapshot' \in Seq(Transition) /\ Len(Snapshot') = len'
  BY DEF SnapshotShape
<1>5. \A i \in 1 .. len : Snapshot[i] = slots[SlotOf(i)]
  BY DEF SnapshotShape
<1>6. \A i \in 1 .. len' : Snapshot'[i] = slots'[SlotOf(i)']
  BY DEF SnapshotShape
<1>7. CASE len < Capacity
  <2>1. /\ Append(Snapshot, t) \in Seq(Transition) /\ Len(Append(Snapshot, t)) = len + 1
        /\ \A i \in 1 .. len : Append(Snapshot, t)[i] = Snapshot[i]
        /\ Append(Snapshot, t)[len + 1] = t
    BY <1>4, AppendProperties
  <2>2. ASSUME NEW i \in 1 .. len + 1 PROVE Snapshot'[i] = Append(Snapshot, t)[i]
    <3>1. i \in 1 .. len' /\ i - 1 \in 0 .. Capacity - 1 /\ (i = len + 1 \/ i \in 1 .. len)
      BY <1>1, <1>7
    <3>2. SlotOf(i)' = i - 1
      BY <1>1, <1>2, <1>7, <3>1 DEF SlotOf
    <3>3. Snapshot'[i] = IF i - 1 = head THEN t ELSE slots[i - 1]
      BY <1>3, <1>6, <3>1, <3>2
    <3>4. CASE i = len + 1
      BY <1>1, <1>2, <1>7, <2>1, <3>3, <3>4
    <3>5. CASE i \in 1 .. len
      <4>1. SlotOf(i) = i - 1 /\ i - 1 # head
        BY <1>1, <1>2, <1>7, <3>5 DEF SlotOf
      <4> QED BY <1>5, <2>1, <3>3, <3>5, <4>1
    <3> QED BY <3>1, <3>4, <3>5
  <2>3. Snapshot' = Append(Snapshot, t)
    <3>1. Len(Snapshot') = Len(Append(Snapshot, t)) /\ Len(Snapshot') = len + 1
      BY <1>1, <1>4, <1>7, <2>1
    <3> QED BY <1>4, <2>1, <2>2, <3>1, SeqEqual
  <2> QED BY <1>4, <1>7, <2>3 DEF Recent!KeepLast
<1>8. CASE len = Capacity
  <2>1. /\ Tail(Snapshot) \in Seq(Transition) /\ Len(Tail(Snapshot)) = len - 1
        /\ \A i \in 1 .. len - 1 : Tail(Snapshot)[i] = Snapshot[i + 1]
    BY <1>1, <1>4, <1>8, HeadTailProperties, EmptySeq
  <2>2. /\ Append(Tail(Snapshot), t) \in Seq(Transition)
        /\ Len(Append(Tail(Snapshot), t)) = len
        /\ \A i \in 1 .. len - 1 : Append(Tail(Snapshot), t)[i] = Tail(Snapshot)[i]
        /\ Append(Tail(Snapshot), t)[len] = t
    BY <1>1, <1>8, <2>1, AppendProperties
  <2>3. ASSUME NEW i \in 1 .. len PROVE Snapshot'[i] = Append(Tail(Snapshot), t)[i]
    <3>1. i \in 1 .. len' /\ (i = len \/ i \in 1 .. len - 1)
      BY <1>1, <1>8
    <3>2. CASE i = len
      <4>1. SlotOf(i)' = head
        BY <1>1, <1>8, <3>2 DEF SlotOf
      <4> QED BY <1>1, <1>3, <1>6, <2>2, <3>1, <3>2, <4>1
    <3>3. CASE i \in 1 .. len - 1
      <4>1. i + 1 \in 1 .. len
        BY <1>1, <3>3
      <4>2. SlotOf(i)' = SlotOf(i + 1) /\ SlotOf(i + 1) \in 0 .. Capacity - 1 /\ SlotOf(i + 1) # head
        BY <1>1, <1>8, <3>3, <4>1 DEF SlotOf
      <4>3. Snapshot'[i] = slots[SlotOf(i + 1)]
        BY <1>3, <1>6, <3>1, <4>2
      <4>4. Snapshot[i + 1] = slots[SlotOf(i + 1)]
        BY <1>5, <4>1
      <4> QED BY <2>1, <2>2, <3>3, <4>3, <4>4
    <3> QED BY <3>1, <3>2, <3>3
  <2>4. Snapshot' = Append(Tail(Snapshot), t)
    <3>1. Len(Snapshot') = Len(Append(Tail(Snapshot), t)) /\ Len(Snapshot') = len
      BY <1>1, <1>4, <1>8, <2>2
    <3> QED BY <1>4, <2>2, <2>3, <3>1, SeqEqual
  <2> QED BY <1>1, <1>4, <1>8, <2>4 DEF Recent!KeepLast
<1> QED BY <1>1, <1>7, <1>8

(***************************************************************************)
(* The ring refines the window of the last Capacity transitions pushed.    *)
(***************************************************************************)
THEOREM RingImplements == RingSpec => RingKeepsLast
<1>1. RingInit => Recent!Init
  <2> SUFFICES ASSUME RingInit PROVE Snapshot = <<>>
    BY DEF Recent!Init
  <2>1. len = 0
    BY DEF RingInit
  <2>2. 1 .. len = {}
    BY <2>1
  <2> QED BY <2>2 DEF Snapshot
<1>2. RingType /\ RingType' /\ SnapshotShape /\ SnapshotShape'
        /\ [\E t \in Transition : Push(t)]_ring => [Recent!Next]_Snapshot
  <2> SUFFICES ASSUME RingType, RingType', SnapshotShape, SnapshotShape',
                      [\E t \in Transition : Push(t)]_ring
               PROVE  [Recent!Next]_Snapshot
    OBVIOUS
  <2>1. CASE UNCHANGED ring
    BY <2>1 DEF ring, Snapshot, Start
  <2>2. CASE \E t \in Transition : Push(t)
    <3>1. PICK t \in Transition : Push(t)
      BY <2>2
    <3>2. Snapshot' = Recent!KeepLast(Snapshot, t, Capacity)
      BY <3>1, PushKeepsLast
    <3> QED BY <3>2 DEF Recent!Next, Recent!Record
  <2> QED BY <2>1, <2>2
<1>3. []RingType => []SnapshotShape
  BY ShapeOfSnapshot, PTL
<1> QED BY <1>1, <1>2, <1>3, RingTypeInvariant, PTL DEF RingSpec, RingKeepsLast, Recent!Spec

-----------------------------------------------------------------------------
\* Sequences that are flattened.

LEMMA FlattenTable ==
  ASSUME NEW S, NEW s \in Seq(Seq(S))
  PROVE  \E f \in [0..Len(s) -> Seq(S)] :
           /\ f[0] = <<>>
           /\ \A i \in 1..Len(s) : f[i] = f[i - 1] \o s[i]
           /\ FlattenSeq(s) = f[Len(s)]
<1> DEFINE N == Len(s)
           step == [x \in Nat \X Seq(S) |-> IF x[1] \in 1..N THEN x[2] \o s[x[1]] ELSE x[2]]
           Is(g) == g = [i \in 1..N |-> IF i = 1 THEN s[i] ELSE g[i - 1] \o s[i]]
<1>0. N \in Nat /\ \A i \in 1..N : s[i] \in Seq(S)
  OBVIOUS
<1>1. step \in [Nat \X Seq(S) -> Seq(S)]
  <2>1. \A a, b \in Seq(S) : a \o b \in Seq(S)
    BY ConcatProperties
  <2> QED
    BY <1>0, <2>1
<1>2. PICK f : Iterates(f, N, Seq(S), <<>>, step)
  <2>1. <<>> \in Seq(S)
    OBVIOUS
  <2> HIDE DEF step, N
  <2> QED
    BY <1>0, <1>1, <2>1, Iterated
<1>3. f \in [0..N -> Seq(S)] /\ f[0] = <<>> /\ \A i \in 1..N : f[i] = f[i - 1] \o s[i]
  <2>1. f \in [0..N -> Seq(S)] /\ f[0] = <<>>
    BY <1>2 DEF Iterates
  <2>2. ASSUME NEW i \in 1..N PROVE f[i] = f[i - 1] \o s[i]
    <3>1. i \in Nat /\ i - 1 \in 0..N
      BY <1>0
    <3>2. <<i, f[i - 1]>> \in Nat \X Seq(S)
      BY <2>1, <3>1
    <3>3. f[i] = step[<<i, f[i - 1]>>]
      BY <1>2 DEF Iterates
    <3> QED
      BY <3>2, <3>3
  <2> QED
    BY <2>1, <2>2
<1>4. CASE N = 0
  <2>1. s = <<>> /\ FlattenSeq(s) = s
    BY <1>4 DEF FlattenSeq
  <2> QED
    BY <1>3, <1>4, <2>1
<1>5. CASE N # 0
  <2> DEFINE h == [i \in 1..N |-> f[i]]
  <2>1. Is(h)
    <3>1. ASSUME NEW i \in 1..N PROVE f[i] = IF i = 1 THEN s[i] ELSE h[i - 1] \o s[i]
      <4>1. CASE i = 1
        <5>0. i - 1 = 0
          BY <4>1
        <5>1. f[i] = <<>> \o s[i] /\ s[i] \in Seq(S)
          BY <1>0, <1>3, <5>0, Zenon
        <5> QED
          BY <4>1, <5>1, ConcatEmptySeq
      <4>2. CASE i # 1
        <5>1. i - 1 \in 1..N
          BY <1>0, <4>2
        <5> QED
          BY <1>3, <4>2, <5>1
      <4> QED
        BY <4>1, <4>2
    <3> QED
      BY <3>1
  <2>2. PICK g : Is(g) /\ FlattenSeq(s) = g[N]
    <3>1. FlattenSeq(s) = (CHOOSE g : Is(g))[N]
      BY <1>5 DEF FlattenSeq
    <3> HIDE DEF Is, h
    <3> QED
      BY <2>1, <3>1
  <2>3. \A i \in 1..N : g[i] = IF i = 1 THEN s[i] ELSE g[i - 1] \o s[i]
    BY <2>2
  <2> DEFINE k == [i \in 0..N |-> IF i = 0 THEN <<>> ELSE g[i]]
  <2>4. InStep(k, f, N)
    <3>1. k[0] = f[0]
      BY <1>0, <1>3
    <3>2. ASSUME NEW i \in 1..N, k[i - 1] = f[i - 1] PROVE k[i] = f[i]
      <4>1. CASE i = 1
        <5>0. i - 1 = 0
          BY <4>1
        <5>1. f[i] = <<>> \o s[i] /\ s[i] \in Seq(S)
          BY <1>0, <1>3, <5>0, Zenon
        <5>2. f[i] = s[i]
          BY <5>1, ConcatEmptySeq
        <5>3. k[i] = g[i] /\ g[i] = s[i]
          BY <2>3, <4>1, <1>0
        <5> QED
          BY <5>2, <5>3
      <4>2. CASE i # 1
        <5>1. i - 1 \in 1..N /\ i - 1 \in 0..N /\ i \in 0..N
          BY <1>0, <4>2
        <5>2. k[i] = g[i] /\ k[i - 1] = g[i - 1]
          BY <5>1
        <5>3. g[i] = g[i - 1] \o s[i]
          BY <2>3, <4>2
        <5> QED
          BY <1>3, <3>2, <5>2, <5>3
      <4> QED
        BY <4>1, <4>2
    <3> QED
      BY <3>1, <3>2 DEF InStep
  <2>5. k[N] = f[N]
    <3> HIDE DEF k, N
    <3>1. N \in 0..N
      BY <1>0
    <3> QED
      BY <1>0, <2>4, <3>1, SameSteps
  <2>6. k[N] = g[N]
    BY <1>0, <1>5
  <2> QED
    BY <1>3, <2>2, <2>5, <2>6
<1> QED
  BY <1>4, <1>5

LEMMA FlattenType ==
  ASSUME NEW S, NEW s \in Seq(Seq(S))
  PROVE  FlattenSeq(s) \in Seq(S)
<1>1. PICK f \in [0..Len(s) -> Seq(S)] : FlattenSeq(s) = f[Len(s)]
  BY FlattenTable
<1> QED
  BY <1>1

LEMMA FlattenAppend ==
  ASSUME NEW S, NEW s \in Seq(Seq(S)), NEW x \in Seq(S)
  PROVE  FlattenSeq(Append(s, x)) = FlattenSeq(s) \o x
<1> DEFINE N == Len(s)
           more == Append(s, x)
<1>1. N \in Nat /\ more \in Seq(Seq(S)) /\ Len(more) = N + 1 /\ more[N + 1] = x
      /\ \A i \in 1..N : more[i] = s[i]
  OBVIOUS
<1>2. PICK f \in [0..N -> Seq(S)] : /\ f[0] = <<>>
                                    /\ \A i \in 1..N : f[i] = f[i - 1] \o s[i]
                                    /\ FlattenSeq(s) = f[N]
  BY FlattenTable
<1>3. PICK g \in [0..(N + 1) -> Seq(S)] : /\ g[0] = <<>>
                                          /\ \A i \in 1..(N + 1) : g[i] = g[i - 1] \o more[i]
                                          /\ FlattenSeq(more) = g[N + 1]
  <2> HIDE DEF more, N
  <2>1. more \in Seq(Seq(S))
    BY <1>1
  <2>2. \E g \in [0..Len(more) -> Seq(S)] : /\ g[0] = <<>>
                                            /\ \A i \in 1..Len(more) : g[i] = g[i - 1] \o more[i]
                                            /\ FlattenSeq(more) = g[Len(more)]
    BY <2>1, FlattenTable, Zenon
  <2>3. Len(more) = N + 1
    BY <1>1
  <2> QED
    BY <2>2, <2>3
<1> HIDE DEF more, N
<1>4. InStep(f, g, N)
  <2>1. ASSUME NEW i \in 1..N, f[i - 1] = g[i - 1] PROVE f[i] = g[i]
    <3>1. i \in 1..(N + 1) /\ more[i] = s[i]
      BY <1>1
    <3>2. f[i] = f[i - 1] \o s[i] /\ g[i] = g[i - 1] \o more[i]
      BY <1>2, <1>3, <3>1, Zenon
    <3> QED
      BY <2>1, <3>1, <3>2, Zenon
  <2>2. f[0] = g[0]
    BY <1>2, <1>3
  <2> QED
    BY <2>1, <2>2 DEF InStep
<1>5. f[N] = g[N]
  BY <1>1, <1>4, SameAt, Zenon
<1>6. N + 1 \in 1..(N + 1) /\ (N + 1) - 1 = N
  <2>1. N \in Nat
    BY <1>1
  <2>2. \A i \in Nat : i + 1 \in 1..(i + 1) /\ (i + 1) - 1 = i
    OBVIOUS
  <2> QED
    BY <2>1, <2>2, Zenon
<1>7. g[N + 1] = g[N] \o x
  BY <1>1, <1>3, <1>6
<1> QED
  BY <1>2, <1>3, <1>5, <1>7 DEF more

LEMMA FlattenHead ==
  ASSUME NEW S, NEW s \in Seq(Seq(S)), s # <<>>
  PROVE  FlattenSeq(s) = s[1] \o FlattenSeq(Tail(s))
<1> DEFINE N == Len(s) - 1
           rest == Tail(s)
<1>1. /\ N \in Nat /\ Len(s) = N + 1
      /\ rest \in Seq(Seq(S)) /\ Len(rest) = N
      /\ \A i \in 1..N : rest[i] = s[i + 1]
      /\ \A i \in 1..(N + 1) : s[i] \in Seq(S)
  OBVIOUS
<1>2. PICK f \in [0..N -> Seq(S)] : /\ f[0] = <<>>
                                    /\ \A i \in 1..N : f[i] = f[i - 1] \o rest[i]
                                    /\ FlattenSeq(rest) = f[N]
  <2> HIDE DEF rest, N
  <2>1. Len(rest) = N /\ rest \in Seq(Seq(S))
    BY <1>1
  <2> QED
    BY <2>1, FlattenTable
<1>3. PICK g \in [0..(N + 1) -> Seq(S)] : /\ g[0] = <<>>
                                          /\ \A i \in 1..(N + 1) : g[i] = g[i - 1] \o s[i]
                                          /\ FlattenSeq(s) = g[N + 1]
  <2> HIDE DEF rest, N
  <2>1. s \in Seq(Seq(S))
    BY <1>1
  <2>2. \E g \in [0..Len(s) -> Seq(S)] : /\ g[0] = <<>>
                                         /\ \A i \in 1..Len(s) : g[i] = g[i - 1] \o s[i]
                                         /\ FlattenSeq(s) = g[Len(s)]
    BY <2>1, FlattenTable, Zenon
  <2>3. Len(s) = N + 1
    BY <1>1
  <2> QED
    BY <2>2, <2>3
<1> HIDE DEF rest, N
<1> DEFINE T == {i \in Nat : i \in 0..N => g[i + 1] = s[1] \o f[i]}
<1>4. 0 \in T
  <2>1. 1 \in 1..(N + 1) /\ 1 - 1 = 0
    BY <1>1
  <2>2. g[1] = <<>> \o s[1] /\ s[1] \in Seq(S)
    BY <1>1, <1>3, <2>1
  <2>3. g[1] = s[1] \o <<>>
    BY <2>2, ConcatEmptySeq
  <2>4. g[0 + 1] = s[1] \o f[0]
    BY <1>2, <2>3
  <2> QED
    BY <2>4, Zenon
<1>5. ASSUME NEW i \in Nat, g[i + 1] = s[1] \o f[i], i + 1 \in 0..N
      PROVE  g[(i + 1) + 1] = s[1] \o f[i + 1]
  <2>1. /\ i \in 0..N /\ i + 1 \in 1..N /\ i + 2 \in 1..(N + 1) /\ 1 \in 1..(N + 1)
        /\ (i + 2) - 1 = i + 1 /\ (i + 1) - 1 = i /\ (i + 1) + 1 = i + 2
    BY <1>1, <1>5
  <2>2. g[i + 2] = g[(i + 2) - 1] \o s[i + 2]
    BY <1>3, <2>1, Zenon
  <2>4. f[i + 1] = f[(i + 1) - 1] \o rest[i + 1] /\ rest[i + 1] = s[(i + 1) + 1]
    BY <1>1, <1>2, <2>1, Zenon
  <2>5. s[1] \in Seq(S) /\ f[i] \in Seq(S) /\ s[i + 2] \in Seq(S)
    <3>1. f[i] \in Seq(S)
      BY <2>1
    <3>2. s[1] \in Seq(S)
      BY <1>1, <2>1, Zenon
    <3>3. s[i + 2] \in Seq(S)
      BY <1>1, <2>1, Zenon
    <3> QED
      BY <3>1, <3>2, <3>3
  <2>6. (s[1] \o f[i]) \o s[i + 2] = s[1] \o (f[i] \o s[i + 2])
    <3>1. \A a, b, c \in Seq(S) : (a \o b) \o c = a \o (b \o c)
      BY ConcatAssociative, SMTT(30)
    <3> QED
      BY <2>5, <3>1, Zenon
  <2> QED
    BY <1>5, <2>1, <2>2, <2>4, <2>6, Zenon
<1>6. \A i \in Nat : i \in T
  <2>1. ASSUME NEW i \in Nat, i \in T PROVE i + 1 \in T
    <3>1. i + 1 \in Nat /\ (i + 1 \in 0..N => i \in 0..N)
      BY <1>1
    <3>2. i + 1 \in 0..N => g[(i + 1) + 1] = s[1] \o f[i + 1]
      BY <1>5, <2>1, <3>1, Zenon
    <3> QED
      BY <3>1, <3>2, Zenon
  <2> HIDE DEF T
  <2> QED
    BY <1>4, <2>1, NatSet
<1>7. g[N + 1] = s[1] \o f[N]
  <2>1. N \in Nat /\ N \in 0..N
    BY <1>1
  <2> QED
    BY <1>6, <2>1, Zenon
<1> QED
  BY <1>2, <1>3, <1>7 DEF rest

\* Frames of the same size.
LEMMA FlattenLen ==
  ASSUME NEW S, NEW s \in Seq(Seq(S)), NEW n \in Nat, \A i \in 1..Len(s) : Len(s[i]) = n
  PROVE  Len(FlattenSeq(s)) = n * Len(s)
<1> DEFINE N == Len(s)
<1>0. N \in Nat /\ \A i \in 1..N : s[i] \in Seq(S)
  OBVIOUS
<1>1. PICK f \in [0..N -> Seq(S)] : /\ f[0] = <<>>
                                    /\ \A i \in 1..N : f[i] = f[i - 1] \o s[i]
                                    /\ FlattenSeq(s) = f[N]
  BY FlattenTable
<1> HIDE DEF N
<1> DEFINE T == {i \in Nat : i \in 0..N => Len(f[i]) = n * i}
<1>2. 0 \in T
  BY <1>1
<1>3. ASSUME NEW i \in Nat, i \in T PROVE i + 1 \in T
  <2> SUFFICES ASSUME i + 1 \in 0..N PROVE Len(f[i + 1]) = n * (i + 1)
    OBVIOUS
  <2>1. i \in 0..N /\ i + 1 \in 1..N /\ (i + 1) - 1 = i
    BY <1>0
  <2>2. f[i + 1] = f[i] \o s[i + 1] /\ f[i] \in Seq(S) /\ s[i + 1] \in Seq(S)
    BY <1>0, <1>1, <2>1
  <2>3. Len(f[i + 1]) = Len(f[i]) + Len(s[i + 1])
    BY <2>2, ConcatProperties
  <2>4. Len(f[i + 1]) = n * i + n
    BY <1>3, <2>1, <2>3 DEF N
  <2> QED
    BY <2>4
<1>4. \A i \in Nat : i \in T
  <2> HIDE DEF T
  <2> QED
    BY <1>2, <1>3, NatSet
<1> QED
  BY <1>0, <1>1, <1>4 DEF N

-----------------------------------------------------------------------------
\* Frames, observations and transitions.

LEMMA DepthFeaturesType ==
  ASSUME NEW bid \in Int, NEW ask \in Int
  PROVE  /\ DepthFeatures(bid, ask) \in Seq(Int)
         /\ Len(DepthFeatures(bid, ask)) = DepthCells
         /\ DepthFeatures(bid, ask)[MidCell] = IF bid > 0 /\ ask > 0 THEN (bid + ask) \div 2 ELSE 0
<1> DEFINE two == bid > 0 /\ ask > 0
           spread == IF two THEN ask - bid ELSE 0
           mid == IF two THEN (bid + ask) \div 2 ELSE 0
<1>1. spread \in Int /\ mid \in Int
  OBVIOUS
<1>2. DepthFeatures(bid, ask) = <<bid, 1, ask, 1, spread, mid, 0>>
  BY DEF DepthFeatures
<1> HIDE DEF spread, mid
<1>3. /\ <<bid, 1, ask, 1, spread, mid, 0>> \in Seq(Int)
      /\ Len(<<bid, 1, ask, 1, spread, mid, 0>>) = 7
      /\ <<bid, 1, ask, 1, spread, mid, 0>>[6] = mid
  BY <1>1
<1> QED
  BY <1>2, <1>3 DEF DepthCells, MidCell, mid

LEMMA FramesType == Frames \subseteq Seq(Int)
<1> SUFFICES ASSUME NEW e \in Event PROVE Features(e) \in Seq(Int)
  BY DEF Frames
<1>1. e.kind \in {"depth", "execution", "account"} /\ (e.kind = "depth" => e.bid \in Int /\ e.ask \in Int)
  BY EventAssumption
<1>2. CASE e.kind = "depth"
  BY <1>1, <1>2, DepthFeaturesType DEF Features
<1>3. CASE e.kind = "execution"
  <2>1. Features(e) = <<2>>
    BY <1>3 DEF Features
  <2> QED
    BY <2>1
<1>4. CASE e.kind = "account"
  <2>1. Features(e) = <<3>>
    BY <1>4 DEF Features
  <2> QED
    BY <2>1
<1> QED
  BY <1>1, <1>2, <1>3, <1>4

LEMMA FramesAreSeqs ==
  ASSUME NEW s \in Seq(Frames)
  PROVE  s \in Seq(Seq(Int))
  BY FramesType, SeqMonotonic

LEMMA ObservationsType == Observations \subseteq Seq(Int)
<1> SUFFICES ASSUME NEW n \in 0..WindowFrames, NEW s \in [1..n -> Frames]
             PROVE  FlattenSeq(s) \in Seq(Int)
  BY DEF Observations
<1>1. s \in Seq(Frames)
  BY WindowAssumption
<1> QED
  BY <1>1, FramesAreSeqs, FlattenType

LEMMA ObservationIs ==
  ASSUME NEW s \in Seq(Frames), Len(s) <= WindowFrames
  PROVE  FlattenSeq(s) \in Observations
<1>1. Len(s) \in 0..WindowFrames /\ s \in [1..Len(s) -> Frames]
  BY WindowAssumption, LenProperties
<1>2. s \in UNION {[1..n -> Frames] : n \in 0..WindowFrames}
  BY <1>1, Zenon
<1> QED
  BY <1>2, Zenon DEF Observations

LEMMA RewardType ==
  ASSUME NEW o \in Observations, NEW a \in Action
  PROVE  Reward(o, a) \in Int /\ Reward(o, "Hold") = 0
<1>1. o \in Seq(Int)
  BY ObservationsType
<1> DEFINE mid == IF Len(o) >= MidCell THEN o[MidCell] ELSE 0
<1>2. mid \in Int
  BY <1>1 DEF MidCell
<1>3. Reward(o, a) = CASE a = "Hold" -> 0 [] a = "Buy" -> mid [] a = "Sell" -> -mid
  BY DEF Reward
<1> HIDE DEF mid
<1>4. Reward(o, a) \in Int
  BY <1>2, <1>3 DEF Action
<1> QED
  BY <1>4 DEF Reward

\* What is pushed.
Recording(o, a) == [observation |-> o, action |-> a, reward |-> Reward(o, a), done |-> FALSE]

LEMMA RecordingType ==
  ASSUME NEW o \in Observations, NEW a \in Action
  PROVE  Recording(o, a) \in Transitions /\ Recording(o, a) \in Transition
<1>1. Recording(o, a) \in Transitions
  <2>1. Transitions = {Recording(x, b) : x \in Observations, b \in Action}
    BY DEF Recording, Transitions
  <2>2. \E x \in Observations, b \in Action : Recording(o, a) = Recording(x, b)
    OBVIOUS
  <2> QED
    BY <2>1, <2>2
<1> QED
  BY <1>1, TransitionAssumption

LEMMA HoldIsRecorded ==
  ASSUME NEW o \in Observations
  PROVE  [observation |-> o, action |-> "Hold", reward |-> 0, done |-> FALSE] = Recording(o, "Hold")
<1>1. "Hold" \in Action
  BY DEF Action
<1> QED
  BY <1>1, RewardType DEF Recording

-----------------------------------------------------------------------------
\* The orders among messages.

Messages ==
  {Outbound(a) : a \in Action} \cup {[by |-> "dispatch", message |-> m] : m \in OwnMessage}

\* s is the end of t.
Ends(s, t) ==
  /\ Len(s) <= Len(t)
  /\ \A i \in 1..Len(s) : s[i] = t[Len(t) - Len(s) + i]

LEMMA SuffixIs ==
  ASSUME NEW S, NEW s \in Seq(S), NEW t \in Seq(S)
  PROVE  IsSuffix(s, t) <=> Ends(s, t)
<1> DEFINE m == Len(s)
           n == Len(t)
           r == Reverse(s)
           q == Reverse(t)
<1>1. m \in Nat /\ n \in Nat /\ (\A i \in 1..m : s[i] \in S) /\ (\A i \in 1..n : t[i] \in S)
  OBVIOUS
<1>2. r = [i \in 1..m |-> s[(m - i) + 1]] /\ q = [i \in 1..n |-> t[(n - i) + 1]]
  BY DEF Reverse
<1> HIDE DEF m, n, r, q
<1>3. r \in Seq(S) /\ q \in Seq(S) /\ Len(r) = m /\ Len(q) = n
  <2>1. \A i \in 1..m : (m - i) + 1 \in 1..m
    BY <1>1
  <2>2. \A i \in 1..n : (n - i) + 1 \in 1..n
    BY <1>1
  <2>3. r \in [1..m -> S] /\ q \in [1..n -> S]
    BY <1>1, <1>2, <2>1, <2>2
  <2> QED
    BY <1>1, <2>3
<1>4. IsSuffix(s, t) <=> m <= n /\ SubSeq(r, 1, m) = SubSeq(q, 1, m)
  BY <1>3 DEF IsSuffix, IsPrefix, r, q
<1>5. ASSUME m <= n
      PROVE  SubSeq(r, 1, m) = SubSeq(q, 1, m) <=> \A i \in 1..m : r[i] = q[i]
  <2>1. /\ SubSeq(r, 1, m) \in Seq(S) /\ SubSeq(q, 1, m) \in Seq(S)
        /\ Len(SubSeq(r, 1, m)) = m /\ Len(SubSeq(q, 1, m)) = m
        /\ \A i \in 1..m : SubSeq(r, 1, m)[i] = r[i] /\ SubSeq(q, 1, m)[i] = q[i]
    BY <1>1, <1>3, <1>5
  <2> QED
    BY <2>1, SeqEqual
<1>6. ASSUME m <= n
      PROVE  (\A i \in 1..m : r[i] = q[i]) <=> \A i \in 1..m : s[i] = t[(n - m) + i]
  <2>1. ASSUME NEW i \in 1..m
        PROVE  /\ (m - i) + 1 \in 1..m
               /\ r[i] = s[(m - i) + 1] /\ q[i] = t[(n - m) + ((m - i) + 1)]
    BY <1>1, <1>2, <1>6
  <2>2. ASSUME \A i \in 1..m : r[i] = q[i], NEW i \in 1..m PROVE s[i] = t[(n - m) + i]
    <3> DEFINE j == (m - i) + 1
    <3>1. j \in 1..m /\ (m - j) + 1 = i
      BY <1>1
    <3> HIDE DEF j
    <3>2. r[j] = s[(m - j) + 1] /\ q[j] = t[(n - m) + ((m - j) + 1)] /\ r[j] = q[j]
      BY <2>1, <2>2, <3>1
    <3> QED
      BY <3>1, <3>2
  <2>3. ASSUME \A i \in 1..m : s[i] = t[(n - m) + i], NEW i \in 1..m PROVE r[i] = q[i]
    BY <2>1, <2>3
  <2> QED
    BY <2>2, <2>3
<1>7. Ends(s, t) <=> m <= n /\ \A i \in 1..m : s[i] = t[(n - m) + i]
  BY DEF Ends, m, n
<1> QED
  BY <1>4, <1>5, <1>6, <1>7

LEMMA EndsAppend ==
  ASSUME NEW S, NEW s \in Seq(S), NEW t \in Seq(S), NEW x \in Seq(S), Ends(s, t)
  PROVE  Ends(s \o x, t \o x)
<1> DEFINE a == s \o x
           b == t \o x
           k == Len(x)
           m == Len(s)
           n == Len(t)
<1>1. /\ k \in Nat /\ m \in Nat /\ n \in Nat /\ Len(a) = m + k /\ Len(b) = n + k
      /\ \A i \in 1..(m + k) : a[i] = IF i <= m THEN s[i] ELSE x[i - m]
      /\ \A i \in 1..(n + k) : b[i] = IF i <= n THEN t[i] ELSE x[i - n]
  BY ConcatProperties, LenProperties
<1>2. m <= n /\ \A i \in 1..m : s[i] = t[n - m + i]
  BY DEF Ends
<1> HIDE DEF a, b, k, m, n
<1>3. ASSUME NEW i \in 1..(m + k) PROVE a[i] = b[(n + k) - (m + k) + i]
  <2> DEFINE j == n - m + i
  <2>1. j \in 1..(n + k) /\ (n + k) - (m + k) + i = j /\ (j <= n <=> i <= m) /\ j - n = i - m
    BY <1>1, <1>2
  <2>2. b[j] = IF j <= n THEN t[j] ELSE x[j - n]
    BY <1>1, <2>1
  <2>3. a[i] = IF i <= m THEN s[i] ELSE x[i - m]
    BY <1>1
  <2>4. i <= m => s[i] = t[j]
    BY <1>1, <1>2
  <2> HIDE DEF j
  <2> QED
    BY <2>1, <2>2, <2>3, <2>4
<1>4. m + k <= n + k
  BY <1>1, <1>2
<1> QED
  BY <1>1, <1>3, <1>4 DEF Ends, a, b

\* Without its beginning, the end of t is the end of t.
LEMMA EndsTail ==
  ASSUME NEW S, NEW x \in Seq(S), NEW s \in Seq(S), NEW t \in Seq(S), Ends(x \o s, t)
  PROVE  Ends(s, t)
<1> DEFINE a == x \o s
           k == Len(x)
           m == Len(s)
           n == Len(t)
<1>1. /\ k \in Nat /\ m \in Nat /\ n \in Nat /\ Len(a) = k + m
      /\ \A i \in 1..(k + m) : a[i] = IF i <= k THEN x[i] ELSE s[i - k]
  BY ConcatProperties, LenProperties
<1>2. k + m <= n /\ \A i \in 1..(k + m) : a[i] = t[n - (k + m) + i]
  BY <1>1 DEF Ends, a
<1> HIDE DEF a, k, m, n
<1>3. ASSUME NEW i \in 1..m PROVE s[i] = t[n - m + i]
  <2>1. i + k \in 1..(k + m) /\ ~ (i + k <= k) /\ (i + k) - k = i /\ n - (k + m) + (i + k) = n - m + i
    BY <1>1
  <2> QED
    BY <1>1, <1>2, <2>1
<1> QED
  BY <1>1, <1>2, <1>3 DEF Ends, m, n

LEMMA OrderInType ==
  ASSUME NEW m \in Messages
  PROVE  OrderIn(m) \in Seq(Messages)
  BY DEF OrderIn

\* The messages, each as the sequence of no or one order that it is.
Split(messages) == [i \in DOMAIN messages |-> OrderIn(messages[i])]

LEMMA SplitIs ==
  ASSUME NEW s \in Seq(Messages)
  PROVE  /\ Split(s) \in Seq(Seq(Messages))
         /\ Len(Split(s)) = Len(s)
         /\ \A i \in 1..Len(s) : Split(s)[i] = OrderIn(s[i])
<1>1. Len(s) \in Nat /\ DOMAIN s = 1..Len(s) /\ \A i \in 1..Len(s) : s[i] \in Messages
  OBVIOUS
<1>2. \A i \in 1..Len(s) : OrderIn(s[i]) \in Seq(Messages)
  BY <1>1, OrderInType
<1>3. Split(s) = [i \in 1..Len(s) |-> OrderIn(s[i])]
  BY <1>1 DEF Split
<1>4. Split(s) \in [1..Len(s) -> Seq(Messages)]
  BY <1>2, <1>3
<1> QED
  BY <1>1, <1>3, <1>4

LEMMA OrdersType ==
  ASSUME NEW s \in Seq(Messages)
  PROVE  Orders(s) \in Seq(Messages)
  BY SplitIs, FlattenType DEF Orders, Split

LEMMA OrdersAppend ==
  ASSUME NEW s \in Seq(Messages), NEW m \in Messages
  PROVE  Orders(Append(s, m)) = Orders(s) \o OrderIn(m)
<1>1. Append(s, m) \in Seq(Messages) /\ Len(Append(s, m)) = Len(s) + 1 /\ Len(s) \in Nat
      /\ Append(s, m)[Len(s) + 1] = m /\ \A i \in 1..Len(s) : Append(s, m)[i] = s[i]
  BY AppendProperties, LenProperties
<1>2. Split(Append(s, m)) = Append(Split(s), OrderIn(m))
  <2> DEFINE a == Split(Append(s, m))
             b == Append(Split(s), OrderIn(m))
             n == Len(s)
  <2>1. /\ a \in Seq(Seq(Messages)) /\ Len(a) = n + 1
        /\ \A i \in 1..(n + 1) : a[i] = OrderIn(Append(s, m)[i])
    BY <1>1, SplitIs
  <2>2. /\ Split(s) \in Seq(Seq(Messages)) /\ Len(Split(s)) = n
        /\ \A i \in 1..n : Split(s)[i] = OrderIn(s[i])
    BY SplitIs
  <2>3. OrderIn(m) \in Seq(Messages)
    BY OrderInType
  <2>4. /\ b \in Seq(Seq(Messages)) /\ Len(b) = n + 1 /\ b[n + 1] = OrderIn(m)
        /\ \A i \in 1..n : b[i] = Split(s)[i]
    <3> DEFINE c == Split(s)
               y == OrderIn(m)
    <3>1. c \in Seq(Seq(Messages)) /\ y \in Seq(Messages) /\ Len(c) = n
      BY <2>2, <2>3
    <3> HIDE DEF c, y
    <3>2. /\ Append(c, y) \in Seq(Seq(Messages)) /\ Len(Append(c, y)) = Len(c) + 1
          /\ \A i \in 1..Len(c) : Append(c, y)[i] = c[i]
          /\ Append(c, y)[Len(c) + 1] = y
      BY <3>1, AppendProperties
    <3> QED
      BY <3>1, <3>2 DEF c, y
  <2> HIDE DEF a, b
  <2>5. ASSUME NEW i \in 1..(n + 1) PROVE a[i] = b[i]
    <3>1. CASE i = n + 1
      BY <1>1, <2>1, <2>4, <3>1
    <3>2. CASE i # n + 1
      <4>1. i \in 1..n
        BY <1>1, <3>2
      <4> QED
        BY <1>1, <2>1, <2>2, <2>4, <4>1, Zenon
    <3> QED
      BY <3>1, <3>2
  <2>6. Len(a) = Len(b) /\ \A i \in 1..Len(a) : a[i] = b[i]
    BY <2>1, <2>4, <2>5
  <2>7. a = b
    BY <2>1, <2>4, <2>6, SeqEqual
  <2> QED
    BY <2>7 DEF a, b
<1>3. Split(s) \in Seq(Seq(Messages)) /\ OrderIn(m) \in Seq(Messages)
  BY SplitIs, OrderInType
<1>4. FlattenSeq(Append(Split(s), OrderIn(m))) = FlattenSeq(Split(s)) \o OrderIn(m)
  BY <1>3, FlattenAppend
<1> QED
  BY <1>2, <1>4 DEF Orders, Split

LEMMA OrdersTail ==
  ASSUME NEW s \in Seq(Messages), s # <<>>
  PROVE  Orders(s) = OrderIn(s[1]) \o Orders(Tail(s))
<1>1. /\ Tail(s) \in Seq(Messages) /\ Len(s) \in Nat \ {0} /\ Len(Tail(s)) = Len(s) - 1
      /\ \A i \in 1..(Len(s) - 1) : Tail(s)[i] = s[i + 1]
  OBVIOUS
<1> DEFINE a == Split(s)
           b == Split(Tail(s))
           n == Len(s) - 1
<1>2. /\ a \in Seq(Seq(Messages)) /\ Len(a) = n + 1
      /\ \A i \in 1..(n + 1) : a[i] = OrderIn(s[i])
  BY <1>1, SplitIs
<1>3. /\ b \in Seq(Seq(Messages)) /\ Len(b) = n
      /\ \A i \in 1..n : b[i] = OrderIn(Tail(s)[i])
  BY <1>1, SplitIs
<1>4. a # <<>> /\ 1 \in 1..(n + 1) /\ n \in Nat
  BY <1>1, <1>2
<1>5. Tail(a) = b
  <2> HIDE DEF a, b
  <2>1. /\ Tail(a) \in Seq(Seq(Messages)) /\ Len(Tail(a)) = n
        /\ \A i \in 1..n : Tail(a)[i] = a[i + 1]
    <3>1. /\ Tail(a) \in Seq(Seq(Messages)) /\ Len(Tail(a)) = Len(a) - 1
          /\ \A i \in 1..Len(Tail(a)) : Tail(a)[i] = a[i + 1]
      BY <1>2, <1>4, HeadTailProperties
    <3> QED
      BY <1>2, <1>4, <3>1
  <2>2. ASSUME NEW i \in 1..n PROVE Tail(a)[i] = b[i]
    <3>1. i + 1 \in 1..(n + 1) /\ Tail(s)[i] = s[i + 1]
      BY <1>1
    <3> QED
      BY <1>2, <1>3, <2>1, <3>1, Zenon
  <2>3. Len(Tail(a)) = Len(b) /\ \A i \in 1..Len(b) : Tail(a)[i] = b[i]
    BY <1>3, <2>1, <2>2
  <2> QED
    BY <1>3, <2>1, <2>3, SeqEqual
<1>6. a[1] = OrderIn(s[1])
  BY <1>2, <1>4, Zenon
<1> HIDE DEF a, b
<1>7. FlattenSeq(a) = a[1] \o FlattenSeq(Tail(a))
  BY <1>2, <1>4, FlattenHead
<1> QED
  BY <1>5, <1>6, <1>7 DEF Orders, Split, a, b

-----------------------------------------------------------------------------
\* The environment.

\* What transitions asked for.
Asked(s) == [i \in DOMAIN s |-> Outbound(s[i].action)]

LEMMA TransitionIs ==
  ASSUME NEW t \in Transitions
  PROVE  t.action \in Action /\ t.observation \in Observations
         /\ t = Recording(t.observation, t.action) /\ Outbound(t.action) \in Messages
<1>1. PICK o \in Observations, a \in Action : t = Recording(o, a)
  BY DEF Transitions, Recording
<1>2. t.observation = o /\ t.action = a
  BY <1>1 DEF Recording
<1> QED
  BY <1>1, <1>2 DEF Messages

LEMMA AskedIs ==
  ASSUME NEW s \in Seq(Transitions)
  PROVE  /\ Asked(s) \in Seq(Messages)
         /\ Len(Asked(s)) = Len(s)
         /\ \A i \in 1..Len(s) : Asked(s)[i] = Outbound(s[i].action)
<1>1. Len(s) \in Nat /\ DOMAIN s = 1..Len(s) /\ \A i \in 1..Len(s) : s[i] \in Transitions
  OBVIOUS
<1>2. \A i \in 1..Len(s) : Outbound(s[i].action) \in Messages
  BY <1>1, TransitionIs
<1>3. Asked(s) = [i \in 1..Len(s) |-> Outbound(s[i].action)]
  BY <1>1 DEF Asked
<1>4. Asked(s) \in [1..Len(s) -> Messages]
  BY <1>2, <1>3
<1> QED
  BY <1>1, <1>3, <1>4

LEMMA AskedAppend ==
  ASSUME NEW s \in Seq(Transitions), NEW t \in Transitions
  PROVE  Asked(Append(s, t)) = Append(Asked(s), Outbound(t.action))
<1> DEFINE n == Len(s)
           a == Asked(Append(s, t))
           b == Append(Asked(s), Outbound(t.action))
<1>1. /\ Append(s, t) \in Seq(Transitions) /\ Len(Append(s, t)) = n + 1 /\ n \in Nat
      /\ Append(s, t)[n + 1] = t /\ \A i \in 1..n : Append(s, t)[i] = s[i]
  BY AppendProperties, LenProperties
<1>2. /\ a \in Seq(Messages) /\ Len(a) = n + 1
      /\ \A i \in 1..(n + 1) : a[i] = Outbound(Append(s, t)[i].action)
  BY <1>1, AskedIs
<1>3. /\ b \in Seq(Messages) /\ Len(b) = n + 1 /\ b[n + 1] = Outbound(t.action)
      /\ \A i \in 1..n : b[i] = Outbound(s[i].action)
  <2>1. /\ Asked(s) \in Seq(Messages) /\ Len(Asked(s)) = n
        /\ \A i \in 1..n : Asked(s)[i] = Outbound(s[i].action)
    BY AskedIs
  <2>2. Outbound(t.action) \in Messages
    BY TransitionIs
  <2>3. /\ b \in Seq(Messages) /\ Len(b) = Len(Asked(s)) + 1
        /\ \A i \in 1..Len(Asked(s)) : b[i] = Asked(s)[i]
        /\ b[Len(Asked(s)) + 1] = Outbound(t.action)
    BY <2>1, <2>2, AppendProperties
  <2> QED
    BY <2>1, <2>3
<1> HIDE DEF a, b
<1>4. ASSUME NEW i \in 1..(n + 1) PROVE a[i] = b[i]
  <2>1. CASE i = n + 1
    BY <1>1, <1>2, <1>3, <2>1
  <2>2. CASE i # n + 1
    <3>1. i \in 1..n
      BY <1>1, <2>2
    <3> QED
      BY <1>1, <1>2, <1>3, <3>1, Zenon
  <2> QED
    BY <2>1, <2>2
<1>5. a = b
  BY <1>2, <1>3, <1>4, SeqEqual
<1> QED
  BY <1>5 DEF a, b

LEMMA AskedTail ==
  ASSUME NEW s \in Seq(Transitions), s # <<>>
  PROVE  Asked(Tail(s)) = Tail(Asked(s))
<1> DEFINE n == Len(s) - 1
           a == Asked(s)
           b == Asked(Tail(s))
<1>1. /\ Tail(s) \in Seq(Transitions) /\ Len(s) = n + 1 /\ Len(Tail(s)) = n /\ n \in Nat
      /\ \A i \in 1..n : Tail(s)[i] = s[i + 1]
  BY HeadTailProperties, EmptySeq
<1>2. /\ a \in Seq(Messages) /\ Len(a) = n + 1
      /\ \A i \in 1..(n + 1) : a[i] = Outbound(s[i].action)
  BY <1>1, AskedIs
<1>3. /\ b \in Seq(Messages) /\ Len(b) = n
      /\ \A i \in 1..n : b[i] = Outbound(Tail(s)[i].action)
  BY <1>1, AskedIs
<1> HIDE DEF a, b, n
<1>4. /\ Tail(a) \in Seq(Messages) /\ Len(Tail(a)) = n
      /\ \A i \in 1..n : Tail(a)[i] = a[i + 1]
  <2>1. a # <<>>
    BY <1>1, <1>2
  <2> QED
    BY <1>1, <1>2, <2>1, HeadTailProperties
<1>5. ASSUME NEW i \in 1..n PROVE b[i] = Tail(a)[i]
  <2>1. i + 1 \in 1..(n + 1)
    BY <1>1
  <2> QED
    BY <1>1, <1>2, <1>3, <1>4, <2>1, Zenon
<1>6. b = Tail(a)
  BY <1>3, <1>4, <1>5, SeqEqual
<1> QED
  BY <1>6 DEF a, b

EnvTyped ==
  /\ RingType
  /\ window \in Seq(Frames) /\ Len(window) <= WindowFrames
  /\ steps \in 0..MaxSteps /\ fed \in 0..MaxFed
  /\ sent \in Seq(Messages)

\* What is in the ring was observed and asked for, and the newest is the present.
Truth ==
  /\ Snapshot \in Seq(Transitions)
  /\ len > 0 => Snapshot[len].observation = Observation
  /\ Ends(Orders(Recorded), Orders(sent))

\* A push records, at the end of the snapshot.
LEMMA PushRecords ==
  ASSUME RingType, Snapshot \in Seq(Transitions), NEW t \in Transitions, Push(t)
  PROVE  /\ RingType'
         /\ Snapshot' \in Seq(Transitions)
         /\ len' > 0 /\ Snapshot'[len'] = t
         /\ \/ Snapshot' = Append(Snapshot, t)
            \/ Snapshot # <<>> /\ Snapshot' = Append(Tail(Snapshot), t)
<1>0. t \in Transition
  BY TransitionAssumption
<1>1. RingType'
  BY <1>0, PushKeepsType
<1>2. SnapshotShape /\ SnapshotShape'
  <2>1. RingType' => SnapshotShape'
    BY ShapeOfSnapshot, PTL
  <2> QED
    BY <1>1, <2>1, ShapeOfSnapshot
<1>3. Snapshot' = Recent!KeepLast(Snapshot, t, Capacity)
  BY <1>0, <1>1, <1>2, PushKeepsLast
<1>4. Len(Snapshot') = len' /\ Len(Snapshot) \in Nat /\ Capacity \in Nat \ {0}
  BY <1>2, CapacityAssumption, LenProperties DEF SnapshotShape
<1>5. CASE Len(Snapshot) < Capacity
  <2>1. Snapshot' = Append(Snapshot, t)
    BY <1>3, <1>5 DEF Recent!KeepLast
  <2>2. /\ Append(Snapshot, t) \in Seq(Transitions) /\ Len(Append(Snapshot, t)) = Len(Snapshot) + 1
        /\ Append(Snapshot, t)[Len(Snapshot) + 1] = t
    BY AppendProperties
  <2>3. len' = Len(Snapshot) + 1
    BY <1>4, <2>1, <2>2
  <2> QED
    BY <1>1, <1>4, <2>1, <2>2, <2>3
<1>6. CASE ~ (Len(Snapshot) < Capacity)
  <2>1. Snapshot' = Append(Tail(Snapshot), t) /\ Snapshot # <<>>
    BY <1>3, <1>4, <1>6 DEF Recent!KeepLast
  <2>2. Tail(Snapshot) \in Seq(Transitions) /\ Len(Tail(Snapshot)) \in Nat
    BY <2>1, HeadTailProperties, LenProperties
  <2>3. /\ Append(Tail(Snapshot), t) \in Seq(Transitions)
        /\ Len(Append(Tail(Snapshot), t)) = Len(Tail(Snapshot)) + 1
        /\ Append(Tail(Snapshot), t)[Len(Tail(Snapshot)) + 1] = t
    BY <2>2, AppendProperties
  <2>4. len' = Len(Tail(Snapshot)) + 1
    BY <1>4, <2>1, <2>3
  <2> QED
    BY <1>1, <2>1, <2>2, <2>3, <2>4
<1> QED
  BY <1>5, <1>6

LEMMA OrdersPushed ==
  ASSUME RingType, Truth, sent \in Seq(Messages), NEW t \in Transitions, Push(t)
  PROVE  Ends(Orders(Recorded'), Orders(sent) \o OrderIn(Outbound(t.action)))
<1> DEFINE r == Asked(Snapshot)
           m == Outbound(t.action)
<1>1. /\ Recorded = r /\ Recorded' = Asked(Snapshot') /\ Snapshot \in Seq(Transitions)
      /\ r \in Seq(Messages) /\ Orders(r) \in Seq(Messages) /\ Ends(Orders(r), Orders(sent))
  BY AskedIs, OrdersType DEF Truth, Recorded, Asked
<1>2. m \in Messages /\ OrderIn(m) \in Seq(Messages) /\ Orders(sent) \in Seq(Messages)
  BY TransitionIs, OrderInType, OrdersType
<1>3. CASE Snapshot' = Append(Snapshot, t)
  <2>1. Recorded' = Append(r, m)
    BY <1>1, <1>3, AskedAppend
  <2>2. Orders(Recorded') = Orders(r) \o OrderIn(m)
    BY <1>1, <1>2, <2>1, OrdersAppend
  <2> HIDE DEF r, m
  <2>3. Ends(Orders(r) \o OrderIn(m), Orders(sent) \o OrderIn(m))
    BY <1>1, <1>2, EndsAppend
  <2> QED
    BY <2>2, <2>3 DEF m
<1>4. CASE Snapshot # <<>> /\ Snapshot' = Append(Tail(Snapshot), t)
  <2>1. Tail(Snapshot) \in Seq(Transitions)
    BY <1>1, <1>4, HeadTailProperties
  <2>2. Recorded' = Append(Tail(r), m)
    BY <1>1, <1>4, <2>1, AskedAppend, AskedTail
  <2>3. r # <<>>
    <3>1. Len(r) = Len(Snapshot) /\ Len(Snapshot) # 0
      BY <1>1, <1>4, AskedIs, EmptySeq
    <3> QED
      BY <3>1
  <2> HIDE DEF r, m
  <2>4. Tail(r) \in Seq(Messages) /\ r[1] \in Messages
    <3>1. 1 \in 1..Len(r)
      BY <1>1, <2>3, EmptySeq
    <3> QED
      BY <1>1, <2>3, <3>1, HeadTailProperties, ElementOfSeq
  <2>5. OrderIn(r[1]) \in Seq(Messages) /\ Orders(Tail(r)) \in Seq(Messages)
    BY <2>4, OrderInType, OrdersType
  <2>6. Ends(OrderIn(r[1]) \o Orders(Tail(r)), Orders(sent))
    BY <1>1, <2>3, OrdersTail
  <2>7. Ends(Orders(Tail(r)), Orders(sent))
    BY <1>2, <2>5, <2>6, EndsTail
  <2>8. Orders(Recorded') = Orders(Tail(r)) \o OrderIn(m)
    BY <1>2, <2>2, <2>4, OrdersAppend
  <2>9. Ends(Orders(Tail(r)) \o OrderIn(m), Orders(sent) \o OrderIn(m))
    BY <1>2, <2>5, <2>7, EndsAppend
  <2> QED
    BY <2>8, <2>9 DEF m
<1> QED
  BY <1>1, <1>3, <1>4, PushRecords

LEMMA WindowIs ==
  EnvTyped => Observation \in Observations /\ Observation \in Seq(Int)
<1> SUFFICES ASSUME EnvTyped PROVE Observation \in Observations
  BY ObservationsType
<1> QED
  BY ObservationIs DEF EnvTyped, Observation

LEMMA IngestKept ==
  ASSUME EnvTyped, Truth, NEW e \in Event, Ingest(e)
  PROVE  EnvTyped' /\ Truth'
<1>1. fed' \in 0..MaxFed /\ steps' \in 0..MaxSteps /\ sent' = sent /\ sent \in Seq(Messages)
  BY BoundsAssumption DEF Ingest, EnvTyped
<1>2. CASE e.routing_id # Symbol
  <2>1. UNCHANGED <<window, slots, head, len>>
    BY <1>2 DEF Ingest, ring
  <2>2. Snapshot' = Snapshot /\ RingType' = RingType /\ Observation' = Observation
        /\ Recorded' = Recorded
    BY <2>1 DEF Snapshot, Start, RingType, Observation, Recorded
  <2> QED
    BY <1>1, <2>1, <2>2 DEF EnvTyped, Truth
<1>3. CASE e.routing_id = Symbol
  <2> DEFINE t == Recording(Observation', "Hold")
  <2>1. window' \in Seq(Frames) /\ Len(window') <= WindowFrames
    <3>1. Features(e) \in Frames /\ window' = WindowPush(Features(e))
      BY <1>3 DEF Frames, Ingest
    <3>2. window \in Seq(Frames) /\ Len(window) <= WindowFrames /\ Len(window) \in Nat
      BY LenProperties DEF EnvTyped
    <3>3. CASE Len(window) = WindowFrames
      <4>1. window # <<>> /\ window' = Append(Tail(window), Features(e))
        BY <3>1, <3>3, WindowAssumption DEF WindowPush
      <4>2. Tail(window) \in Seq(Frames) /\ Len(Tail(window)) = Len(window) - 1
        BY <3>2, <4>1, HeadTailProperties
      <4>3. window' \in Seq(Frames) /\ Len(window') = Len(Tail(window)) + 1
        BY <3>1, <4>1, <4>2, AppendProperties
      <4> QED
        BY <3>2, <4>2, <4>3
    <3>4. CASE Len(window) # WindowFrames
      <4>1. window' = Append(window, Features(e))
        BY <3>1, <3>4 DEF WindowPush
      <4>2. window' \in Seq(Frames) /\ Len(window') = Len(window) + 1
        BY <3>1, <3>2, <4>1, AppendProperties
      <4> QED
        BY <3>2, <3>4, <4>2, WindowAssumption
    <3> QED
      BY <3>3, <3>4
  <2>2. Observation' \in Observations
    BY <2>1, ObservationIs DEF Observation
  <2>3. t \in Transitions /\ t.observation = Observation' /\ t.action = "Hold"
    BY <2>2, RecordingType DEF Action, Recording
  <2>4. Push(t)
    <3>1. Push([observation |-> Observation', action |-> "Hold", reward |-> 0, done |-> FALSE])
      BY <1>3 DEF Ingest
    <3> QED
      BY <2>2, <3>1, HoldIsRecorded
  <2> HIDE DEF t
  <2>5. RingType /\ Snapshot \in Seq(Transitions)
    BY DEF EnvTyped, Truth
  <2>6. RingType' /\ Snapshot' \in Seq(Transitions) /\ Snapshot'[len'] = t
    BY <2>3, <2>4, <2>5, PushRecords
  <2>7. Ends(Orders(Recorded'), Orders(sent) \o OrderIn(Outbound("Hold")))
    BY <1>1, <2>3, <2>4, <2>5, OrdersPushed
  <2>8. OrderIn(Outbound("Hold")) = <<>>
    BY DEF OrderIn, Outbound, ToOutbound
  <2>9. Orders(sent) \o <<>> = Orders(sent)
    BY <1>1, OrdersType, ConcatEmptySeq
  <2> QED
    BY <1>1, <2>1, <2>3, <2>6, <2>7, <2>8, <2>9 DEF EnvTyped, Truth
<1> QED
  BY <1>2, <1>3

LEMMA StepKept ==
  ASSUME EnvTyped, Truth, NEW a \in Action, NEW accepted \in BOOLEAN, Step(a, accepted)
  PROVE  EnvTyped' /\ Truth'
<1>1. window' = window /\ fed' = fed /\ steps < MaxSteps /\ Observation' = Observation
  BY DEF Step, Observation
<1>2. CASE ~ accepted
  <2>1. UNCHANGED <<sent, slots, head, len, steps>>
    BY <1>2 DEF Step, ring
  <2>2. Snapshot' = Snapshot /\ RingType' = RingType /\ Recorded' = Recorded
    BY <2>1 DEF Snapshot, Start, RingType, Recorded
  <2> QED
    BY <1>1, <2>1, <2>2 DEF EnvTyped, Truth
<1>3. CASE accepted
  <2> DEFINE t == Recording(Observation, a)
             m == Outbound(a)
  <2>1. sent' = Append(sent, m) /\ Push(t) /\ steps' = steps + 1
    BY <1>3 DEF Step, Recording
  <2>2. t \in Transitions /\ t.observation = Observation /\ t.action = a
    BY WindowIs, RecordingType DEF Recording
  <2>3. m \in Messages /\ sent \in Seq(Messages) /\ steps' \in 0..MaxSteps
    BY <1>1, <2>1, BoundsAssumption DEF Messages, EnvTyped
  <2> HIDE DEF t, m
  <2>4. sent' \in Seq(Messages) /\ Orders(sent') = Orders(sent) \o OrderIn(m)
    BY <2>1, <2>3, AppendProperties, OrdersAppend
  <2>5. RingType /\ Snapshot \in Seq(Transitions)
    BY DEF EnvTyped, Truth
  <2>6. RingType' /\ Snapshot' \in Seq(Transitions) /\ Snapshot'[len'] = t
    BY <2>1, <2>2, <2>5, PushRecords
  <2>7. Ends(Orders(Recorded'), Orders(sent) \o OrderIn(m))
    BY <2>1, <2>2, <2>3, <2>5, OrdersPushed DEF m
  <2> QED
    BY <1>1, <2>2, <2>3, <2>4, <2>6, <2>7 DEF EnvTyped, Truth
<1> QED
  BY <1>2, <1>3

\* A message that dispatch sends is no order of a step, and leaves no record.
LEMMA DispatchKept ==
  ASSUME EnvTyped, Truth, NEW own \in OwnMessage, Dispatch(own)
  PROVE  EnvTyped' /\ Truth'
<1> DEFINE m == [by |-> "dispatch", message |-> own]
<1>1. UNCHANGED <<slots, head, len, window, steps, fed>> /\ sent' = Append(sent, m)
  BY DEF Dispatch, ring
<1>2. Snapshot' = Snapshot /\ RingType' = RingType /\ Recorded' = Recorded
      /\ Observation' = Observation
  BY <1>1 DEF Snapshot, Start, RingType, Recorded, Observation
<1>3. m \in Messages /\ OrderIn(m) = <<>> /\ sent \in Seq(Messages)
  BY DEF Messages, OrderIn, EnvTyped
<1> HIDE DEF m
<1>4. sent' \in Seq(Messages) /\ Orders(sent') = Orders(sent) \o <<>>
  BY <1>1, <1>3, AppendProperties, OrdersAppend
<1>5. Orders(sent') = Orders(sent)
  BY <1>3, <1>4, OrdersType, ConcatEmptySeq
<1> QED
  BY <1>1, <1>2, <1>4, <1>5 DEF EnvTyped, Truth

LEMMA EnvStarts == EnvInit => EnvTyped /\ Truth
<1> SUFFICES ASSUME EnvInit PROVE EnvTyped /\ Truth
  OBVIOUS
<1>1. RingType /\ len = 0
  BY CapacityAssumption DEF EnvInit, RingInit, RingType, Index
<1>2. window \in Seq(Frames) /\ Len(window) = 0 /\ sent = <<>> /\ sent \in Seq(Messages)
  BY EmptySeq DEF EnvInit
<1>3. EnvTyped
  BY <1>1, <1>2, WindowAssumption, BoundsAssumption DEF EnvInit, EnvTyped
<1>4. Snapshot = <<>>
  <2>1. 1..len = {}
    BY <1>1
  <2> QED
    BY <2>1 DEF Snapshot
<1>5. Recorded = <<>>
  BY <1>4 DEF Recorded
<1>6. Ends(Orders(Recorded), Orders(sent))
  <2>1. Orders(<<>>) \in Seq(Messages) /\ Recorded = sent
    BY <1>2, <1>5, EmptySeq, OrdersType
  <2> DEFINE q == Orders(<<>>)
  <2>2. q \in Seq(Messages)
    BY <2>1
  <2> HIDE DEF q
  <2>3. Ends(q, q)
    BY <2>2 DEF Ends
  <2> QED
    BY <1>2, <2>1, <2>3 DEF q
<1> QED
  BY <1>1, <1>3, <1>4, <1>6, EmptySeq DEF Truth

LEMMA EnvTypeIs == EnvTyped => EnvType
<1> SUFFICES ASSUME EnvTyped PROVE EnvType
  OBVIOUS
<1>1. ASSUME NEW i \in DOMAIN window
      PROVE  \E e \in Event : e.routing_id = Symbol /\ window[i] = Features(e)
  <2>1. window[i] \in Frames
    BY DEF EnvTyped
  <2> QED
    BY <2>1 DEF Frames
<1>2. ASSUME NEW i \in DOMAIN sent
      PROVE  IF sent[i].by = "step" THEN \E a \in Action : sent[i] = Outbound(a)
             ELSE sent[i].by = "dispatch" /\ sent[i].message \in OwnMessage
  <2>1. sent[i] \in Messages
    BY DEF EnvTyped
  <2> QED
    BY <2>1 DEF Messages, Outbound
<1> QED
  BY <1>1, <1>2 DEF EnvTyped, EnvType

LEMMA TruthIsTold == EnvTyped /\ Truth => ReplayIsTrue
<1> SUFFICES ASSUME EnvTyped, Truth PROVE ReplayIsTrue
  OBVIOUS
<1>1. IsSuffix(Orders(Recorded), Orders(sent))
  <2>1. Recorded \in Seq(Messages) /\ sent \in Seq(Messages)
    BY AskedIs DEF Truth, Recorded, Asked, EnvTyped
  <2>2. Orders(Recorded) \in Seq(Messages) /\ Orders(sent) \in Seq(Messages)
    BY <2>1, OrdersType
  <2> QED
    BY <2>2, SuffixIs DEF Truth
<1>2. ASSUME NEW t \in Snapshots, NEW e \in Event, e.kind = "depth",
             IsPrefix(DepthFeatures(e.bid, e.ask), t.observation), t.action # "Hold"
      PROVE  t.reward = IF t.action = "Buy" THEN Mid(e) ELSE -Mid(e)
  <2>1. t \in Transitions
    <3>1. PICK i \in DOMAIN Snapshot : t = Snapshot[i]
      BY DEF Snapshots
    <3>2. Snapshot \in Seq(Transitions)
      BY DEF Truth
    <3> QED
      BY <3>1, <3>2
  <2> DEFINE o == t.observation
             d == DepthFeatures(e.bid, e.ask)
  <2>2. t.action \in Action /\ o \in Seq(Int) /\ t.reward = Reward(o, t.action)
    BY <2>1, TransitionIs, ObservationsType DEF Recording
  <2>3. /\ d \in Seq(Int) /\ Len(d) = DepthCells /\ d[MidCell] = Mid(e)
    BY <1>2, EventAssumption, DepthFeaturesType DEF Mid
  <2>4. Len(d) <= Len(o) /\ SubSeq(d, 1, Len(d)) = SubSeq(o, 1, Len(d))
    BY <1>2 DEF IsPrefix
  <2> HIDE DEF o, d
  <2>5. Len(o) >= MidCell /\ o[MidCell] = d[MidCell]
    <3>1. Len(o) >= 7 /\ SubSeq(d, 1, 7) = SubSeq(o, 1, 7)
      BY <2>2, <2>3, <2>4 DEF DepthCells
    <3>2. SubSeq(d, 1, 7)[6] = d[6] /\ SubSeq(o, 1, 7)[6] = o[6]
      BY <2>2, <2>3, <3>1 DEF DepthCells
    <3> QED
      BY <2>2, <3>1, <3>2 DEF MidCell
  <2> QED
    BY <1>2, <2>2, <2>3, <2>5 DEF Reward, Action
<1> QED
  BY <1>1, <1>2 DEF ReplayIsTrue, Truth

-----------------------------------------------------------------------------
\* Rollouts.

Inputs == Observations \cup {Zeros(ObsDim)}
Collectible ==
  [observation : {o \in Inputs : Len(o) = ObsDim}, action : Action, value : Int, reward : Int,
   done : BOOLEAN]

RolloutTyped ==
  /\ phase \in {"idle", "collect", "closure", "stepped", "panicked"}
  /\ chosen \in [action : Action, value : Int, reward : Int]
  /\ current \in Inputs
  /\ batch \in Seq(Collectible) /\ Len(batch) <= Horizon
  /\ trainer.lr \in {"base", "win", "lose"} /\ Len(trainer.history) <= PayoffWindow
  /\ total_steps = Horizon * Len(payoffs)

\* The observation that a step of the collector works on: of the right size once the network
\* has taken it; before, the present one, or the zeros that follow the end of an episode.
Current ==
  /\ phase # "idle" => Len(payoffs) < MaxRollouts
  /\ phase \in {"closure", "stepped"} => Len(current) = ObsDim /\ Len(batch) < Horizon
  /\ phase \in {"collect", "panicked"} => current \in {Observation, Zeros(ObsDim)}
  /\ phase = "panicked" => Len(current) # ObsDim

\* A trainer whose window is the last of these payoffs, with the last of these rates.
Follows(p, r) ==
  [history |-> RecentOf(p),
   payoff |-> IF p = <<>> THEN 0 ELSE p[Len(p)],
   lr |-> IF r = <<>> THEN "base" ELSE r[Len(r)]]

Rates ==
  /\ payoffs \in Seq(Range(payoffs)) /\ rates \in Seq(Range(rates))
  /\ Len(payoffs) <= MaxRollouts
  /\ trainer = Follows(payoffs, rates)
  /\ RateFollowsReturn

IInv == EnvTyped /\ Truth /\ RolloutTyped /\ Current /\ Rates

LEMMA ZerosLen == Zeros(ObsDim) \in Inputs /\ Len(Zeros(ObsDim)) = ObsDim
<1>1. ObsDim \in Nat
  BY HorizonAssumption
<1>2. Zeros(ObsDim) = [i \in 1..ObsDim |-> 0]
  BY DEF Zeros
<1>3. Zeros(ObsDim) \in Seq({0})
  BY <1>1, <1>2
<1> QED
  BY <1>1, <1>2, <1>3 DEF Inputs

LEMMA EnvLeft ==
  ASSUME EnvTyped, Truth, UNCHANGED env
  PROVE  EnvTyped' /\ Truth' /\ Observation' = Observation
<1>1. UNCHANGED <<slots, head, len, window, steps, sent, fed>>
  BY DEF env
<1>2. Snapshot' = Snapshot /\ RingType' = RingType /\ Observation' = Observation
      /\ Recorded' = Recorded
  BY <1>1 DEF Snapshot, Start, RingType, Observation, Recorded
<1> QED
  BY <1>1, <1>2 DEF EnvTyped, Truth

Roll == RolloutTyped /\ Current

LEMMA RollStarts == Init => Roll
<1> SUFFICES ASSUME Init PROVE Roll
  OBVIOUS
<1>1. current = <<>> /\ <<>> \in Observations
  <2>1. <<>> \in Seq(Frames) /\ Len(<<>>) <= WindowFrames
    BY EmptySeq, WindowAssumption
  <2>2. FlattenSeq(<<>>) = <<>>
    BY DEF FlattenSeq
  <2> QED
    BY <2>1, <2>2, ObservationIs DEF Init
<1>2. chosen \in [action : Action, value : Int, reward : Int]
  BY DEF Init, NoStep, Action
<1>3. trainer.lr = "base" /\ trainer.history = <<>> /\ PayoffWindow \in Nat
  BY PayoffWindowAssumption DEF Init, NewTrainer
<1>4. batch = <<>> /\ batch \in Seq(Collectible) /\ Len(batch) = 0 /\ Len(payoffs) = 0
      /\ Len(trainer.history) = 0
  BY <1>3, EmptySeq DEF Init
<1>5. RolloutTyped
  BY <1>1, <1>2, <1>3, <1>4, HorizonAssumption DEF Init, RolloutTyped, Inputs
<1>6. Current
  BY DEF Init, Current
<1> QED
  BY <1>5, <1>6 DEF Roll

LEMMA FeedKept ==
  ASSUME EnvTyped, Truth, Roll, Feed
  PROVE  EnvTyped' /\ Truth' /\ Roll'
<1>1. PICK e \in Event : Ingest(e)
  BY DEF Feed
<1>2. EnvTyped' /\ Truth'
  BY <1>1, IngestKept
<1>3. /\ phase \in {"idle", "closure", "stepped"}
      /\ UNCHANGED <<phase, current, chosen, batch, trainer, total_steps, payoffs>>
  BY DEF Feed, rollout
<1> QED
  BY <1>2, <1>3 DEF Roll, RolloutTyped, Current

LEMMA FreeStepKept ==
  ASSUME EnvTyped, Truth, Roll, FreeStep
  PROVE  EnvTyped' /\ Truth' /\ Roll'
<1>1. PICK a \in Action, accepted \in BOOLEAN : Step(a, accepted)
  BY DEF FreeStep
<1>2. EnvTyped' /\ Truth'
  BY <1>1, StepKept
<1>3. /\ phase = "idle"
      /\ UNCHANGED <<phase, current, chosen, batch, trainer, total_steps, payoffs>>
  BY DEF FreeStep, rollout
<1> QED
  BY <1>2, <1>3 DEF Roll, RolloutTyped, Current

LEMMA FreeDispatchKept ==
  ASSUME EnvTyped, Truth, Roll, FreeDispatch
  PROVE  EnvTyped' /\ Truth' /\ Roll'
<1>1. PICK m \in OwnMessage : Dispatch(m)
  BY DEF FreeDispatch
<1>2. EnvTyped' /\ Truth'
  BY <1>1, DispatchKept
<1>3. /\ phase \in {"idle", "closure", "stepped"}
      /\ UNCHANGED <<phase, current, chosen, batch, trainer, total_steps, payoffs>>
  BY DEF FreeDispatch, rollout
<1> QED
  BY <1>2, <1>3 DEF Roll, RolloutTyped, Current

LEMMA BeginKept ==
  ASSUME EnvTyped, Truth, Roll, Begin
  PROVE  EnvTyped' /\ Truth' /\ Roll'
<1>1. EnvTyped' /\ Truth' /\ Observation' = Observation
  BY EnvLeft DEF Begin
<1>2. /\ phase' = "collect" /\ current' = Observation /\ batch' = <<>> /\ Len(payoffs) < MaxRollouts
      /\ UNCHANGED <<chosen, trainer, total_steps, payoffs>>
  BY DEF Begin
<1>3. Observation \in Inputs
  BY WindowIs DEF Inputs
<1>4. batch' \in Seq(Collectible) /\ Len(batch') <= Horizon
  BY <1>2, EmptySeq, HorizonAssumption
<1> QED
  BY <1>1, <1>2, <1>3, <1>4 DEF Roll, RolloutTyped, Current

LEMMA ForwardKept ==
  ASSUME EnvTyped, Truth, Roll, Rates, Forward
  PROVE  EnvTyped' /\ Truth' /\ Roll'
<1>1. EnvTyped' /\ Truth' /\ Observation' = Observation
  BY EnvLeft DEF Forward
<1>2. /\ phase = "collect" /\ Len(batch) < Horizon
      /\ UNCHANGED <<current, batch, trainer, total_steps, payoffs>>
  BY DEF Forward
<1>3. CASE Len(current) = ObsDim
  <2>1. PICK a \in Action : chosen' = [action |-> a, value |-> Critic(current, Len(payoffs)), reward |-> 0]
    BY <1>3 DEF Forward
  <2>2. Critic(current, Len(payoffs)) \in Int
    <3>1. Len(payoffs) \in 0..MaxRollouts
      BY LenProperties DEF Rates
    <3>2. current \in Observations \cup {Zeros(ObsDim)}
      BY DEF Roll, RolloutTyped, Inputs
    <3> QED
      BY <3>1, <3>2, CriticAssumption
  <2>3. chosen' \in [action : Action, value : Int, reward : Int] /\ phase' = "closure"
    BY <1>3, <2>1, <2>2 DEF Forward
  <2> QED
    BY <1>1, <1>2, <1>3, <2>3 DEF Roll, RolloutTyped, Current
<1>4. CASE Len(current) # ObsDim
  <2>1. phase' = "panicked" /\ chosen' = chosen
    BY <1>4 DEF Forward
  <2> QED
    BY <1>1, <1>2, <1>4, <2>1 DEF Roll, RolloutTyped, Current
<1> QED
  BY <1>3, <1>4

LEMMA ClosureStepKept ==
  ASSUME EnvTyped, Truth, Roll, ClosureStep
  PROVE  EnvTyped' /\ Truth' /\ Roll'
<1>1. chosen \in [action : Action, value : Int, reward : Int] /\ Step(chosen.action, TRUE)
  BY DEF Roll, RolloutTyped, ClosureStep
<1>2. EnvTyped' /\ Truth'
  BY <1>1, StepKept
<1>3. chosen' \in [action : Action, value : Int, reward : Int]
  <2>1. Reward(Observation, chosen.action) \in Int
    BY <1>1, WindowIs, RewardType
  <2>2. chosen' = [chosen EXCEPT !.reward = Reward(Observation, chosen.action)]
    BY DEF ClosureStep
  <2> QED
    BY <1>1, <2>1, <2>2
<1>4. /\ phase = "closure" /\ phase' = "stepped"
      /\ UNCHANGED <<current, batch, trainer, total_steps, payoffs>>
  BY DEF ClosureStep
<1> QED
  BY <1>2, <1>3, <1>4 DEF Roll, RolloutTyped, Current

LEMMA ClosureReturnsKept ==
  ASSUME EnvTyped, Truth, Roll, NEW done \in BOOLEAN, ClosureReturns(done)
  PROVE  EnvTyped' /\ Truth' /\ Roll'
<1>1. EnvTyped' /\ Truth' /\ Observation' = Observation
  BY EnvLeft DEF ClosureReturns
<1>2. /\ phase = "stepped" /\ phase' = "collect" /\ chosen' = NoStep
      /\ batch' = Append(batch, Collected(done))
      /\ current' = IF done THEN Zeros(Len(Head(batch').observation)) ELSE Observation
      /\ UNCHANGED <<trainer, total_steps, payoffs>>
  BY DEF ClosureReturns
<1>3. batch \in Seq(Collectible) /\ Len(batch) < Horizon /\ Len(batch) \in Nat
  BY <1>2, LenProperties DEF Roll, RolloutTyped, Current
<1>4. Collected(done) \in Collectible
  BY <1>2 DEF Collected, Collectible, Roll, RolloutTyped, Current
<1>5. batch' \in Seq(Collectible) /\ batch' # <<>> /\ Len(batch') = Len(batch) + 1
  BY <1>2, <1>3, <1>4, AppendProperties
<1>6. Len(Head(batch').observation) = ObsDim
  <2>1. Head(batch') \in Collectible
    BY <1>5, HeadTailProperties
  <2> QED
    BY <2>1 DEF Collectible
<1>7. current' \in {Observation, Zeros(ObsDim)} /\ current' \in Inputs
  BY <1>2, <1>6, WindowIs DEF Inputs
<1>8. chosen' \in [action : Action, value : Int, reward : Int]
  BY <1>2 DEF NoStep, Action
<1>9. Len(batch') <= Horizon
  BY <1>3, <1>5, HorizonAssumption
<1> QED
  BY <1>1, <1>2, <1>5, <1>7, <1>8, <1>9 DEF Roll, RolloutTyped, Current

-----------------------------------------------------------------------------
\* The rates.

LEMMA EmptyTotal == Total(<<>>) = 0
<1> DEFINE e == <<>>
           Is(g) == g = [s \in SUBSET (DOMAIN e) |-> IF s = {} THEN 0 ELSE g[s \ {Max(s)}] + e[Max(s)]]
<1>1. Total(e) = (CHOOSE g : Is(g))[DOMAIN e]
  BY DEF Total, FoldLeft, MapThenFoldSet
<1>2. DOMAIN e = {}
  OBVIOUS
<1>3. Is([s \in SUBSET (DOMAIN e) |-> 0])
  BY <1>2
<1>4. \A g : Is(g) => g[DOMAIN e] = 0
  BY <1>2
<1> HIDE DEF Is
<1>5. Is(CHOOSE g : Is(g))
  BY <1>3
<1> QED
  BY <1>1, <1>4, <1>5

LEMMA RecentIs ==
  ASSUME NEW S, NEW p \in Seq(S)
  PROVE  /\ RecentOf(p) \in Seq(S)
         /\ Len(RecentOf(p)) = IF Len(p) < PayoffWindow THEN Len(p) ELSE PayoffWindow
         /\ \A i \in 1..Len(RecentOf(p)) : RecentOf(p)[i] = p[Len(p) - Len(RecentOf(p)) + i]
<1> DEFINE n == Len(p)
           first == IF n < PayoffWindow THEN 1 ELSE n - PayoffWindow + 1
           r == SubSeq(p, first, n)
<1>1. n \in Nat /\ PayoffWindow \in Nat /\ \A i \in 1..n : p[i] \in S
  BY PayoffWindowAssumption, LenProperties, ElementOfSeq
<1>2. first \in 1..(n + 1) /\ n - first + 1 = IF n < PayoffWindow THEN n ELSE PayoffWindow
  BY <1>1
<1>3. RecentOf(p) = r
  BY DEF RecentOf
<1> HIDE DEF first
<1>4. /\ r \in Seq(S) /\ Len(r) = IF first <= n THEN n - first + 1 ELSE 0
      /\ \A i \in 1..(n - first + 1) : r[i] = p[first + i - 1]
  <2>1. first \in Int /\ n \in Int /\ \A i \in first..n : p[i] \in S
    BY <1>1, <1>2
  <2> QED
    BY <2>1, SubSeqProperties
<1> HIDE DEF n, r
<1>5. Len(r) = n - first + 1
  BY <1>1, <1>2, <1>4
<1>6. ASSUME NEW i \in 1..Len(r) PROVE r[i] = p[n - Len(r) + i]
  <2>1. i \in 1..(n - first + 1) /\ first + i - 1 = n - Len(r) + i
    BY <1>1, <1>2, <1>5
  <2> QED
    BY <1>4, <2>1, Zenon
<1> QED
  BY <1>2, <1>3, <1>4, <1>5, <1>6 DEF n

\* The code's window follows the last payoffs.
LEMMA RecentAppend ==
  ASSUME NEW S, NEW p \in Seq(S), NEW x \in S
  PROVE  LET added == Append(RecentOf(p), x)
         IN  RecentOf(Append(p, x)) = IF Len(added) > PayoffWindow THEN Tail(added) ELSE added
<1> DEFINE n == Len(p)
           more == Append(p, x)
           r == RecentOf(p)
           q == RecentOf(more)
           added == Append(r, x)
           w == PayoffWindow
<1>1. /\ n \in Nat /\ w \in Nat
      /\ more \in Seq(S) /\ Len(more) = n + 1 /\ more[n + 1] = x
      /\ \A i \in 1..n : more[i] = p[i]
  BY PayoffWindowAssumption, LenProperties, AppendProperties
<1>2. /\ r \in Seq(S) /\ Len(r) = IF n < w THEN n ELSE w
      /\ \A i \in 1..Len(r) : r[i] = p[n - Len(r) + i]
  BY RecentIs
<1>3. /\ q \in Seq(S) /\ Len(q) = IF n + 1 < w THEN n + 1 ELSE w
      /\ \A i \in 1..Len(q) : q[i] = more[(n + 1) - Len(q) + i]
  <2> HIDE DEF more
  <2>1. /\ q \in Seq(S) /\ Len(q) = IF Len(more) < w THEN Len(more) ELSE w
        /\ \A i \in 1..Len(q) : q[i] = more[Len(more) - Len(q) + i]
    BY <1>1, RecentIs
  <2> HIDE DEF q, w, n
  <2> QED
    BY <1>1, <2>1
<1>4. /\ added \in Seq(S) /\ Len(added) = Len(r) + 1 /\ added[Len(r) + 1] = x
      /\ \A i \in 1..Len(r) : added[i] = r[i]
  <2> HIDE DEF r
  <2> QED
    BY <1>2, AppendProperties
<1> HIDE DEF n, more, r, q, added, w
<1>5. CASE n < w
  <2>1. Len(r) = n /\ Len(added) = n + 1 /\ ~ (Len(added) > w) /\ Len(q) = n + 1
    BY <1>1, <1>2, <1>3, <1>4, <1>5
  <2>2. ASSUME NEW i \in 1..(n + 1) PROVE q[i] = added[i]
    <3>1. q[i] = more[i]
      <4>1. (n + 1) - (n + 1) + i = i
        BY <1>1
      <4> QED
        BY <1>3, <2>1, <4>1
    <3>2. CASE i = n + 1
      BY <1>1, <1>4, <2>1, <3>1, <3>2
    <3>3. CASE i # n + 1
      <4>1. i \in 1..n /\ n - n + i = i
        BY <1>1, <3>3
      <4>2. r[i] = p[i]
        BY <1>2, <2>1, <4>1
      <4> QED
        BY <1>1, <1>4, <2>1, <3>1, <4>1, <4>2
    <3> QED
      BY <3>2, <3>3
  <2>3. q = added
    BY <1>3, <1>4, <2>1, <2>2, SeqEqual
  <2> QED
    BY <2>1, <2>3 DEF q, more, added, r, w
<1>6. CASE ~ (n < w)
  <2>1. Len(r) = w /\ Len(added) = w + 1 /\ Len(added) > w /\ Len(q) = w /\ added # <<>>
    BY <1>1, <1>2, <1>3, <1>4, <1>6, EmptySeq
  <2>2. /\ Tail(added) \in Seq(S) /\ Len(Tail(added)) = w
        /\ \A i \in 1..w : Tail(added)[i] = added[i + 1]
    <3>1. /\ Tail(added) \in Seq(S) /\ Len(Tail(added)) = Len(added) - 1
          /\ \A i \in 1..Len(Tail(added)) : Tail(added)[i] = added[i + 1]
      BY <1>4, <2>1, HeadTailProperties
    <3> QED
      BY <1>1, <2>1, <3>1
  <2>3. ASSUME NEW i \in 1..w PROVE q[i] = Tail(added)[i]
    <3> DEFINE j == (n + 1) - w + i
    <3>1. j \in 1..(n + 1) /\ (j = n + 1 <=> i = w)
      BY <1>1, <1>6
    <3>2. q[i] = more[j]
      BY <1>3, <2>1
    <3>3. CASE i = w
      <4>1. Tail(added)[i] = x /\ j = n + 1
        BY <1>4, <2>1, <2>2, <3>1, <3>3
      <4> QED
        BY <1>1, <3>2, <4>1
    <3>4. CASE i # w
      <4>1. i + 1 \in 1..w /\ j \in 1..n /\ n - w + (i + 1) = j
        BY <1>1, <3>1, <3>4
      <4>2. Tail(added)[i] = r[i + 1]
        BY <1>4, <2>1, <2>2, <4>1
      <4>3. r[i + 1] = p[n - w + (i + 1)]
        BY <1>2, <2>1, <4>1, Zenon
      <4> HIDE DEF j
      <4> QED
        BY <1>1, <3>2, <4>1, <4>2, <4>3
    <3> QED
      BY <3>3, <3>4
  <2>4. q = Tail(added)
    BY <1>3, <2>1, <2>2, <2>3, SeqEqual
  <2> QED
    BY <2>1, <2>4 DEF q, more, added, r, w
<1> QED
  BY <1>5, <1>6

\* A trainer that follows the payoffs has the rate of the last of them.
LEMMA ActiveIsRate ==
  ASSUME NEW S, NEW p \in Seq(S), NEW w, w.history = RecentOf(p),
         w.payoff = IF p = <<>> THEN 0 ELSE p[Len(p)]
  PROVE  ActiveLr(w) = IF p = <<>> THEN "lose" ELSE RateFor(p)
<1>1. CASE p = <<>>
  <2>0. /\ RecentOf(p) \in Seq(S)
        /\ Len(RecentOf(p)) = IF Len(p) < PayoffWindow THEN Len(p) ELSE PayoffWindow
    BY RecentIs
  <2>1. Len(p) = 0 /\ Len(RecentOf(p)) = 0 /\ RecentOf(p) \in Seq(S)
    <3> HIDE DEF RecentOf
    <3> QED
      BY <1>1, <2>0, EmptySeq, PayoffWindowAssumption
  <2>2. RecentOf(p) = <<>>
    BY <2>1, EmptySeq
  <2> QED
    BY <1>1, <2>1, <2>2, EmptyTotal DEF ActiveLr, IsWinning
<1>2. CASE p # <<>>
  BY <1>2 DEF ActiveLr, IsWinning, RateFor, Last
<1> QED
  BY <1>1, <1>2

LEMMA UpdateFollows ==
  ASSUME NEW S, NEW p \in Seq(S), NEW x \in S, NEW r
  PROVE  LET w == PolicyUpdate(Follows(p, r), x) IN
         /\ w.lr = RateFor(Append(p, x))
         /\ w = [history |-> RecentOf(Append(p, x)), payoff |-> x, lr |-> w.lr]
<1> DEFINE more == Append(p, x)
           u == UpdatePayoff(Follows(p, r), x)
           w == PolicyUpdate(Follows(p, r), x)
<1>1. more \in Seq(S) /\ more # <<>> /\ Len(more) = Len(p) + 1 /\ more[Len(p) + 1] = x
  BY AppendProperties
<1>2. u = [history |-> RecentOf(more), payoff |-> x, lr |-> u.lr]
  <2> DEFINE f == Follows(p, r)
             added == Append(RecentOf(p), x)
             kept == IF Len(added) > PayoffWindow THEN Tail(added) ELSE added
  <2>1. f.history = RecentOf(p) /\ f = [history |-> f.history, payoff |-> f.payoff, lr |-> f.lr]
    BY DEF Follows
  <2>2. u = [f EXCEPT !.payoff = x, !.history = kept]
    BY <2>1 DEF UpdatePayoff
  <2>3. kept = RecentOf(more)
    BY RecentAppend
  <2> HIDE DEF f, u, kept, more
  <2>4. u = [history |-> kept, payoff |-> x, lr |-> f.lr]
    BY <2>1, <2>2
  <2> QED
    BY <2>3, <2>4
<1>3. w = [u EXCEPT !.lr = ActiveLr(u)]
  BY DEF PolicyUpdate
<1>4. ActiveLr(u) = RateFor(more)
  <2>1. u.history = RecentOf(more) /\ u.payoff = IF more = <<>> THEN 0 ELSE more[Len(more)]
    BY <1>1, <1>2
  <2> HIDE DEF u, more
  <2>2. ActiveLr(u) = IF more = <<>> THEN "lose" ELSE RateFor(more)
    BY <1>1, <2>1, ActiveIsRate
  <2> QED
    BY <1>1, <2>2
<1> HIDE DEF u, w, more
<1>5. w = [history |-> RecentOf(more), payoff |-> x, lr |-> RateFor(more)]
  BY <1>2, <1>3, <1>4
<1> QED
  BY <1>5 DEF w, more

LEMMA SeqOfItsRange ==
  ASSUME NEW S, NEW s \in Seq(S)
  PROVE  s \in Seq(Range(s))
<1>1. Len(s) \in Nat /\ DOMAIN s = 1..Len(s) /\ s = [i \in 1..Len(s) |-> s[i]]
  BY LenProperties
<1>2. \A i \in 1..Len(s) : s[i] \in Range(s)
  BY <1>1 DEF Range
<1> QED
  BY <1>1, <1>2

LEMMA RangeIsEnough ==
  ASSUME NEW s, s \in Seq(Range(s)), NEW x
  PROVE  /\ s \in Seq(Range(s) \cup {x})
         /\ Append(s, x) \in Seq(Range(Append(s, x)))
         /\ Len(Append(s, x)) = Len(s) + 1
         /\ Append(s, x)[Len(s) + 1] = x
         /\ \A i \in 1..Len(s) : Append(s, x)[i] = s[i]
         /\ \A i \in 1..Len(s) : SubSeq(Append(s, x), 1, i) = SubSeq(s, 1, i)
         /\ SubSeq(Append(s, x), 1, Len(s) + 1) = Append(s, x)
<1> DEFINE S == Range(s) \cup {x}
           m == Append(s, x)
           n == Len(s)
<1>1. s \in Seq(S)
  <2>1. Range(s) \subseteq S
    OBVIOUS
  <2> QED
    BY <2>1, SeqMonotonic
<1> HIDE DEF S
<1>2. x \in S
  BY DEF S
<1>3. m \in Seq(S) /\ Len(m) = n + 1 /\ m[n + 1] = x /\ \A i \in 1..n : m[i] = s[i]
  BY <1>1, <1>2, AppendProperties
<1>4. n \in Nat /\ \A i \in 1..n : s[i] \in S
  BY <1>1, LenProperties, ElementOfSeq
<1> HIDE DEF m, n
<1>5. m \in Seq(Range(m))
  BY <1>3, SeqOfItsRange
<1>6. \A i \in 1..(n + 1) : m[i] \in S
  BY <1>2, <1>3, <1>4
<1>7. ASSUME NEW i \in 1..n PROVE SubSeq(m, 1, i) = SubSeq(s, 1, i)
  BY <1>3, <1>4
<1>8. SubSeq(m, 1, n + 1) = m
  BY <1>3, <1>4, <1>6
<1> QED
  BY <1>1, <1>3, <1>5, <1>7, <1>8 DEF m, n, S

LEMMA RatesStart == Init => Rates
<1> SUFFICES ASSUME Init PROVE Rates
  OBVIOUS
<1>1. payoffs = <<>> /\ rates = <<>> /\ trainer = NewTrainer
  BY DEF Init
<1>2. \A S : <<>> \in Seq(S) /\ Len(<<>>) = 0 /\ DOMAIN <<>> = {}
  OBVIOUS
<1>3. RecentOf(<<>>) = <<>>
  <2>0. /\ RecentOf(<<>>) \in Seq({})
        /\ Len(RecentOf(<<>>)) = IF Len(<<>>) < PayoffWindow THEN Len(<<>>) ELSE PayoffWindow
    BY <1>2, RecentIs
  <2>1. Len(RecentOf(<<>>)) = 0
    BY <1>2, <2>0, PayoffWindowAssumption
  <2> QED
    BY <2>0, <2>1, EmptySeq
<1>4. trainer = Follows(payoffs, rates)
  BY <1>1, <1>3 DEF NewTrainer, Follows
<1>5. RateFollowsReturn
  BY <1>1, <1>2 DEF RateFollowsReturn
<1> QED
  BY <1>1, <1>2, <1>4, <1>5, HorizonAssumption DEF Rates

LEMMA RatesUpdated ==
  ASSUME Rates, Len(payoffs) < MaxRollouts, NEW x,
         payoffs' = Append(payoffs, x), trainer' = PolicyUpdate(trainer, x),
         rates' = Append(rates, trainer'.lr)
  PROVE  Rates'
<1> DEFINE n == Len(payoffs)
           S == Range(payoffs) \cup {x}
<1>1. /\ payoffs \in Seq(Range(payoffs)) /\ rates \in Seq(Range(rates))
      /\ trainer = Follows(payoffs, rates)
      /\ Len(rates) = n /\ n \in Nat
      /\ DOMAIN payoffs = 1..n
  BY LenProperties DEF Rates, RateFollowsReturn
<1>2. payoffs \in Seq(S) /\ x \in S
  BY <1>1, RangeIsEnough
<1>3. payoffs' \in Seq(Range(payoffs')) /\ rates' \in Seq(Range(rates'))
  BY <1>1, RangeIsEnough
<1>4. /\ Len(payoffs') = n + 1 /\ Len(rates') = n + 1
      /\ rates'[n + 1] = trainer'.lr /\ payoffs'[n + 1] = x
      /\ \A i \in 1..n : rates'[i] = rates[i] /\ SubSeq(payoffs', 1, i) = SubSeq(payoffs, 1, i)
      /\ SubSeq(payoffs', 1, n + 1) = payoffs'
  BY <1>1, RangeIsEnough
<1>5. /\ trainer'.lr = RateFor(payoffs')
      /\ trainer' = [history |-> RecentOf(payoffs'), payoff |-> x, lr |-> trainer'.lr]
  <2> HIDE DEF S
  <2> QED
    BY <1>1, <1>2, UpdateFollows
<1>6. trainer' = Follows(payoffs', rates')
  <2>1. payoffs' # <<>> /\ rates' # <<>>
    BY <1>1, <1>4, EmptySeq
  <2> HIDE DEF n
  <2> QED
    BY <1>4, <1>5, <2>1 DEF Follows
<1>7. RateFollowsReturn'
  <2>1. ASSUME NEW i \in 1..(n + 1)
        PROVE  rates'[i] = RateFor(SubSeq(payoffs', 1, i))
    <3>1. CASE i = n + 1
      BY <1>4, <1>5, <3>1
    <3>2. CASE i # n + 1
      <4>1. i \in 1..n
        BY <1>1, <3>2
      <4>2. rates[i] = RateFor(SubSeq(payoffs, 1, i))
        BY <1>1, <4>1 DEF Rates, RateFollowsReturn
      <4> QED
        BY <1>4, <4>1, <4>2
    <3> QED
      BY <3>1, <3>2
  <2>2. DOMAIN payoffs' = 1..(n + 1)
    BY <1>3, <1>4, LenProperties
  <2> HIDE DEF n
  <2> QED
    BY <1>4, <2>1, <2>2 DEF RateFollowsReturn
<1>8. Len(payoffs') <= MaxRollouts
  BY <1>1, <1>4, HorizonAssumption
<1> QED
  BY <1>3, <1>6, <1>7, <1>8 DEF Rates

LEMMA RatesLeft ==
  ASSUME Rates, UNCHANGED <<trainer, payoffs, rates>>
  PROVE  Rates'
  BY DEF Rates, RateFollowsReturn

LEMMA UpdateKept ==
  ASSUME IInv, NEW bootstrap, Update(bootstrap)
  PROVE  IInv'
<1>1. EnvTyped' /\ Truth' /\ Observation' = Observation
  BY EnvLeft DEF IInv, Update
<1> DEFINE x == Total(Returns(batch, bootstrap, Lambda))
<1>2. /\ phase = "collect" /\ phase' = "idle" /\ Len(batch) = Horizon
      /\ payoffs' = Append(payoffs, x) /\ trainer' = PolicyUpdate(trainer, x)
      /\ rates' = Append(rates, trainer'.lr)
      /\ total_steps' = total_steps + Len(batch)
      /\ UNCHANGED <<chosen, current, batch>>
  BY DEF Update
<1> HIDE DEF x
<1>3. Rates'
  <2>1. Rates /\ Len(payoffs) < MaxRollouts
    BY <1>2 DEF IInv, Current
  <2> QED
    BY <1>2, <2>1, RatesUpdated
<1>4. trainer'.lr \in {"base", "win", "lose"} /\ Len(trainer'.history) <= PayoffWindow
  <2>1. trainer' = Follows(payoffs', rates') /\ payoffs' \in Seq(Range(payoffs'))
    BY <1>3 DEF Rates
  <2>2. Len(trainer'.history) <= PayoffWindow
    <3>1. Len(RecentOf(payoffs')) = IF Len(payoffs') < PayoffWindow THEN Len(payoffs') ELSE PayoffWindow
      BY <2>1, RecentIs
    <3>2. trainer'.history = RecentOf(payoffs')
      BY <2>1 DEF Follows
    <3> QED
      BY <2>1, <3>1, <3>2, LenProperties, PayoffWindowAssumption
  <2>3. trainer'.lr \in {"win", "lose"}
    <3>1. trainer = Follows(payoffs, rates) /\ payoffs \in Seq(Range(payoffs))
      BY DEF IInv, Rates
    <3> DEFINE S == Range(payoffs) \cup {x}
    <3>2. payoffs \in Seq(S) /\ x \in S
      BY <3>1, RangeIsEnough
    <3> HIDE DEF S
    <3>3. trainer'.lr = RateFor(payoffs')
      BY <1>2, <3>1, <3>2, UpdateFollows
    <3> QED
      BY <3>3 DEF RateFor
  <2> QED
    BY <2>2, <2>3
<1>5. total_steps' = Horizon * Len(payoffs')
  <2>1. Len(payoffs') = Len(payoffs) + 1 /\ Len(payoffs) \in Nat /\ total_steps = Horizon * Len(payoffs)
    BY <1>2, RangeIsEnough, LenProperties DEF IInv, Rates, RolloutTyped
  <2> QED
    BY <1>2, <2>1, HorizonAssumption
<1>6. RolloutTyped'
  BY <1>2, <1>4, <1>5 DEF IInv, RolloutTyped
<1>7. Current'
  BY <1>2 DEF Current
<1> QED
  BY <1>1, <1>3, <1>6, <1>7 DEF IInv

-----------------------------------------------------------------------------
\* The inductive invariant: what is in the ring and the window, what the collector works on,
\* and what the rates were chosen from.
THEOREM Invariance == Spec => []IInv
<1>1. Init => IInv
  BY EnvStarts, RollStarts, RatesStart DEF Init, IInv, Roll
<1>2. IInv /\ [Next]_vars => IInv'
  <2> SUFFICES ASSUME IInv, [Next]_vars PROVE IInv'
    OBVIOUS
  <2>0. EnvTyped /\ Truth /\ Roll /\ Rates
    BY DEF IInv, Roll
  <2>1. CASE Feed
    BY <2>0, <2>1, FeedKept, RatesLeft DEF IInv, Roll, Feed, rollout
  <2>2. CASE FreeStep
    BY <2>0, <2>2, FreeStepKept, RatesLeft DEF IInv, Roll, FreeStep, rollout
  <2>3. CASE FreeDispatch
    BY <2>0, <2>3, FreeDispatchKept, RatesLeft DEF IInv, Roll, FreeDispatch, rollout
  <2>4. CASE Begin
    BY <2>0, <2>4, BeginKept, RatesLeft DEF IInv, Roll, Begin
  <2>5. CASE Forward
    BY <2>0, <2>5, ForwardKept, RatesLeft DEF IInv, Roll, Forward
  <2>6. CASE ClosureStep
    BY <2>0, <2>6, ClosureStepKept, RatesLeft DEF IInv, Roll, ClosureStep
  <2>7. ASSUME NEW done \in BOOLEAN, ClosureReturns(done) PROVE IInv'
    BY <2>0, <2>7, ClosureReturnsKept, RatesLeft DEF IInv, Roll, ClosureReturns
  <2>8. ASSUME NEW bootstrap \in Bootstraps, Update(bootstrap) PROVE IInv'
    BY <2>8, UpdateKept
  <2>9. CASE UNCHANGED vars
    <3>1. UNCHANGED env /\ UNCHANGED rollout
      BY <2>9 DEF vars
    <3>2. EnvTyped' /\ Truth' /\ Observation' = Observation
      BY <2>0, <3>1, EnvLeft
    <3>3. UNCHANGED <<phase, current, chosen, batch, trainer, total_steps, payoffs, rates, reported>>
      BY <3>1 DEF rollout
    <3>4. Rates'
      BY <2>0, <3>3, RatesLeft
    <3>5. RolloutTyped' /\ Current'
      BY <2>0, <3>2, <3>3 DEF Roll, RolloutTyped, Current
    <3> QED
      BY <3>2, <3>4, <3>5 DEF IInv
  <2> QED
    BY <2>1, <2>2, <2>3, <2>4, <2>5, <2>6, <2>7, <2>8, <2>9 DEF Next
<1> QED
  BY <1>1, <1>2, PTL DEF Spec

LEMMA TypesHold == IInv => TypeOK
<1> SUFFICES ASSUME IInv PROVE TypeOK
  OBVIOUS
<1>1. EnvType
  BY EnvTypeIs DEF IInv
<1>2. ASSUME NEW i \in DOMAIN batch
      PROVE  Len(batch[i].observation) = ObsDim /\ batch[i].done \in BOOLEAN
  <2>1. batch[i] \in Collectible
    BY DEF IInv, RolloutTyped
  <2> QED
    BY <2>1 DEF Collectible
<1> QED
  BY <1>1, <1>2 DEF IInv, RolloutTyped, TypeOK

\* The window, the ring, the batch and the trainer keep their types, the batch its size and
\* its observations that of the network's input; the steps counted are the horizon times
\* the number of updates.
THEOREM TypeCorrect == Spec => []TypeOK
  BY Invariance, TypesHold, PTL

\* The replay ring tells the truth about the past: the orders recorded are the last ones that
\* steps sent, the newest observation the present one, the rewards those of the observations.
THEOREM ReplayTellsTheTruth == Spec => []ReplayIsTrue
<1>1. IInv => ReplayIsTrue
  BY TruthIsTold DEF IInv
<1> QED
  BY <1>1, Invariance, PTL

\* Each update's rate is that of its payoff against the mean of the window of the last
\* payoffs, whatever the rollouts before it returned.
THEOREM RatesFollowPayoffs == Spec => []RateFollowsReturn
<1>1. IInv => RateFollowsReturn
  BY DEF IInv, Rates
<1> QED
  BY <1>1, Invariance, PTL

\* With a driver whose obs_dim is the size of a full window of depth frames, a rollout panics
\* only on a ragged observation.  (With another obs_dim it panics on the full window itself.)
THEOREM PanicOnRagged ==
  ASSUME ObsDim = WindowFrames * DepthCells
  PROVE  Spec => []PanicsOnlyWhenRagged
<1>1. IInv => PanicsOnlyWhenRagged
  <2> SUFFICES ASSUME IInv, phase = "panicked", ~ (Len(window) < WindowFrames),
                      \A i \in DOMAIN window : Len(window[i]) = DepthCells
               PROVE  FALSE
    BY DEF PanicsOnlyWhenRagged
  <2>1. window \in Seq(Frames) /\ Len(window) <= WindowFrames
    BY DEF IInv, EnvTyped
  <2>2. Len(window) = WindowFrames
    BY <2>1, LenProperties, WindowAssumption
  <2>3. window \in Seq(Seq(Int)) /\ \A i \in 1..Len(window) : Len(window[i]) = DepthCells
    BY <2>1, FramesAreSeqs, LenProperties
  <2>4. Len(Observation) = DepthCells * Len(window)
    <3>1. DepthCells \in Nat
      BY DEF DepthCells
    <3> QED
      BY <2>3, <3>1, FlattenLen DEF Observation
  <2>5. Len(Observation) = ObsDim
    BY <2>2, <2>4, WindowAssumption DEF DepthCells
  <2> QED
    BY <2>5, ZerosLen DEF IInv, Current
<1> QED
  BY <1>1, Invariance, PTL

-----------------------------------------------------------------------------
\* Sums of sequences.

LEMMA MaxIs ==
  ASSUME NEW q, NEW m \in q, m \in Nat, q \subseteq Nat, \A y \in q : y <= m
  PROVE  Max(q) = m
<1>1. \A y \in q : m >= y
  OBVIOUS
<1>2. Max(q) \in q /\ \A y \in q : Max(q) >= y
  BY <1>1 DEF Max
<1>3. Max(q) \in Nat /\ Max(q) <= m /\ Max(q) >= m
  BY <1>2
<1> QED
  BY <1>3

\* A sum over the subsets of 1..n, the largest element last.
Summed(g, n, a) ==
  \A q \in SUBSET (1..n) : g[q] = IF q = {} THEN 0 ELSE g[q \ {Max(q)}] + a[Max(q)]

LEMMA MaxIn ==
  ASSUME NEW n \in Nat, NEW q \in SUBSET (1..n), q # {}
  PROVE  Max(q) \in q
<1> DEFINE bounds == {k \in Nat : \A y \in q : y <= k}
<1>1. PICK b \in bounds : \A k \in bounds : b <= k
  <2>1. n \in bounds
    OBVIOUS
  <2> HIDE DEF bounds
  <2>2. bounds # {} /\ bounds \subseteq Nat
    BY <2>1 DEF bounds
  <2> QED
    BY <2>2, Least
<1>2. b \in Nat /\ \A y \in q : y <= b /\ y \in Nat \ {0}
  BY <1>1
<1>3. b \in q
  <2> SUFFICES ASSUME b \notin q PROVE FALSE
    OBVIOUS
  <2>1. PICK y : y \in q
    OBVIOUS
  <2>2. b - 1 \in Nat /\ \A z \in q : z <= b - 1
    BY <1>2, <2>1
  <2> QED
    BY <1>1, <1>2, <2>2
<1>4. Max(q) = b
  BY <1>2, <1>3, MaxIs
<1> QED
  BY <1>3, <1>4

LEMMA SummedExists ==
  ASSUME NEW a \in [Nat -> Int]
  PROVE  \A n \in Nat : \E g \in [SUBSET (1..n) -> Int] : Summed(g, n, a)
<1> DEFINE T == {n \in Nat : \E g \in [SUBSET (1..n) -> Int] : Summed(g, n, a)}
<1>1. 0 \in T
  <2> DEFINE g == [q \in SUBSET (1..0) |-> 0]
  <2>1. \A q \in SUBSET (1..0) : q = {}
    OBVIOUS
  <2>2. Summed(g, 0, a) /\ g \in [SUBSET (1..0) -> Int]
    BY <2>1 DEF Summed
  <2> HIDE DEF g
  <2> QED
    BY <2>2
<1>2. ASSUME NEW n \in Nat, n \in T PROVE n + 1 \in T
  <2>1. PICK g \in [SUBSET (1..n) -> Int] : Summed(g, n, a)
    BY <1>2
  <2> DEFINE h == [q \in SUBSET (1..(n + 1)) |->
                     IF n + 1 \in q THEN g[q \ {n + 1}] + a[n + 1] ELSE g[q]]
  <2>2. \A q \in SUBSET (1..(n + 1)) : q \ {n + 1} \in SUBSET (1..n)
    OBVIOUS
  <2>3. \A q \in SUBSET (1..(n + 1)) : n + 1 \notin q => q \in SUBSET (1..n)
    OBVIOUS
  <2>4. h \in [SUBSET (1..(n + 1)) -> Int]
    BY <2>2, <2>3
  <2>5. ASSUME NEW q \in SUBSET (1..(n + 1))
        PROVE  h[q] = IF q = {} THEN 0 ELSE h[q \ {Max(q)}] + a[Max(q)]
    <3>1. CASE n + 1 \in q
      <4>1. Max(q) = n + 1
        <5>1. n + 1 \in Nat /\ q \subseteq Nat /\ \A y \in q : y <= n + 1
          OBVIOUS
        <5> QED
          BY <3>1, <5>1, MaxIs
      <4>2. q \ {n + 1} \in SUBSET (1..(n + 1)) /\ n + 1 \notin q \ {n + 1}
        OBVIOUS
      <4>3. h[q \ {n + 1}] = g[q \ {n + 1}]
        BY <4>2
      <4>4. h[q] = g[q \ {n + 1}] + a[n + 1]
        BY <3>1
      <4> QED
        BY <3>1, <4>1, <4>3, <4>4
    <3>2. CASE n + 1 \notin q
      <4>1. q \in SUBSET (1..n) /\ h[q] = g[q]
        BY <2>3, <3>2
      <4>2. CASE q = {}
        BY <2>1, <4>1, <4>2 DEF Summed
      <4>3. CASE q # {}
        <5>1. q \ {Max(q)} \in SUBSET (1..(n + 1)) /\ n + 1 \notin q \ {Max(q)}
          BY <3>2
        <5>2. h[q \ {Max(q)}] = g[q \ {Max(q)}]
          BY <5>1
        <5>3. g[q] = g[q \ {Max(q)}] + a[Max(q)]
          BY <2>1, <4>1, <4>3 DEF Summed
        <5> QED
          BY <4>1, <4>3, <5>2, <5>3
      <4> QED
        BY <4>2, <4>3
    <3> QED
      BY <3>1, <3>2
  <2> HIDE DEF h
  <2>6. Summed(h, n + 1, a)
    BY <2>5 DEF Summed
  <2> QED
    BY <2>4, <2>6
<1> HIDE DEF T
<1>3. \A n \in Nat : n \in T
  BY <1>1, <1>2, NatSet
<1> QED
  BY <1>3 DEF T

LEMMA TotalTable ==
  ASSUME NEW s \in Seq(Int)
  PROVE  \E f \in [0..Len(s) -> Int] :
           /\ f[0] = 0
           /\ \A i \in 1..Len(s) : f[i] = f[i - 1] + s[i]
           /\ Total(s) = f[Len(s)]
<1> DEFINE N == Len(s)
           a == [i \in Nat |-> IF i \in 1..N THEN s[i] ELSE 0]
           Is(g) == g = [q \in SUBSET (DOMAIN s) |->
                           IF q = {} THEN 0 ELSE g[q \ {Max(q)}] + s[Max(q)]]
<1>1. N \in Nat /\ DOMAIN s = 1..N /\ a \in [Nat -> Int] /\ \A i \in 1..N : s[i] \in Int /\ a[i] = s[i]
  BY LenProperties, ElementOfSeq
<1>2. Total(s) = (CHOOSE g : Is(g))[DOMAIN s]
  BY DEF Total, FoldLeft, MapThenFoldSet
<1> HIDE DEF a, N
<1>3. PICK g \in [SUBSET (1..N) -> Int] : Summed(g, N, a)
  BY <1>1, SummedExists
<1>4. Is(g)
  <2>1. ASSUME NEW q \in SUBSET (1..N)
        PROVE  g[q] = IF q = {} THEN 0 ELSE g[q \ {Max(q)}] + s[Max(q)]
    <3>1. CASE q = {}
      BY <1>3, <3>1 DEF Summed
    <3>2. CASE q # {}
      <4>1. Max(q) \in 1..N
        BY <1>1, <3>2, MaxIn
      <4> QED
        BY <1>1, <1>3, <3>2, <4>1 DEF Summed
    <3> QED
      BY <3>1, <3>2
  <2> QED
    BY <1>1, <2>1
<1> DEFINE c == CHOOSE g1 : Is(g1)
<1>5. Is(c)
  <2> HIDE DEF Is
  <2> QED
    BY <1>4
<1>6. \A q \in SUBSET (1..N) : c[q] = IF q = {} THEN 0 ELSE c[q \ {Max(q)}] + s[Max(q)]
  <2> HIDE DEF c
  <2> QED
    BY <1>1, <1>5
<1>7. Total(s) = c[1..N]
  BY <1>1, <1>2
<1> HIDE DEF c, Is
<1> DEFINE f == [i \in 0..N |-> c[1..i]]
<1>8. c[1..0] = 0
  <2>1. 1..0 = {} /\ {} \in SUBSET (1..N)
    OBVIOUS
  <2> QED
    BY <1>6, <2>1
<1>9. ASSUME NEW i \in 1..N PROVE c[1..i] = c[1..(i - 1)] + s[i]
  <2>0. i \in Nat /\ i <= N /\ 1 <= i
    BY <1>1
  <2>1. 1..i \in SUBSET (1..N) /\ 1..i # {} /\ (1..i) \ {i} = 1..(i - 1)
    <3>1. ASSUME NEW j PROVE j \in (1..i) \ {i} <=> j \in 1..(i - 1)
      BY <2>0
    <3>2. (1..i) \ {i} = 1..(i - 1)
      BY <3>1
    <3>3. i \in 1..i /\ \A j \in 1..i : j \in 1..N
      BY <1>1, <2>0
    <3> QED
      BY <3>2, <3>3
  <2>2. Max(1..i) = i
    <3>1. i \in 1..i /\ i \in Nat /\ 1..i \subseteq Nat /\ \A y \in 1..i : y <= i
      BY <1>1
    <3> QED
      BY <3>1, MaxIs
  <2> QED
    BY <1>6, <2>1, <2>2
<1>10. \A i \in 0..N : c[1..i] \in Int
  <2> DEFINE T == {i \in Nat : i \in 0..N => c[1..i] \in Int}
  <2>1. 0 \in T
    BY <1>8
  <2>2. ASSUME NEW i \in Nat, i \in T PROVE i + 1 \in T
    <3> SUFFICES ASSUME i + 1 \in 0..N PROVE c[1..(i + 1)] \in Int
      OBVIOUS
    <3>1. i \in 0..N /\ i + 1 \in 1..N /\ (i + 1) - 1 = i
      BY <1>1
    <3>2. c[1..(i + 1)] = c[1..i] + s[i + 1]
      BY <1>9, <3>1
    <3> QED
      BY <1>1, <2>2, <3>1, <3>2
  <2>3. \A i \in Nat : i \in T
    <3> HIDE DEF T
    <3> QED
      BY <2>1, <2>2, NatSet
  <2> QED
    BY <1>1, <2>3
<1>11. f \in [0..N -> Int]
  BY <1>10
<1>12. f[0] = 0 /\ f[N] = Total(s) /\ \A i \in 1..N : f[i] = f[i - 1] + s[i]
  <2>1. 0 \in 0..N /\ N \in 0..N /\ \A i \in 1..N : i \in 0..N /\ i - 1 \in 0..N
    BY <1>1
  <2> QED
    BY <1>7, <1>8, <1>9, <2>1
<1> HIDE DEF f
<1> QED
  BY <1>11, <1>12 DEF N

LEMMA TotalType ==
  ASSUME NEW s \in Seq(Int)
  PROVE  Total(s) \in Int
<1>1. PICK f \in [0..Len(s) -> Int] : Total(s) = f[Len(s)]
  BY TotalTable
<1> QED
  BY <1>1, LenProperties

-----------------------------------------------------------------------------
\* Advantages and returns.

\* x is computed from the end: each element from the next.
FromEnd(x, n, d, m) == \A i \in 1..n : x[i] = d[i] + IF i = n THEN 0 ELSE m[i] * x[i + 1]

LEMMA FromEndExists ==
  ASSUME NEW n \in Nat, NEW d \in [1..n -> Int], NEW m \in [1..n -> Int]
  PROVE  \E x \in [1..n -> Int] : FromEnd(x, n, d, m)
<1> DEFINE at(k) == n - k + 1
           step == [y \in Nat \X Int |->
                      IF y[1] \in 1..n
                      THEN d[at(y[1])] + IF y[1] = 1 THEN 0 ELSE m[at(y[1])] * y[2]
                      ELSE 0]
<1>1. step \in [Nat \X Int -> Int]
  <2>1. ASSUME NEW y \in Nat \X Int, y[1] \in 1..n
        PROVE  d[at(y[1])] + (IF y[1] = 1 THEN 0 ELSE m[at(y[1])] * y[2]) \in Int
    <3>1. at(y[1]) \in 1..n /\ y[2] \in Int
      BY <2>1
    <3>2. d[at(y[1])] \in Int /\ m[at(y[1])] \in Int
      BY <3>1
    <3> HIDE DEF at
    <3> QED
      BY <3>1, <3>2
  <2> QED
    BY <2>1
<1>2. PICK f : Iterates(f, n, Int, 0, step)
  <2>1. 0 \in Int
    OBVIOUS
  <2> HIDE DEF step
  <2>2. \A k \in Nat : \E f : Iterates(f, k, Int, 0, step)
    BY <1>1, <2>1, Iterated, Zenon
  <2> QED
    BY <2>2
<1>3. f \in [0..n -> Int] /\ \A k \in 1..n : f[k] = step[<<k, f[k - 1]>>]
  BY <1>2 DEF Iterates
<1>4. ASSUME NEW k \in 1..n
      PROVE  f[k] = d[at(k)] + IF k = 1 THEN 0 ELSE m[at(k)] * f[k - 1]
  <2>1. k \in Nat /\ k - 1 \in 0..n
    OBVIOUS
  <2>2. <<k, f[k - 1]>> \in Nat \X Int
    BY <1>3, <2>1
  <2> HIDE DEF at
  <2> QED
    BY <1>3, <2>2
<1> DEFINE x == [i \in 1..n |-> f[at(i)]]
<1>5. x \in [1..n -> Int]
  <2>1. \A i \in 1..n : at(i) \in 0..n
    OBVIOUS
  <2> QED
    BY <1>3, <2>1
<1>6. ASSUME NEW i \in 1..n PROVE x[i] = d[i] + IF i = n THEN 0 ELSE m[i] * x[i + 1]
  <2>1. at(i) \in 1..n /\ at(at(i)) = i /\ (at(i) = 1 <=> i = n)
    OBVIOUS
  <2>2. i # n => i + 1 \in 1..n /\ at(i + 1) = at(i) - 1
    OBVIOUS
  <2> HIDE DEF at
  <2>3. x[i] = d[i] + IF i = n THEN 0 ELSE m[i] * f[at(i) - 1]
    BY <1>4, <2>1
  <2>4. i # n => x[i + 1] = f[at(i) - 1]
    BY <2>2
  <2> HIDE DEF x
  <2> QED
    BY <2>3, <2>4
<1> HIDE DEF x
<1> QED
  BY <1>5, <1>6 DEF FromEnd

LEMMA FromEndSame ==
  ASSUME NEW n \in Nat, NEW d, NEW m, NEW x, NEW y, FromEnd(x, n, d, m), FromEnd(y, n, d, m)
  PROVE  \A i \in 1..n : x[i] = y[i]
<1> DEFINE T == {k \in Nat : k \in 0..(n - 1) => x[n - k] = y[n - k]}
<1>1. 0 \in T
  <2> SUFFICES ASSUME 0 \in 0..(n - 1) PROVE x[n] = y[n]
    OBVIOUS
  <2>1. n \in 1..n
    OBVIOUS
  <2> QED
    BY <2>1 DEF FromEnd
<1>2. ASSUME NEW k \in Nat, k \in T PROVE k + 1 \in T
  <2> SUFFICES ASSUME k + 1 \in 0..(n - 1) PROVE x[n - (k + 1)] = y[n - (k + 1)]
    OBVIOUS
  <2> DEFINE i == n - (k + 1)
  <2>1. i \in 1..n /\ i # n /\ i + 1 = n - k /\ k \in 0..(n - 1)
    OBVIOUS
  <2>2. x[i + 1] = y[i + 1]
    BY <1>2, <2>1
  <2> HIDE DEF i
  <2>3. x[i] = d[i] + m[i] * x[i + 1] /\ y[i] = d[i] + m[i] * y[i + 1]
    BY <2>1 DEF FromEnd
  <2>4. x[i] = y[i]
    BY <2>2, <2>3
  <2> QED
    BY <2>4 DEF i
<1>3. \A k \in Nat : k \in T
  <2> HIDE DEF T
  <2> QED
    BY <1>1, <1>2, NatSet
<1>4. ASSUME NEW i \in 1..n PROVE x[i] = y[i]
  <2>1. n - i \in Nat /\ n - i \in 0..(n - 1) /\ n - (n - i) = i
    OBVIOUS
  <2> QED
    BY <1>3, <2>1
<1> QED
  BY <1>4

LEMMA PowersAre ==
  ASSUME NEW c \in Int
  PROVE  /\ Powers(c) \in [0..Horizon -> Int]
         /\ Powers(c)[0] = 1
         /\ \A n \in 1..Horizon : Powers(c)[n] = c * Powers(c)[n - 1]
<1> DEFINE step == [x \in Nat \X Int |-> c * x[2]]
           Is(f) == f = [n \in 0..Horizon |-> IF n = 0 THEN 1 ELSE c * f[n - 1]]
           p == CHOOSE f : Is(f)
<1>0. Horizon \in Nat
  BY HorizonAssumption
<1>1. step \in [Nat \X Int -> Int]
  OBVIOUS
<1>2. PICK f : Iterates(f, Horizon, Int, 1, step)
  <2>1. 1 \in Int
    OBVIOUS
  <2> HIDE DEF step
  <2>2. \A k \in Nat : \E f : Iterates(f, k, Int, 1, step)
    BY <1>1, <2>1, Iterated, Zenon
  <2> QED
    BY <1>0, <2>2
<1>3. f \in [0..Horizon -> Int] /\ f[0] = 1
  BY <1>2 DEF Iterates
<1>4. ASSUME NEW n \in 1..Horizon PROVE f[n] = c * f[n - 1]
  <2>1. n \in Nat /\ n - 1 \in 0..Horizon
    BY <1>0
  <2>2. <<n, f[n - 1]>> \in Nat \X Int
    BY <1>3, <2>1
  <2> QED
    BY <1>2, <2>2 DEF Iterates
<1>5. Is(f)
  <2>1. ASSUME NEW n \in 0..Horizon PROVE f[n] = IF n = 0 THEN 1 ELSE c * f[n - 1]
    <3>1. n = 0 \/ n \in 1..Horizon
      BY <1>0
    <3> QED
      BY <1>3, <1>4, <3>1
  <2> QED
    BY <1>3, <2>1
<1>6. Is(p)
  <2> HIDE DEF Is
  <2> QED
    BY <1>5
<1> HIDE DEF p
<1>7. \A n \in 0..Horizon : p[n] = IF n = 0 THEN 1 ELSE c * p[n - 1]
  BY <1>6
<1>8. p[0] = 1 /\ \A n \in 1..Horizon : p[n] = c * p[n - 1]
  <2>1. 0 \in 0..Horizon /\ \A n \in 1..Horizon : n \in 0..Horizon /\ n # 0
    BY <1>0
  <2> QED
    BY <1>7, <2>1
<1>9. InStep(f, p, Horizon)
  BY <1>3, <1>4, <1>8 DEF InStep
<1>10. \A n \in 0..Horizon : p[n] = f[n]
  BY <1>0, <1>9, SameSteps
<1>11. p \in [0..Horizon -> Int]
  <2>1. \A n \in 0..Horizon : p[n] \in Int
    BY <1>3, <1>10
  <2>2. p = [n \in 0..Horizon |-> p[n]]
    BY <1>6
  <2> QED
    BY <2>1, <2>2
<1>12. Powers(c) = p
  BY DEF Powers, p
<1> QED
  BY <1>8, <1>11, <1>12

LEMMA Distributes ==
  \A a, b, c \in Int : a * (b + c) = a * b + a * c /\ a * b \in Int /\ a * c \in Int
OBVIOUS

LEMMA Regroups == \A a, b, c \in Int : (a * b) * c = a * (b * c) /\ b * c \in Int
OBVIOUS

LEMMA TotalHead ==
  ASSUME NEW s \in Seq(Int), NEW t \in Seq(Int), NEW c \in Int, Len(s) = Len(t) + 1,
         \A k \in 1..Len(t) : s[k + 1] = c * t[k]
  PROVE  Total(s) = s[1] + c * Total(t)
<1> DEFINE N == Len(t)
<1>1. N \in Nat /\ Len(s) = N + 1 /\ \A k \in 1..N : t[k] \in Int /\ s[k + 1] = c * t[k]
  BY LenProperties, ElementOfSeq
<1>2. s[1] \in Int
  <2>1. 1 \in 1..Len(s)
    BY <1>1
  <2> QED
    BY <2>1, ElementOfSeq
<1>3. PICK f \in [0..Len(s) -> Int] : /\ f[0] = 0
                                      /\ \A i \in 1..Len(s) : f[i] = f[i - 1] + s[i]
                                      /\ Total(s) = f[Len(s)]
  BY TotalTable
<1>4. PICK h \in [0..N -> Int] : /\ h[0] = 0
                                 /\ \A i \in 1..N : h[i] = h[i - 1] + t[i]
                                 /\ Total(t) = h[N]
  BY TotalTable
<1> HIDE DEF N
<1> DEFINE T == {k \in Nat : k \in 0..N => f[k + 1] = s[1] + c * h[k]}
<1>5. 0 \in T
  <2>1. 1 \in 1..Len(s) /\ 1 - 1 = 0
    BY <1>1
  <2>2. f[1] = f[0] + s[1] /\ c * 0 = 0
    BY <1>3, <2>1
  <2> QED
    BY <1>2, <1>3, <1>4, <2>2
<1>6. ASSUME NEW k \in Nat, k \in T PROVE k + 1 \in T
  <2> SUFFICES ASSUME k + 1 \in 0..N PROVE f[(k + 1) + 1] = s[1] + c * h[k + 1]
    OBVIOUS
  <2>1. /\ k \in 0..N /\ k + 1 \in 1..N /\ (k + 1) - 1 = k
        /\ (k + 1) + 1 \in 1..Len(s) /\ ((k + 1) + 1) - 1 = k + 1
    BY <1>1
  <2>2. f[(k + 1) + 1] = f[k + 1] + s[(k + 1) + 1] /\ h[k + 1] = h[k] + t[k + 1]
    BY <1>3, <1>4, <2>1
  <2>3. f[k + 1] = s[1] + c * h[k] /\ s[(k + 1) + 1] = c * t[k + 1]
    BY <1>1, <1>6, <2>1
  <2>4. h[k] \in Int /\ t[k + 1] \in Int
    BY <1>1, <1>4, <2>1
  <2>5. c * (h[k] + t[k + 1]) = c * h[k] + c * t[k + 1] /\ c * h[k] \in Int /\ c * t[k + 1] \in Int
    BY <2>4, Distributes
  <2>6. f[(k + 1) + 1] = (s[1] + c * h[k]) + c * t[k + 1]
    BY <2>2, <2>3
  <2>7. f[(k + 1) + 1] = s[1] + (c * h[k] + c * t[k + 1])
    BY <1>2, <2>5, <2>6
  <2> QED
    BY <2>2, <2>5, <2>7
<1>7. \A k \in Nat : k \in T
  <2> HIDE DEF T
  <2> QED
    BY <1>5, <1>6, NatSet
<1>8. N \in 0..N /\ f[N + 1] = s[1] + c * h[N]
  BY <1>1, <1>7
<1> QED
  BY <1>1, <1>3, <1>4, <1>8

Carry(c) == [i \in DOMAIN batch |-> IF batch[i].done THEN 0 ELSE c]

LEMMA BatchTypes ==
  ASSUME batch \in Seq(Collectible), NEW b \in Int, NEW c \in Int
  PROVE  /\ Len(batch) \in Nat /\ DOMAIN batch = 1..Len(batch)
         /\ \A i \in 1..Len(batch) :
              batch[i].reward \in Int /\ batch[i].value \in Int /\ batch[i].done \in BOOLEAN
         /\ Residuals(b) \in [1..Len(batch) -> Int]
         /\ Carry(c) \in [1..Len(batch) -> Int]
         /\ Rewards \in [1..Len(batch) -> Int]
<1> DEFINE n == Len(batch)
<1>1. n \in Nat /\ DOMAIN batch = 1..n
  BY LenProperties
<1>2. ASSUME NEW i \in 1..n
      PROVE  batch[i].reward \in Int /\ batch[i].value \in Int /\ batch[i].done \in BOOLEAN
  <2>1. batch[i] \in Collectible
    BY ElementOfSeq
  <2> QED
    BY <2>1 DEF Collectible
<1> HIDE DEF n
<1> DEFINE next(i) == IF i = n THEN b ELSE batch[i + 1].value
<1>3. ASSUME NEW i \in 1..n PROVE next(i) \in Int
  <2>1. i # n => i + 1 \in 1..n
    BY <1>1
  <2> QED
    BY <1>2, <2>1
<1>4. ASSUME NEW i \in 1..n
      PROVE  batch[i].reward - batch[i].value + (IF batch[i].done THEN 0 ELSE Gamma * next(i)) \in Int
  <2>1. next(i) \in Int
    BY <1>3
  <2> HIDE DEF next
  <2>2. Gamma * next(i) \in Int
    BY <2>1, DiscountAssumption
  <2> QED
    BY <1>2, <2>2
<1>5. Residuals(b) \in [1..n -> Int]
  <2>1. Residuals(b) = [i \in 1..n |->
          batch[i].reward - batch[i].value + IF batch[i].done THEN 0 ELSE Gamma * next(i)]
    BY <1>1 DEF Residuals, n
  <2> HIDE DEF next
  <2> QED
    BY <1>4, <2>1
<1>6. Carry(c) \in [1..n -> Int] /\ Rewards \in [1..n -> Int]
  BY <1>1, <1>2 DEF Carry, Rewards
<1> QED
  BY <1>1, <1>2, <1>5, <1>6 DEF n

LEMMA GaeFromEnd ==
  ASSUME batch \in Seq(Collectible), NEW b \in Int, NEW l \in Int
  PROVE  /\ FromEnd(Gae(batch, b, l), Len(batch), Residuals(b), Carry(Gamma * l))
         /\ \A i \in 1..Len(batch) : Gae(batch, b, l)[i] \in Int
<1> DEFINE n == Len(batch)
           c == Gamma * l
           next(i) == IF i = n THEN b ELSE batch[i + 1].value
           delta(i) == batch[i].reward + Gamma * next(i) * Mask(batch[i]) - batch[i].value
           Is(g) == g = [i \in 1..n |->
                           delta(i) + IF i = n THEN 0 ELSE Gamma * l * Mask(batch[i]) * g[i + 1]]
           gae == CHOOSE g : Is(g)
           d == Residuals(b)
           m == Carry(c)
<1>0. c \in Int
  BY DiscountAssumption
<1>1. Gae(batch, b, l) = gae
  BY DEF Gae
<1> HIDE DEF c
<1>2. /\ n \in Nat /\ DOMAIN batch = 1..n
      /\ \A i \in 1..n : batch[i].reward \in Int /\ batch[i].value \in Int /\ batch[i].done \in BOOLEAN
      /\ d \in [1..n -> Int] /\ m \in [1..n -> Int]
  BY <1>0, BatchTypes
<1> HIDE DEF n
<1>3. ASSUME NEW i \in 1..n PROVE delta(i) = d[i]
  <2>1. next(i) \in Int
    <3>1. i # n => i + 1 \in 1..n
      BY <1>2
    <3> QED
      BY <1>2, <3>1
  <2>2. d[i] = batch[i].reward - batch[i].value + IF batch[i].done THEN 0 ELSE Gamma * next(i)
    BY <1>2 DEF Residuals, n
  <2> HIDE DEF next
  <2>3. Gamma * next(i) \in Int
    BY <2>1, DiscountAssumption
  <2>4. Gamma * next(i) * Mask(batch[i]) = IF batch[i].done THEN 0 ELSE Gamma * next(i)
    BY <2>3 DEF Mask
  <2> HIDE DEF d
  <2> QED
    BY <1>2, <2>2, <2>3, <2>4
<1>4. ASSUME NEW i \in 1..n PROVE Gamma * l * Mask(batch[i]) = m[i]
  <2>1. m[i] = IF batch[i].done THEN 0 ELSE c
    BY <1>2 DEF Carry
  <2>2. c * Mask(batch[i]) = IF batch[i].done THEN 0 ELSE c
    BY <1>0 DEF Mask
  <2> QED
    BY <2>1, <2>2 DEF c
<1> HIDE DEF d, m, delta
<1>5. PICK x \in [1..n -> Int] : FromEnd(x, n, d, m)
  BY <1>2, FromEndExists
<1>6. Is(x)
  <2>1. ASSUME NEW i \in 1..n
        PROVE  x[i] = delta(i) + IF i = n THEN 0 ELSE Gamma * l * Mask(batch[i]) * x[i + 1]
    <3>1. x[i] = d[i] + IF i = n THEN 0 ELSE m[i] * x[i + 1]
      BY <1>5 DEF FromEnd
    <3> QED
      BY <1>3, <1>4, <3>1
  <2> QED
    BY <2>1
<1>7. Is(gae)
  <2> HIDE DEF Is
  <2> QED
    BY <1>6
<1> HIDE DEF gae
<1>8. FromEnd(gae, n, d, m)
  <2>1. ASSUME NEW i \in 1..n
        PROVE  gae[i] = d[i] + IF i = n THEN 0 ELSE m[i] * gae[i + 1]
    <3>1. gae[i] = delta(i) + IF i = n THEN 0 ELSE Gamma * l * Mask(batch[i]) * gae[i + 1]
      BY <1>7
    <3> QED
      BY <1>3, <1>4, <3>1
  <2> QED
    BY <2>1 DEF FromEnd
<1>9. \A i \in 1..n : gae[i] \in Int
  <2>1. \A i \in 1..n : gae[i] = x[i]
    BY <1>2, <1>5, <1>8, FromEndSame
  <2> QED
    BY <2>1
<1> QED
  BY <1>1, <1>8, <1>9 DEF n, d, m, c

\* What a discounted sum is, from the one after it.
LEMMA DiscountedStep ==
  ASSUME batch \in Seq(Collectible), Len(batch) <= Horizon,
         NEW c \in Int, NEW term \in [1..Len(batch) -> Int], NEW i \in 1..Len(batch)
  PROVE  /\ Discounted(i, c, term) \in Int
         /\ Discounted(i, c, term) =
              term[i] + IF i = Len(batch) THEN 0 ELSE Carry(c)[i] * Discounted(i + 1, c, term)
<1> DEFINE n == Len(batch)
           p == Powers(c)
           part(h, k) == IF SameEpisode(h, h + k - 1) THEN p[k - 1] * term[h + k - 1] ELSE 0
           parts(h) == [k \in 1..(n - h + 1) |-> part(h, k)]
           carry == Carry(c)[i]
<1>1. n \in Nat /\ DOMAIN batch = 1..n /\ n <= Horizon /\ Horizon \in Nat
      /\ carry = IF batch[i].done THEN 0 ELSE c
  BY LenProperties, HorizonAssumption DEF Carry
<1>2. p \in [0..Horizon -> Int] /\ p[0] = 1 /\ \A k \in 1..Horizon : p[k] = c * p[k - 1]
  BY PowersAre
<1>3. \A h \in 1..(n + 1) : Discounted(h, c, term) = Total(parts(h))
  BY DEF Discounted
<1> HIDE DEF n, p, carry
<1>4. ASSUME NEW h \in 1..n PROVE parts(h) \in Seq(Int) /\ Len(parts(h)) = n - h + 1
  <2>1. ASSUME NEW k \in 1..(n - h + 1) PROVE part(h, k) \in Int
    <3>1. k - 1 \in 0..Horizon /\ h + k - 1 \in 1..n
      BY <1>1
    <3>2. p[k - 1] \in Int /\ term[h + k - 1] \in Int
      BY <1>2, <3>1 DEF n
    <3> QED
      BY <3>2
  <2>2. n - h + 1 \in Nat
    BY <1>1
  <2> HIDE DEF part
  <2> QED
    BY <2>1, <2>2
<1>5. part(i, 1) = term[i]
  <2>1. i \in Nat /\ i + 1 - 1 = i /\ 1 - 1 = 0 /\ term[i] \in Int
    BY <1>1 DEF n
  <2>2. SameEpisode(i, i)
    BY <2>1 DEF SameEpisode
  <2> QED
    BY <1>2, <2>1, <2>2
<1>6. i \in 1..(n + 1) /\ i \in 1..n
  BY <1>1 DEF n
<1>7. CASE i = n
  <2> DEFINE s == parts(i)
  <2>1. s \in Seq(Int) /\ Len(s) = 1 /\ s[1] = term[i] /\ term[i] \in Int
    <3>1. n - i + 1 = 1
      BY <1>1, <1>7
    <3>2. s[1] = part(i, 1)
      BY <3>1
    <3> HIDE DEF s
    <3> QED
      BY <1>4, <1>5, <1>6, <3>1, <3>2 DEF s, n
  <2> HIDE DEF s
  <2>2. PICK f \in [0..Len(s) -> Int] : /\ f[0] = 0
                                        /\ \A j \in 1..Len(s) : f[j] = f[j - 1] + s[j]
                                        /\ Total(s) = f[Len(s)]
    BY <2>1, TotalTable
  <2>3. 1 \in 1..Len(s) /\ 1 - 1 = 0
    BY <2>1
  <2>4. f[1] = f[0] + s[1] /\ Total(s) = f[1]
    BY <2>1, <2>2, <2>3
  <2>5. Total(s) = term[i]
    BY <2>1, <2>2, <2>4
  <2> QED
    <3>1. Discounted(i, c, term) = Total(s)
      BY <1>3, <1>6 DEF s
    <3>2. Discounted(i, c, term) = term[i] /\ term[i] \in Int
      BY <2>1, <2>5, <3>1
    <3>3. i = Len(batch)
      BY <1>7 DEF n
    <3> QED
      BY <3>2, <3>3
<1>8. CASE i # n
  <2> DEFINE s == parts(i)
             t == parts(i + 1)
  <2>1. i + 1 \in 1..n /\ i + 1 \in 1..(n + 1)
    BY <1>1, <1>6, <1>8
  <2>2. s \in Seq(Int) /\ t \in Seq(Int) /\ Len(s) = n - i + 1 /\ Len(t) = n - (i + 1) + 1
    BY <1>4, <1>6, <2>1
  <2>3. Len(s) = Len(t) + 1 /\ Len(t) = n - i
    BY <1>1, <1>6, <2>2
  <2>4. s[1] = term[i]
    <3>1. 1 \in 1..(n - i + 1)
      BY <1>1, <1>6
    <3> HIDE DEF part
    <3> QED
      BY <1>5, <3>1
  <2>5. ASSUME NEW k \in 1..(n - i) PROVE s[k + 1] = carry * t[k]
    <3> DEFINE j == i + k
    <3>1. /\ k + 1 \in 1..(n - i + 1) /\ k \in 1..(n - (i + 1) + 1) /\ k \in 1..Horizon
          /\ i + (k + 1) - 1 = j /\ (i + 1) + k - 1 = j /\ (k + 1) - 1 = k /\ k - 1 \in 0..Horizon
          /\ j \in 1..n
      BY <1>1, <1>6
    <3>2. s[k + 1] = part(i, k + 1) /\ t[k] = part(i + 1, k)
      <4> HIDE DEF part
      <4> QED
        BY <3>1
    <3>3. part(i, k + 1) = IF SameEpisode(i, j) THEN p[k] * term[j] ELSE 0
      BY <3>1
    <3>4. part(i + 1, k) = IF SameEpisode(i + 1, j) THEN p[k - 1] * term[j] ELSE 0
      BY <3>1
    <3>5. SameEpisode(i, j) <=> ~ batch[i].done /\ SameEpisode(i + 1, j)
      <4>1. i \in i..(j - 1) /\ \A h \in i..(j - 1) : h = i \/ h \in (i + 1)..(j - 1)
        BY <1>1, <1>6, <3>1
      <4>2. \A h \in (i + 1)..(j - 1) : h \in i..(j - 1)
        BY <1>1, <1>6, <3>1
      <4> QED
        BY <4>1, <4>2 DEF SameEpisode
    <3>6. p[k] * term[j] = c * (p[k - 1] * term[j]) /\ p[k - 1] * term[j] \in Int
      <4>1. p[k] = c * p[k - 1] /\ p[k - 1] \in Int /\ term[j] \in Int
        BY <1>2, <3>1 DEF n
      <4> QED
        BY <4>1, Regroups
    <3> HIDE DEF part, s, t
    <3> QED
      BY <1>1, <3>2, <3>3, <3>4, <3>5, <3>6
  <2>6. carry \in Int
    BY <1>1
  <2> HIDE DEF s, t
  <2>7. Total(s) = s[1] + carry * Total(t)
    BY <2>2, <2>3, <2>5, <2>6, TotalHead
  <2>8. Total(s) \in Int
    BY <2>2, TotalType
  <2> QED
    BY <1>3, <1>6, <1>8, <2>1, <2>4, <2>7, <2>8 DEF s, t, n, carry
<1> QED
  BY <1>7, <1>8

\* The advantages are the discounted sums of the residuals.
LEMMA AdvantagesAreSums ==
  ASSUME batch \in Seq(Collectible), Len(batch) <= Horizon, NEW b \in Int, NEW l \in Int,
         NEW i \in 1..Len(batch)
  PROVE  Gae(batch, b, l)[i] = Discounted(i, Gamma * l, Residuals(b))
<1> DEFINE n == Len(batch)
           c == Gamma * l
           d == Residuals(b)
           sums == [k \in 1..n |-> Discounted(k, c, d)]
<1>1. c \in Int
  BY DiscountAssumption
<1> HIDE DEF c
<1>2. n \in Nat /\ d \in [1..n -> Int]
  BY BatchTypes
<1> HIDE DEF d
<1>3. FromEnd(sums, n, d, Carry(c))
  <2>1. ASSUME NEW k \in 1..n
        PROVE  sums[k] = d[k] + IF k = n THEN 0 ELSE Carry(c)[k] * sums[k + 1]
    <3>1. Discounted(k, c, d) = d[k] + IF k = n THEN 0 ELSE Carry(c)[k] * Discounted(k + 1, c, d)
      BY <1>1, <1>2, DiscountedStep
    <3>2. sums[k] = Discounted(k, c, d)
      OBVIOUS
    <3>3. k # n => sums[k + 1] = Discounted(k + 1, c, d)
      <4>1. k # n => k + 1 \in 1..n
        BY <1>2
      <4> HIDE DEF n
      <4> QED
        BY <4>1
    <3> HIDE DEF sums
    <3> QED
      BY <3>1, <3>2, <3>3
  <2> HIDE DEF sums
  <2> QED
    BY <2>1 DEF FromEnd
<1>4. FromEnd(Gae(batch, b, l), n, d, Carry(c))
  BY GaeFromEnd DEF c, d
<1>5. Gae(batch, b, l)[i] = sums[i]
  <2> HIDE DEF sums
  <2> QED
    BY <1>2, <1>3, <1>4, FromEndSame
<1> QED
  BY <1>5 DEF c, d

\* Without lambda each advantage is its own residual.
LEMMA AdvantagesOfOneStep ==
  ASSUME batch \in Seq(Collectible), NEW b \in Int, NEW i \in 1..Len(batch)
  PROVE  Gae(batch, b, 0)[i] = Residuals(b)[i]
<1> DEFINE g == Gae(batch, b, 0)
           n == Len(batch)
<1>1. Gamma * 0 = 0 /\ 0 \in Int
  BY DiscountAssumption
<1>2. FromEnd(g, n, Residuals(b), Carry(0)) /\ \A k \in 1..n : g[k] \in Int
  BY <1>1, GaeFromEnd
<1>3. n \in Nat /\ Residuals(b)[i] \in Int /\ DOMAIN batch = 1..n /\ i \in 1..n
  BY BatchTypes
<1> HIDE DEF g, n
<1>4. Carry(0)[i] = 0
  BY <1>3 DEF Carry
<1>5. i # n => g[i + 1] \in Int
  <2>1. i # n => i + 1 \in 1..n
    BY <1>3
  <2> QED
    BY <1>2, <2>1
<1>6. g[i] = Residuals(b)[i] + IF i = n THEN 0 ELSE Carry(0)[i] * g[i + 1]
  BY <1>2, <1>3 DEF FromEnd
<1>7. g[i] = Residuals(b)[i]
  BY <1>3, <1>4, <1>5, <1>6
<1> QED
  BY <1>7 DEF g

\* What the bootstrap is worth at the i-th transition.
Worth(i, b) == IF GoesOn(i) THEN Powers(Gamma)[Len(batch) - i + 1] * b ELSE 0

LEMMA WorthStep ==
  ASSUME batch \in Seq(Collectible), Len(batch) <= Horizon, NEW b \in Int,
         NEW i \in 1..Len(batch)
  PROVE  /\ Worth(i, b) \in Int
         /\ i = Len(batch) => Worth(i, b) = IF batch[i].done THEN 0 ELSE Gamma * b
         /\ i # Len(batch) => Worth(i, b) = IF batch[i].done THEN 0 ELSE Gamma * Worth(i + 1, b)
<1> DEFINE n == Len(batch)
           p == Powers(Gamma)
<1>1. n \in Nat /\ n <= Horizon /\ Horizon \in Nat /\ Gamma \in Int
  BY LenProperties, HorizonAssumption, DiscountAssumption
<1>2. p \in [0..Horizon -> Int] /\ p[0] = 1 /\ \A k \in 1..Horizon : p[k] = Gamma * p[k - 1]
  BY <1>1, PowersAre
<1> HIDE DEF p
<1>3. \A h : Worth(h, b) = IF GoesOn(h) THEN p[n - h + 1] * b ELSE 0
  BY DEF Worth, p
<1>4. \A h : GoesOn(h) <=> \A k \in h..n : ~ batch[k].done
  BY DEF GoesOn
<1> HIDE DEF n
<1>5. i \in 1..n
  BY DEF n
<1>6. n - i + 1 \in 1..Horizon /\ n - i \in 0..Horizon /\ (n - i + 1) - 1 = n - i
  BY <1>1, <1>5
<1>7. p[n - i + 1] = Gamma * p[n - i] /\ p[n - i] \in Int /\ p[n - i + 1] \in Int
  BY <1>2, <1>6
<1>8. Worth(i, b) \in Int
  <2>1. p[n - i + 1] * b \in Int
    BY <1>7
  <2> QED
    BY <1>3, <2>1
<1>9. CASE i = n
  <2>1. n - i = 0 /\ n - i + 1 = 1 /\ Gamma * 1 = Gamma
    BY <1>1, <1>9
  <2>2. p[n - i + 1] = Gamma
    BY <1>2, <1>7, <2>1
  <2>3. GoesOn(i) <=> ~ batch[i].done
    <3>1. \A k \in i..n : k = i
      BY <1>1, <1>9
    <3>2. i \in i..n
      BY <1>1, <1>5
    <3> QED
      BY <1>4, <3>1, <3>2
  <2>4. Worth(i, b) = IF batch[i].done THEN 0 ELSE Gamma * b
    BY <1>3, <2>2, <2>3
  <2> QED
    BY <1>8, <1>9, <2>4 DEF n
<1>10. CASE i # n
  <2>1. GoesOn(i) <=> ~ batch[i].done /\ GoesOn(i + 1)
    <3>1. i \in i..n /\ (\A k \in i..n : k = i \/ k \in (i + 1)..n)
      BY <1>1, <1>5
    <3>2. \A k \in (i + 1)..n : k \in i..n
      BY <1>1, <1>5
    <3> QED
      BY <1>4, <3>1, <3>2
  <2>2. n - (i + 1) + 1 = n - i
    BY <1>1, <1>5
  <2>3. Worth(i + 1, b) = IF GoesOn(i + 1) THEN p[n - i] * b ELSE 0
    BY <1>3, <2>2
  <2>4. p[n - i + 1] * b = Gamma * (p[n - i] * b) /\ Gamma * 0 = 0
    BY <1>1, <1>7, Regroups
  <2>5. Worth(i, b) = IF batch[i].done THEN 0 ELSE Gamma * Worth(i + 1, b)
    BY <1>3, <2>1, <2>3, <2>4
  <2> QED
    BY <1>8, <1>10, <2>5 DEF n
<1> QED
  BY <1>9, <1>10

LEMMA Rejoins ==
  \A g, s, w, v \in Int : g * v + g * (s + w - v) = g * s + g * w /\ g * s \in Int /\ g * w \in Int
OBVIOUS

\* With lambda 1 an advantage is what the rewards ahead are worth, with the bootstrap if the
\* episode lasts, less what the critic expected.
LEMMA AdvantagesOfMonteCarlo ==
  ASSUME batch \in Seq(Collectible), Len(batch) <= Horizon, NEW b \in Int,
         NEW i \in 1..Len(batch)
  PROVE  Returns(batch, b, 1)[i] = Discounted(i, Gamma, Rewards) + Worth(i, b)
<1> DEFINE n == Len(batch)
           d == Residuals(b)
           m == Carry(Gamma)
           sum(k) == Discounted(k, Gamma, Rewards)
           x == [k \in 1..n |-> sum(k) + Worth(k, b) - batch[k].value]
<1>1. Gamma \in Int /\ Gamma * 1 = Gamma /\ 1 \in Int
  BY DiscountAssumption
<1>2. /\ n \in Nat /\ DOMAIN batch = 1..n
      /\ \A k \in 1..n :
           batch[k].reward \in Int /\ batch[k].value \in Int /\ batch[k].done \in BOOLEAN
      /\ Rewards \in [1..n -> Int] /\ d \in [1..n -> Int]
  BY <1>1, BatchTypes
<1>3. \A k \in 1..n :
        /\ sum(k) \in Int
        /\ sum(k) = Rewards[k] + IF k = n THEN 0 ELSE m[k] * sum(k + 1)
  BY <1>1, <1>2, DiscountedStep
<1>4. \A k \in 1..n :
        /\ Worth(k, b) \in Int
        /\ k = n => Worth(k, b) = IF batch[k].done THEN 0 ELSE Gamma * b
        /\ k # n => Worth(k, b) = IF batch[k].done THEN 0 ELSE Gamma * Worth(k + 1, b)
  BY WorthStep
<1>5. \A k \in 1..n :
        /\ Rewards[k] = batch[k].reward
        /\ m[k] = IF batch[k].done THEN 0 ELSE Gamma
        /\ d[k] = batch[k].reward - batch[k].value
                  + IF batch[k].done THEN 0
                    ELSE Gamma * IF k = n THEN b ELSE batch[k + 1].value
  BY <1>2 DEF Rewards, Carry, Residuals
<1> HIDE DEF n, d, m, sum
<1>6. \A k \in 1..n : x[k] = sum(k) + Worth(k, b) - batch[k].value
  OBVIOUS
<1> HIDE DEF x
<1>7. ASSUME NEW k \in 1..n PROVE x[k] = d[k] + IF k = n THEN 0 ELSE m[k] * x[k + 1]
  <2> DEFINE r == batch[k].reward
             v == batch[k].value
  <2>1. r \in Int /\ v \in Int /\ sum(k) \in Int /\ Worth(k, b) \in Int /\ Gamma * b \in Int
    BY <1>1, <1>2, <1>3, <1>4
  <2>2. CASE k = n
    <3>1. sum(k) = r
      BY <1>3, <1>5, <2>1, <2>2
    <3>2. Worth(k, b) = IF batch[k].done THEN 0 ELSE Gamma * b
      BY <1>4, <2>2
    <3>3. d[k] = r - v + IF batch[k].done THEN 0 ELSE Gamma * b
      BY <1>5, <2>2
    <3>4. x[k] = r + Worth(k, b) - v
      BY <1>6, <3>1
    <3> HIDE DEF r, v
    <3>5. x[k] = d[k]
      BY <2>1, <3>2, <3>3, <3>4
    <3>6. d[k] \in Int
      BY <1>2
    <3> QED
      BY <2>2, <3>5, <3>6
  <2>3. CASE k # n
    <3> DEFINE s == sum(k + 1)
               w == Worth(k + 1, b)
               u == batch[k + 1].value
    <3>1. k + 1 \in 1..n
      BY <1>2, <2>3
    <3>2. s \in Int /\ w \in Int /\ u \in Int
      BY <1>2, <1>3, <1>4, <3>1
    <3>3. x[k + 1] = s + w - u /\ x[k] = sum(k) + Worth(k, b) - v
      BY <1>6, <3>1
    <3>4. sum(k) = r + m[k] * s
      BY <1>3, <1>5, <2>3
    <3>5. Worth(k, b) = IF batch[k].done THEN 0 ELSE Gamma * w
      BY <1>4, <2>3
    <3>6. d[k] = r - v + IF batch[k].done THEN 0 ELSE Gamma * u
      BY <1>5, <2>3
    <3>7. m[k] = IF batch[k].done THEN 0 ELSE Gamma
      BY <1>5
    <3> HIDE DEF r, v, s, w, u
    <3>8. CASE batch[k].done
      <4>1. m[k] * s = 0 /\ m[k] * x[k + 1] = 0
        BY <3>2, <3>3, <3>7, <3>8
      <4> QED
        BY <2>1, <2>3, <3>3, <3>4, <3>5, <3>6, <3>8, <4>1
    <3>9. CASE ~ batch[k].done
      <4>1. Gamma * u + Gamma * (s + w - u) = Gamma * s + Gamma * w
        BY <1>1, <3>2, Rejoins
      <4>2. /\ Gamma * u \in Int /\ Gamma * (s + w - u) \in Int
            /\ Gamma * s \in Int /\ Gamma * w \in Int
        BY <1>1, <3>2
      <4>3. x[k] = r + Gamma * s + Gamma * w - v
        BY <3>3, <3>4, <3>5, <3>7, <3>9
      <4>4. d[k] = r - v + Gamma * u /\ m[k] * x[k + 1] = Gamma * (s + w - u)
        BY <3>3, <3>6, <3>7, <3>9
      <4>5. x[k] = r - v + (Gamma * u + Gamma * (s + w - u))
        BY <2>1, <4>1, <4>2, <4>3
      <4>6. x[k] = d[k] + m[k] * x[k + 1]
        BY <2>1, <4>2, <4>4, <4>5
      <4> QED
        BY <2>3, <4>6
    <3> QED
      BY <3>8, <3>9
  <2> QED
    BY <2>2, <2>3
<1>8. FromEnd(x, n, d, m)
  BY <1>7 DEF FromEnd
<1>9. FromEnd(Gae(batch, b, 1), n, d, m)
  BY <1>1, GaeFromEnd DEF n, d, m
<1>10. i \in 1..n
  BY DEF n
<1>11. Gae(batch, b, 1)[i] = x[i]
  BY <1>2, <1>8, <1>9, <1>10, FromEndSame
<1>12. Returns(batch, b, 1)[i] = Gae(batch, b, 1)[i] + batch[i].value
  BY <1>2, <1>10 DEF Returns
<1>13. sum(i) \in Int /\ Worth(i, b) \in Int /\ batch[i].value \in Int
  BY <1>2, <1>3, <1>4, <1>10
<1>14. x[i] + batch[i].value = sum(i) + Worth(i, b)
  BY <1>6, <1>10, <1>13
<1> QED
  BY <1>11, <1>12, <1>14 DEF sum

LEMMA BootstrapType == EnvTyped /\ RolloutTyped /\ Rates => Bootstraps \subseteq Int
<1> SUFFICES ASSUME EnvTyped, RolloutTyped, Rates PROVE Critic(Observation, Len(payoffs)) \in Int
  BY DEF Bootstraps
<1>1. Len(payoffs) \in 0..MaxRollouts
  BY LenProperties DEF Rates
<1> QED
  BY <1>1, WindowIs, CriticAssumption

\* The advantages are the discounted sums of the residuals along their episode, the one-step
\* residuals without lambda, and the Monte-Carlo returns with lambda 1: in every full batch,
\* for every discount, whatever ends where.
THEOREM AdvantagesAreDiscounted == Spec => []GaeIsDiscountedSum
<1>1. IInv => GaeIsDiscountedSum
  <2> SUFFICES ASSUME IInv, NEW b \in Bootstraps, NEW i \in DOMAIN batch
               PROVE  /\ Gae(batch, b, Lambda)[i] = Discounted(i, Gamma * Lambda, Residuals(b))
                      /\ Gae(batch, b, 0)[i] = Residuals(b)[i]
                      /\ Returns(batch, b, 1)[i] =
                           Discounted(i, Gamma, Rewards)
                           + IF GoesOn(i) THEN Powers(Gamma)[Len(batch) - i + 1] * b ELSE 0
    BY DEF GaeIsDiscountedSum
  <2>1. batch \in Seq(Collectible) /\ Len(batch) <= Horizon /\ b \in Int /\ Lambda \in Int
    BY BootstrapType, DiscountAssumption DEF IInv, RolloutTyped
  <2>2. i \in 1..Len(batch)
    BY <2>1, LenProperties
  <2> QED
    BY <2>1, <2>2, AdvantagesAreSums, AdvantagesOfOneStep, AdvantagesOfMonteCarlo DEF Worth
<1> QED
  BY <1>1, Invariance, PTL

-----------------------------------------------------------------------------
\* Self-play.

LEMMA Negated ==
  ASSUME NEW s \in Seq(Int)
  PROVE  /\ ColumnPay(s) \in Seq(Int) /\ Len(ColumnPay(s)) = Len(s)
         /\ \A i \in 1..Len(s) : ColumnPay(s)[i] = -s[i]
         /\ DOMAIN ColumnPay(s) = 1..Len(s)
<1>1. DOMAIN s = 1..Len(s) /\ Len(s) \in Nat /\ \A i \in 1..Len(s) : s[i] \in Int
  BY LenProperties, ElementOfSeq
<1>2. ColumnPay(s) = [i \in 1..Len(s) |-> -s[i]]
  BY <1>1 DEF ColumnPay
<1>3. \A i \in 1..Len(s) : -s[i] \in Int
  BY <1>1
<1> QED
  BY <1>1, <1>2, <1>3

LEMMA TotalNegated ==
  ASSUME NEW s \in Seq(Int)
  PROVE  Total(ColumnPay(s)) = -Total(s)
<1> DEFINE N == Len(s)
           m == ColumnPay(s)
<1>1. N \in Nat /\ m \in Seq(Int) /\ Len(m) = N /\ \A i \in 1..N : m[i] = -s[i] /\ s[i] \in Int
  BY LenProperties, ElementOfSeq, Negated
<1>2. PICK f \in [0..N -> Int] : /\ f[0] = 0
                                 /\ \A i \in 1..N : f[i] = f[i - 1] + s[i]
                                 /\ Total(s) = f[N]
  BY TotalTable
<1> HIDE DEF m, N
<1>3. PICK h \in [0..N -> Int] : /\ h[0] = 0
                                 /\ \A i \in 1..N : h[i] = h[i - 1] + m[i]
                                 /\ Total(m) = h[N]
  BY <1>1, TotalTable
<1> DEFINE T == {i \in Nat : i \in 0..N => h[i] = -f[i]}
<1>4. 0 \in T
  BY <1>2, <1>3
<1>5. ASSUME NEW i \in Nat, i \in T PROVE i + 1 \in T
  <2> SUFFICES ASSUME i + 1 \in 0..N PROVE h[i + 1] = -f[i + 1]
    OBVIOUS
  <2>1. i \in 0..N /\ i + 1 \in 1..N /\ (i + 1) - 1 = i
    BY <1>1
  <2>2. f[i + 1] = f[i] + s[i + 1] /\ h[i + 1] = h[i] + m[i + 1] /\ h[i] = -f[i]
    BY <1>2, <1>3, <1>5, <2>1
  <2>3. m[i + 1] = -s[i + 1] /\ s[i + 1] \in Int /\ f[i] \in Int
    BY <1>1, <1>2, <2>1
  <2> QED
    BY <2>2, <2>3
<1>6. \A i \in Nat : i \in T
  <2> HIDE DEF T
  <2> QED
    BY <1>4, <1>5, NatSet
<1>7. h[N] = -f[N]
  BY <1>1, <1>6
<1> QED
  BY <1>2, <1>3, <1>7 DEF m

Trainer(w) ==
  /\ w = [history |-> w.history, payoff |-> w.payoff, lr |-> w.lr]
  /\ w.history \in Seq(Int) /\ w.payoff \in Int
  /\ w.lr = "win" => IsWinning(w)

LEMMA Updated ==
  ASSUME NEW w, Trainer(w), NEW x \in Int
  PROVE  LET added == Append(w.history, x)
             u == PolicyUpdate(w, x) IN
         /\ Trainer(u)
         /\ u.payoff = x
         /\ u.history = IF Len(added) > PayoffWindow THEN Tail(added) ELSE added
<1> DEFINE added == Append(w.history, x)
           kept == IF Len(added) > PayoffWindow THEN Tail(added) ELSE added
           u == UpdatePayoff(w, x)
           v == PolicyUpdate(w, x)
<1>1. kept \in Seq(Int)
  <2>1. added \in Seq(Int) /\ added # <<>>
    BY AppendProperties DEF Trainer
  <2> HIDE DEF added
  <2>2. Tail(added) \in Seq(Int)
    BY <2>1, HeadTailProperties
  <2> QED
    BY <2>1, <2>2
<1>2. u = [history |-> kept, payoff |-> x, lr |-> w.lr]
  <2>1. u = [w EXCEPT !.payoff = x, !.history = kept]
    BY DEF UpdatePayoff
  <2>2. w = [history |-> w.history, payoff |-> w.payoff, lr |-> w.lr]
    BY DEF Trainer
  <2> HIDE DEF u, kept
  <2> QED
    BY <2>1, <2>2
<1>3. v = [u EXCEPT !.lr = ActiveLr(u)]
  BY DEF PolicyUpdate
<1> HIDE DEF kept, u, v
<1>4. v = [history |-> kept, payoff |-> x, lr |-> ActiveLr(u)]
  BY <1>2, <1>3
<1>5. IsWinning(v) <=> IsWinning(u)
  BY <1>2, <1>4 DEF IsWinning
<1>6. v.lr = "win" => IsWinning(v)
  BY <1>4, <1>5 DEF ActiveLr
<1> QED
  BY <1>1, <1>4, <1>6 DEF Trainer, v, kept

LEMMA MinusZero == -0 = 0
<1>1. \A z \in Int : z <= 0 /\ z >= 0 => -z <= 0 /\ -z >= 0 /\ -z \in Int
  OBVIOUS
<1>2. \A z \in Int : z <= 0 /\ z >= 0 => z = 0
  OBVIOUS
<1>3. 0 <= 0 /\ 0 >= 0 /\ 0 \in Int
  OBVIOUS
<1> QED
  BY <1>1, <1>2, <1>3, Zenon

\* The column player's payoffs are the opposites of the row player's.
Opposed ==
  /\ Trainer(row) /\ Trainer(column)
  /\ column.payoff = -row.payoff /\ column.history = ColumnPay(row.history)

LEMMA NegatedAppend ==
  ASSUME NEW s \in Seq(Int), NEW x \in Int
  PROVE  LET added == Append(s, x)
             opposite == Append(ColumnPay(s), -x) IN
         /\ opposite = ColumnPay(added)
         /\ Tail(opposite) = ColumnPay(Tail(added))
         /\ Len(opposite) = Len(added)
<1> DEFINE added == Append(s, x)
           opposite == Append(ColumnPay(s), -x)
           n == Len(s)
<1>1. /\ n \in Nat /\ added \in Seq(Int) /\ Len(added) = n + 1 /\ added[n + 1] = x
      /\ \A i \in 1..n : added[i] = s[i]
  BY LenProperties, AppendProperties
<1>2. -x \in Int /\ ColumnPay(s) \in Seq(Int) /\ Len(ColumnPay(s)) = n
      /\ \A i \in 1..n : ColumnPay(s)[i] = -s[i]
  BY Negated
<1>3. /\ opposite \in Seq(Int) /\ Len(opposite) = n + 1 /\ opposite[n + 1] = -x
      /\ \A i \in 1..n : opposite[i] = ColumnPay(s)[i]
  BY <1>2, AppendProperties
<1> HIDE DEF added, opposite, n
<1>4. /\ ColumnPay(added) \in Seq(Int) /\ Len(ColumnPay(added)) = n + 1
      /\ \A i \in 1..(n + 1) : ColumnPay(added)[i] = -added[i]
  BY <1>1, Negated
<1>5. \A i \in 1..(n + 1) : opposite[i] = ColumnPay(added)[i]
  <2> SUFFICES ASSUME NEW i \in 1..(n + 1) PROVE opposite[i] = ColumnPay(added)[i]
    OBVIOUS
  <2>1. CASE i = n + 1
    BY <1>1, <1>3, <1>4, <2>1
  <2>2. CASE i # n + 1
    <3>1. i \in 1..n
      BY <1>1, <2>2
    <3>2. opposite[i] = -s[i]
      BY <1>2, <1>3, <3>1
    <3>3. ColumnPay(added)[i] = -s[i]
      BY <1>1, <1>4, <3>1
    <3> QED
      BY <3>2, <3>3
  <2> QED
    BY <2>1, <2>2
<1>6. opposite = ColumnPay(added)
  BY <1>3, <1>4, <1>5, SeqEqual
<1>7. Tail(opposite) = ColumnPay(Tail(added))
  <2>1. /\ Tail(added) \in Seq(Int) /\ Len(Tail(added)) = n
        /\ \A i \in 1..n : Tail(added)[i] = added[i + 1]
    <3>1. added # <<>>
      BY <1>1, EmptySeq
    <3> QED
      BY <1>1, <3>1, HeadTailProperties
  <2>2. /\ Tail(opposite) \in Seq(Int) /\ Len(Tail(opposite)) = n
        /\ \A i \in 1..n : Tail(opposite)[i] = opposite[i + 1]
    <3>1. opposite # <<>>
      BY <1>1, <1>3, EmptySeq
    <3> QED
      BY <1>1, <1>3, <3>1, HeadTailProperties
  <2>3. /\ ColumnPay(Tail(added)) \in Seq(Int) /\ Len(ColumnPay(Tail(added))) = n
        /\ \A i \in 1..n : ColumnPay(Tail(added))[i] = -Tail(added)[i]
    BY <2>1, Negated
  <2>4. \A i \in 1..n : i + 1 \in 1..(n + 1)
    BY <1>1
  <2>5. ASSUME NEW i \in 1..n PROVE Tail(opposite)[i] = ColumnPay(Tail(added))[i]
    <3>1. opposite[i + 1] = -added[i + 1]
      BY <1>4, <1>5, <2>4
    <3>2. Tail(opposite)[i] = -added[i + 1]
      BY <2>2, <3>1
    <3> QED
      BY <2>1, <2>3, <3>2
  <2> QED
    BY <2>2, <2>3, <2>5, SeqEqual
<1>8. Len(opposite) = Len(added)
  BY <1>1, <1>3
<1> QED
  BY <1>6, <1>7, <1>8 DEF added, opposite

LEMMA BatchKept ==
  ASSUME Opposed, PlayBatch
  PROVE  Opposed'
<1>1. PICK joint \in [1..BatchSize -> RowAction \X ColumnAction] :
        LET pay == [i \in 1..BatchSize |-> Payoff[joint[i]]] IN
        /\ row' = PolicyUpdate(row, Total(pay))
        /\ column' = PolicyUpdate(column, Total(ColumnPay(pay)))
  BY DEF PlayBatch
<1> DEFINE pay == [i \in 1..BatchSize |-> Payoff[joint[i]]]
           x == Total(pay)
           added == Append(row.history, x)
           opposite == Append(ColumnPay(row.history), -x)
<1>2. pay \in Seq(Int)
  <2>1. BatchSize \in Nat /\ \A i \in 1..BatchSize : Payoff[joint[i]] \in Int
    BY GameAssumption
  <2> QED
    BY <2>1
<1> HIDE DEF pay
<1>3. x \in Int /\ -x \in Int /\ Total(ColumnPay(pay)) = -x
  BY <1>2, TotalType, TotalNegated
<1>4. row' = PolicyUpdate(row, x) /\ column' = PolicyUpdate(column, -x)
  BY <1>1, <1>3 DEF pay
<1> HIDE DEF x
<1>5. /\ Trainer(row') /\ row'.payoff = x
      /\ row'.history = IF Len(added) > PayoffWindow THEN Tail(added) ELSE added
  BY <1>3, <1>4, Updated DEF Opposed
<1>6. /\ Trainer(column') /\ column'.payoff = -x
      /\ column'.history = IF Len(opposite) > PayoffWindow THEN Tail(opposite) ELSE opposite
  BY <1>3, <1>4, Updated DEF Opposed
<1>7. row.history \in Seq(Int)
  BY DEF Opposed, Trainer
<1>8. /\ opposite = ColumnPay(added) /\ Tail(opposite) = ColumnPay(Tail(added))
      /\ Len(opposite) = Len(added)
  BY <1>3, <1>7, NegatedAppend
<1> HIDE DEF added, opposite
<1>9. column'.history = ColumnPay(row'.history)
  BY <1>5, <1>6, <1>8
<1> QED
  BY <1>5, <1>6, <1>9 DEF Opposed

\* Of two players of a zero-sum game at most one trains with the small rate.
THEOREM AtMostOneWins == GameSpec => []NotBothWinning
<1>1. GameInit => Opposed
  <2> SUFFICES ASSUME GameInit PROVE Opposed
    OBVIOUS
  <2>1. row = NewTrainer /\ column = NewTrainer
    BY DEF GameInit
  <2>2. /\ NewTrainer.history = <<>> /\ NewTrainer.payoff = 0 /\ NewTrainer.lr = "base"
        /\ NewTrainer = [history |-> <<>>, payoff |-> 0, lr |-> "base"]
    BY DEF NewTrainer
  <2>3. <<>> \in Seq(Int) /\ Len(<<>>) = 0
    OBVIOUS
  <2>4. ColumnPay(<<>>) = <<>>
    BY <2>3, Negated, EmptySeq
  <2>5. Trainer(NewTrainer)
    BY <2>2, <2>3 DEF Trainer
  <2>6. column.payoff = -row.payoff /\ column.history = ColumnPay(row.history)
    <3> HIDE DEF ColumnPay
    <3> QED
      BY <2>1, <2>2, <2>4, MinusZero
  <2> QED
    BY <2>1, <2>5, <2>6 DEF Opposed
<1>2. Opposed /\ [PlayBatch]_game => Opposed'
  <2> SUFFICES ASSUME Opposed, [PlayBatch]_game PROVE Opposed'
    OBVIOUS
  <2>1. CASE PlayBatch
    BY <2>1, BatchKept
  <2>2. CASE UNCHANGED game
    BY <2>2 DEF game, Opposed
  <2> QED
    BY <2>1, <2>2
<1>3. Opposed => NotBothWinning
  <2> SUFFICES ASSUME Opposed, row.lr = "win", column.lr = "win" PROVE FALSE
    BY DEF NotBothWinning
  <2>1. row.history \in Seq(Int) /\ row.payoff \in Int /\ IsWinning(row) /\ IsWinning(column)
    BY DEF Opposed, Trainer
  <2>2. Total(column.history) = -Total(row.history) /\ Len(column.history) = Len(row.history)
    BY <2>1, TotalNegated, Negated DEF Opposed
  <2> DEFINE n == Len(row.history)
             t == Total(row.history)
             p == row.payoff
  <2>3. n \in Int /\ t \in Int /\ p \in Int
    BY <2>1, LenProperties, TotalType
  <2>4. p * n > t /\ (-p) * n > -t
    BY <2>1, <2>2 DEF IsWinning, Opposed
  <2> HIDE DEF n, t, p
  <2>5. (-p) * n = -(p * n) /\ p * n \in Int
    BY <2>3
  <2> QED
    BY <2>3, <2>4, <2>5
<1> QED
  BY <1>1, <1>2, <1>3, PTL DEF GameSpec

=============================================================================

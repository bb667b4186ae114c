--------------------------- MODULE GlobalBook_proof ---------------------------
(***************************************************************************)
(* Proofs about GlobalBook's lanes and their viewer (BookTui), for every   *)
(* list of sources without repetition: a lane is the sum of its sources, a *)
(* served lane is filled, its id goes back only on a loss, and so do the   *)
(* ids of the frames of a tab.  The sums are proved about by an induction  *)
(* over the subsets of a finite set that is written without an operator    *)
(* parameter.                                                              *)
(***************************************************************************)
EXTENDS BookTui, FiniteSetTheorems, SequenceTheorems, WellFoundedInduction, TLAPS

\* No source is listed twice.  With a source that is, the lane reads the book of a
\* handler that is gone, and the theorems fail.
Distinct == \A j, k \in Shard : Sources[j] = Sources[k] => j = k

-----------------------------------------------------------------------------
\* The least and the greatest of a set of ids.

Below == {x \in Nat \X Nat : x[1] < x[2]}

LEMMA BelowIsWellFounded == IsWellFoundedOn(Below, Nat)
<1>1. OpToRel(<, Nat) = Below
  BY DEF OpToRel, Below
<1> QED
  BY <1>1, NatLessThanWellFounded

LEMMA Least ==
  ASSUME NEW M, M \subseteq Nat, M # {}
  PROVE  \E m \in M : \A n \in M : m <= n
<1>1. PICK m \in M : \A n \in M : ~ (<<n, m>> \in Below)
  BY BelowIsWellFounded, WFMin, Zenon
<1>2. ASSUME NEW n \in M PROVE m <= n
  <2>1. m \in Nat /\ n \in Nat /\ <<n, m>> \notin Below
    BY <1>1
  <2> QED
    BY <2>1 DEF Below
<1> QED
  BY <1>2

LEMMA MaxOfIds ==
  ASSUME NEW n \in Nat, NEW S \in SUBSET (0 .. n), S # {}
  PROVE  Max(S) \in S /\ \A x \in S : x <= Max(S)
<1> DEFINE T == {n - x : x \in S}
<1>1. PICK m \in T : \A y \in T : m <= y
  <2>1. \A x \in S : n - x \in Nat
    OBVIOUS
  <2>2. T # {} /\ T \subseteq Nat
    BY <2>1
  <2> HIDE DEF T
  <2> QED
    BY <2>2, Least
<1>2. PICK y \in S : m = n - y
  BY <1>1
<1>3. \A x \in S : x <= y
  <2>1. ASSUME NEW x \in S PROVE x <= y
    <3>1. m <= n - x
      BY <1>1
    <3> QED
      BY <1>2, <3>1
  <2> QED
    BY <2>1
<1>4. \E x \in S : \A z \in S : x >= z
  BY <1>3
<1> QED
  BY <1>4 DEF Max

-----------------------------------------------------------------------------
\* Sums over a finite set do not depend on the order.

\* Induction over the naturals, with the set T of those that have the property.
LEMMA NatSet ==
  ASSUME NEW T, 0 \in T, \A n \in Nat : n \in T => n + 1 \in T
  PROVE  \A n \in Nat : n \in T
<1> SUFFICES ASSUME ~ \A n \in Nat : n \in T PROVE FALSE
  OBVIOUS
<1> DEFINE bad == {n \in Nat : n \notin T}
<1>1. PICK m \in bad : \A n \in bad : m <= n
  <2>1. bad # {} /\ bad \subseteq Nat
    OBVIOUS
  <2> HIDE DEF bad
  <2> QED
    BY <2>1, Least
<1>2. m \in Nat /\ m # 0 /\ m - 1 \in Nat /\ (m - 1) + 1 = m
  BY <1>1
<1>3. m - 1 \in T
  BY <1>1, <1>2
<1> QED
  BY <1>1, <1>2, <1>3

\* Induction over the subsets of a finite set, with the set T of those that have
\* the property.
LEMMA SubsetInduction ==
  ASSUME NEW S, IsFiniteSet(S), NEW T,
         \A s \in SUBSET S : (\A r \in SUBSET s : r # s => r \in T) => s \in T
  PROVE  \A s \in SUBSET S : s \in T
<1> SUFFICES ASSUME ~ \A s \in SUBSET S : s \in T PROVE FALSE
  OBVIOUS
<1> DEFINE bad == {s \in SUBSET S : s \notin T}
           sizes == {Cardinality(s) : s \in bad}
<1>1. sizes # {} /\ sizes \subseteq Nat
  BY FS_Subset, FS_CardinalityType
<1>2. PICK m \in sizes : \A n \in sizes : m <= n
  <2> HIDE DEF sizes
  <2> QED
    BY <1>1, Least
<1>3. PICK s \in bad : m = Cardinality(s)
  BY <1>2
<1>4. ASSUME NEW r \in SUBSET s, r # s PROVE r \in T
  <2>1. IsFiniteSet(s)
    BY <1>3, FS_Subset
  <2>2. /\ Cardinality(r) \in Nat /\ Cardinality(s) \in Nat
        /\ Cardinality(r) <= Cardinality(s) /\ Cardinality(r) # Cardinality(s)
    BY <1>4, <2>1, FS_Subset, FS_CardinalityType
  <2>3. ~ (m <= Cardinality(r))
    BY <1>3, <2>2
  <2>4. Cardinality(r) \notin sizes
    BY <1>2, <2>3
  <2> QED
    BY <2>4
<1> QED
  BY <1>3, <1>4

\* The element that a sum over s begins with.
Picked(s) == CHOOSE x \in s : TRUE

LEMMA Unfold ==
  ASSUME NEW f, NEW S
  PROVE  SumFunctionOnSet(f, S) =
           (CHOOSE g : g = [s \in SUBSET S |->
                              IF s = {} THEN 0 ELSE f[Picked(s)] + g[s \ {Picked(s)}]])[S]
BY DEF SumFunctionOnSet, FoldFunctionOnSet, MapThenFoldSet, Picked

\* g gives the sum of f over every subset of S.
IsTable(g, f, S) ==
  /\ g \in [SUBSET S -> Int]
  /\ \A s \in SUBSET S :
       g[s] = IF s = {} THEN 0 ELSE f[Picked(s)] + g[s \ {Picked(s)}]

LEMMA Table ==
  ASSUME NEW S, IsFiniteSet(S), NEW f, \A x \in S : f[x] \in Int
  PROVE  \E g : IsTable(g, f, S)
<1> DEFINE After(g, s) == IF s = {} THEN 0 ELSE f[Picked(s)] + g[s \ {Picked(s)}]
           T == {n \in Nat : \E g \in [SUBSET S -> Int] :
                   \A s \in SUBSET S : Cardinality(s) <= n => g[s] = After(g, s)}
<1>1. \A s \in SUBSET S : /\ IsFiniteSet(s) /\ Cardinality(s) \in Nat
                          /\ Cardinality(s) = 0 <=> s = {}
                          /\ s # {} => /\ Picked(s) \in s
                                       /\ s \ {Picked(s)} \in SUBSET S
                                       /\ Cardinality(s \ {Picked(s)}) = Cardinality(s) - 1
  <2> TAKE s \in SUBSET S
  <2>1. IsFiniteSet(s)
    BY FS_Subset
  <2>2. Cardinality(s) \in Nat /\ (Cardinality(s) = 0 <=> s = {})
    BY <2>1, FS_CardinalityType, FS_EmptySet
  <2>3. ASSUME s # {} PROVE Picked(s) \in s
    BY <2>3 DEF Picked
  <2>4. ASSUME s # {} PROVE Cardinality(s \ {Picked(s)}) = Cardinality(s) - 1
    BY <2>1, <2>3, <2>4, FS_RemoveElement
  <2> QED
    BY <2>1, <2>2, <2>3, <2>4
<1>2. \A g \in [SUBSET S -> Int] : \A s \in SUBSET S : After(g, s) \in Int
  <2> SUFFICES ASSUME NEW g \in [SUBSET S -> Int], NEW s \in SUBSET S
               PROVE  After(g, s) \in Int
    OBVIOUS
  <2>1. CASE s # {}
    <3>1. Picked(s) \in S /\ g[s \ {Picked(s)}] \in Int
      BY <1>1, <2>1
    <3> QED
      BY <2>1, <3>1
  <2> QED
    BY <2>1
<1>3. 0 \in T
  <2>1. [s \in SUBSET S |-> 0] \in [SUBSET S -> Int]
    OBVIOUS
  <2>2. ASSUME NEW s \in SUBSET S, Cardinality(s) <= 0 PROVE s = {}
    <3>1. Cardinality(s) \in Nat /\ (Cardinality(s) = 0 <=> s = {})
      BY <1>1
    <3> QED
      BY <2>2, <3>1
  <2> QED
    BY <2>1, <2>2
<1>4. ASSUME NEW n \in Nat, n \in T PROVE n + 1 \in T
  <2>1. PICK g \in [SUBSET S -> Int] :
          \A s \in SUBSET S : Cardinality(s) <= n => g[s] = After(g, s)
    BY <1>4
  <2> DEFINE h == [s \in SUBSET S |-> After(g, s)]
  <2>2. h \in [SUBSET S -> Int]
    BY <1>2
  <2>3. ASSUME NEW s \in SUBSET S, Cardinality(s) <= n + 1 PROVE h[s] = After(h, s)
    <3>1. CASE s = {}
      BY <3>1
    <3>2. CASE s # {}
      <4>1. s \ {Picked(s)} \in SUBSET S /\ Cardinality(s \ {Picked(s)}) <= n
        <5>1. /\ s \ {Picked(s)} \in SUBSET S /\ Cardinality(s) \in Nat
              /\ Cardinality(s \ {Picked(s)}) = Cardinality(s) - 1
          BY <1>1, <3>2
        <5> QED
          BY <2>3, <5>1
      <4>2. h[s \ {Picked(s)}] = g[s \ {Picked(s)}]
        <5>1. g[s \ {Picked(s)}] = After(g, s \ {Picked(s)})
          <6> HIDE DEF After
          <6> QED
            BY <2>1, <4>1
        <5>2. h[s \ {Picked(s)}] = After(g, s \ {Picked(s)})
          BY <4>1
        <5> QED
          BY <5>1, <5>2
      <4>3. h[s] = After(g, s)
        OBVIOUS
      <4> HIDE DEF h
      <4> QED
        BY <4>2, <4>3
    <3> QED
      BY <3>1, <3>2
  <2>4. \E k \in [SUBSET S -> Int] :
                   \A s \in SUBSET S : Cardinality(s) <= n + 1 => k[s] = After(k, s)
    <3> HIDE DEF h, After
    <3> QED
      BY <2>2, <2>3
  <2> QED
    <3> HIDE DEF After
    <3> QED
      BY <2>4
<1>5. Cardinality(S) \in T
  <2> HIDE DEF T
  <2> QED
    BY <1>1, <1>3, <1>4, NatSet
<1>6. PICK g \in [SUBSET S -> Int] :
        \A s \in SUBSET S : Cardinality(s) <= Cardinality(S) => g[s] = After(g, s)
  BY <1>5
<1>7. \A s \in SUBSET S : Cardinality(s) <= Cardinality(S)
  BY FS_Subset
<1> QED
  BY <1>6, <1>7 DEF IsTable

\* A sum over a finite set satisfies its recursion.
LEMMA SumIs ==
  ASSUME NEW S, IsFiniteSet(S), NEW f, \A x \in S : f[x] \in Int
  PROVE  \A s \in SUBSET S :
           /\ SumFunctionOnSet(f, s) \in Int
           /\ SumFunctionOnSet(f, s) =
                IF s = {} THEN 0
                ELSE f[Picked(s)] + SumFunctionOnSet(f, s \ {Picked(s)})
<1>0. PICK g : IsTable(g, f, S)
  BY Table
<1>1. /\ g \in [SUBSET S -> Int]
      /\ \A s \in SUBSET S :
           g[s] = IF s = {} THEN 0 ELSE f[Picked(s)] + g[s \ {Picked(s)}]
  BY <1>0 DEF IsTable
<1>2. ASSUME NEW s \in SUBSET S PROVE SumFunctionOnSet(f, s) = g[s]
  <2> DEFINE IsSum(h) ==
               h = [r \in SUBSET s |-> IF r = {} THEN 0 ELSE f[Picked(r)] + h[r \ {Picked(r)}]]
             k == [r \in SUBSET s |-> g[r]]
             h == CHOOSE h : IsSum(h)
             T == {r \in SUBSET s : h[r] = g[r]}
  <2>1. IsSum(k)
    <3>1. \A r \in SUBSET s : k[r] = IF r = {} THEN 0 ELSE f[Picked(r)] + k[r \ {Picked(r)}]
      <4> TAKE r \in SUBSET s
      <4>1. r \in SUBSET S /\ r \ {Picked(r)} \in SUBSET s
        OBVIOUS
      <4>2. k[r] = g[r] /\ k[r \ {Picked(r)}] = g[r \ {Picked(r)}]
        BY <4>1
      <4> HIDE DEF k
      <4> QED
        BY <1>1, <4>1, <4>2
    <3>2. k = [r \in SUBSET s |-> k[r]]
      OBVIOUS
    <3> HIDE DEF k
    <3> QED
      BY <3>1, <3>2
  <2>2. IsSum(h)
    <3> HIDE DEF IsSum, k
    <3> QED
      BY <2>1
  <2>3. \A r \in SUBSET s : h[r] = IF r = {} THEN 0 ELSE f[Picked(r)] + h[r \ {Picked(r)}]
    <3> HIDE DEF h
    <3> QED
      BY <2>2
  <2>4. ASSUME NEW r \in SUBSET s, \A q \in SUBSET r : q # r => q \in T
        PROVE  r \in T
    <3>1. CASE r = {}
      <4> HIDE DEF h
      <4> QED
        BY <1>1, <2>3, <3>1
    <3>2. CASE r # {}
      <4>1. Picked(r) \in r
        BY <3>2 DEF Picked
      <4>2. r \ {Picked(r)} \in SUBSET s /\ r \ {Picked(r)} # r
        BY <4>1
      <4>3. h[r \ {Picked(r)}] = g[r \ {Picked(r)}]
        <5>1. r \ {Picked(r)} \in T
          <6> HIDE DEF T
          <6> QED
            BY <2>4, <4>2
        <5> QED
          BY <5>1
      <4> HIDE DEF h
      <4>4. r \in SUBSET S
        OBVIOUS
      <4> QED
        BY <1>1, <2>3, <3>2, <4>3, <4>4
    <3> QED
      BY <3>1, <3>2
  <2>5. s \in T
    <3>1. IsFiniteSet(s)
      BY FS_Subset
    <3> HIDE DEF T
    <3> QED
      BY <2>4, <3>1, SubsetInduction
  <2>6. SumFunctionOnSet(f, s) = h[s]
    BY Unfold
  <2> QED
    BY <2>5, <2>6
<1> QED
  <2> TAKE s \in SUBSET S
  <2>1. s \ {Picked(s)} \in SUBSET S
    OBVIOUS
  <2> QED
    BY <1>1, <1>2, <2>1

\* Any element may come first.
LEMMA SumTakes ==
  ASSUME NEW S, IsFiniteSet(S), NEW f, \A x \in S : f[x] \in Int, NEW x \in S
  PROVE  SumFunctionOnSet(f, S) = f[x] + SumFunctionOnSet(f, S \ {x})
<1>0. \A s \in SUBSET S :
        /\ SumFunctionOnSet(f, s) \in Int
        /\ s # {} => /\ Picked(s) \in s
                     /\ SumFunctionOnSet(f, s) =
                          f[Picked(s)] + SumFunctionOnSet(f, s \ {Picked(s)})
  <2>1. \A s : s # {} => Picked(s) \in s
    BY DEF Picked
  <2>2. \A s \in SUBSET S :
          /\ SumFunctionOnSet(f, s) \in Int
          /\ SumFunctionOnSet(f, s) =
               IF s = {} THEN 0
               ELSE f[Picked(s)] + SumFunctionOnSet(f, s \ {Picked(s)})
    BY SumIs
  <2> QED
    BY <2>1, <2>2
<1> DEFINE Sum(s) == SumFunctionOnSet(f, s)
           T == {s \in SUBSET S : \A y \in s : Sum(s) = f[y] + Sum(s \ {y})}
<1> HIDE DEF Sum
<1>1. ASSUME NEW s \in SUBSET S, \A r \in SUBSET s : r # s => r \in T PROVE s \in T
  <2>1. ASSUME NEW y \in s PROVE Sum(s) = f[y] + Sum(s \ {y})
    <3> DEFINE c == Picked(s)
    <3>1. c \in s /\ Sum(s) = f[c] + Sum(s \ {c})
      BY <1>0 DEF Sum
    <3>2. CASE c = y
      BY <3>1, <3>2
    <3>3. CASE c # y
      <4>1. s \ {c} \in T /\ s \ {y} \in T
        <5> HIDE DEF T, c
        <5>1. s \ {c} \in SUBSET s /\ s \ {y} \in SUBSET s /\ s \ {c} # s /\ s \ {y} # s
          BY <3>1
        <5> QED
          BY <1>1, <5>1
      <4> HIDE DEF c
      <4>2. y \in s \ {c} /\ c \in s \ {y}
        BY <3>1, <3>3
      <4>3. Sum(s \ {c}) = f[y] + Sum((s \ {c}) \ {y})
        BY <4>1, <4>2
      <4>4. Sum(s \ {y}) = f[c] + Sum((s \ {y}) \ {c})
        BY <4>1, <4>2
      <4>5. (s \ {y}) \ {c} = (s \ {c}) \ {y} /\ (s \ {y}) \ {c} \in SUBSET S
        OBVIOUS
      <4>6. f[c] \in Int /\ f[y] \in Int /\ Sum((s \ {y}) \ {c}) \in Int
        BY <1>0, <3>1, <4>5 DEF Sum
      <4>7. Sum(s \ {c}) = f[y] + Sum((s \ {y}) \ {c})
        BY <4>3, <4>5
      <4> HIDE DEF T
      <4> QED
        BY <3>1, <4>4, <4>6, <4>7
    <3> QED
      BY <3>2, <3>3
  <2> QED
    BY <2>1
<1>2. S \in T
  <2> HIDE DEF T
  <2> QED
    BY <1>1, SubsetInduction
<1> QED
  BY <1>2 DEF Sum

\* Two ways of naming the same summands.
LEMMA SumRenames ==
  ASSUME NEW S, IsFiniteSet(S), NEW f, NEW g, NEW e,
         \A x \in S : f[x] \in Int /\ g[e[x]] = f[x],
         \A x, y \in S : e[x] = e[y] => x = y
  PROVE  SumFunctionOnSet(f, S) = SumFunctionOnSet(g, {e[x] : x \in S})
<1> DEFINE T == {s \in SUBSET S : /\ IsFiniteSet({e[x] : x \in s})
                                  /\ SumFunctionOnSet(f, s) = SumFunctionOnSet(g, {e[x] : x \in s})}
<1>1. ASSUME NEW s \in SUBSET S, \A r \in SUBSET s : r # s => r \in T PROVE s \in T
  <2>0. IsFiniteSet(s)
    BY FS_Subset
  <2>1. CASE s = {}
    <3>1. {e[x] : x \in s} = {} /\ IsFiniteSet({})
      BY <2>1, FS_EmptySet
    <3>2. SumFunctionOnSet(f, {}) = 0
      BY SumIs
    <3>3. SumFunctionOnSet(g, {}) = 0
      BY <3>1, SumIs
    <3> QED
      BY <2>1, <3>1, <3>2, <3>3
  <2>2. CASE s # {}
    <3>1. PICK x \in s : TRUE
      BY <2>2
    <3> DEFINE r == s \ {x}
               E == {e[y] : y \in s}
               R == {e[y] : y \in r}
    <3>2. r \in T
      <4> HIDE DEF T
      <4>1. r \in SUBSET s /\ r # s
        BY <3>1
      <4> QED
        BY <1>1, <4>1
    <3>3. E = R \cup {e[x]} /\ R = E \ {e[x]}
      BY <3>1
    <3>4. IsFiniteSet(E)
      <4>1. IsFiniteSet(R)
        BY <3>2
      <4> HIDE DEF E, R
      <4> QED
        BY <3>3, <4>1, FS_AddElement
    <3>5. \A y \in E : g[y] \in Int
      OBVIOUS
    <3>6. SumFunctionOnSet(g, E) = g[e[x]] + SumFunctionOnSet(g, R)
      <4>1. e[x] \in E
        OBVIOUS
      <4>2. SumFunctionOnSet(g, E) = g[e[x]] + SumFunctionOnSet(g, E \ {e[x]})
        <5> HIDE DEF E
        <5> QED
          BY <3>4, <3>5, <4>1, SumTakes
      <4> QED
        BY <3>3, <4>2
    <3>7. SumFunctionOnSet(f, s) = f[x] + SumFunctionOnSet(f, r)
      BY <2>0, SumTakes
    <3>8. SumFunctionOnSet(f, s) = SumFunctionOnSet(g, E)
      BY <3>2, <3>6, <3>7
    <3> QED
      BY <3>4, <3>8
  <2> QED
    BY <2>1, <2>2
<1>2. S \in T
  <2> HIDE DEF T
  <2> QED
    BY <1>1, SubsetInduction
<1> QED
  BY <1>2
-----------------------------------------------------------------------------
\* The inductive invariant.

\* A shard has called register_factory.
Known(k) == st[k] \notin {"waiting", "missing"}

\* A shard that is being built has the thread to itself until its first refresh.
Jobs ==
  /\ job # nobody => st[job] \in {"registered", "filled", "live"}
  /\ \A k \in Shard : st[k] \in {"registered", "filled"} => job = k

\* When a book is empty, and when it is not.
Books ==
  \A k \in Shard :
    /\ st[k] \in {"waiting", "registered"} => book[k].id = 0
    /\ st[k] \in {"filled", "built", "live"} => book[k].id > 0

\* The hub knows the shards that have registered: each lane lists them.
Hub ==
  \A k \in Shard :
    Known(k) =>
      /\ factories[Sources[k]] = k
      /\ \E j \in DOMAIN sources[InstrumentOf(k)] : sources[InstrumentOf(k)][j] = Sources[k]

\* And no others.
Lists ==
  \A i \in Instrument : \A j \in DOMAIN sources[i] :
    /\ sources[i][j].instrument = i
    /\ \E k \in Shard : Sources[k] = sources[i][j] /\ Known(k)

\* A lane's id is not above the books of its sources.
Lanes ==
  \A i \in Instrument :
    merged[i].id > 0 => \E k \in ShardsOn(i) : Known(k) /\ merged[i].id <= book[k].id

LanesInv == BookTypes /\ Jobs /\ Books /\ Hub /\ Lists /\ Lanes /\ ServedIsFilled

\* A lane lists a source once.
Listed ==
  \A i \in Instrument : \A j, l \in DOMAIN sources[i] : sources[i][j] = sources[i][l] => j = l

\* What LaneIsMerge says, also of a crashed process and of the lanes that the thread is
\* not about to refresh.
Merges ==
  \A i \in Instrument :
    job \in ShardsOn(i)
      \/ \E shards \in SUBSET (ReadableOn(i) \cup DroppedOn(i)) :
           ReadableOn(i) \subseteq shards /\ merged[i] = MergeOf(shards)

SumsInv == Listed /\ Merges

IInv == TypeOK /\ LanesInv /\ SumsInv

LEMMA SourceOf ==
  ASSUME NEW k \in Shard
  PROVE  /\ k \in Nat /\ k # nobody
         /\ Sources[k] \in BookSource
         /\ ProviderOf(k) \in Provider
         /\ InstrumentOf(k) \in Instrument
         /\ Sources[k].instrument = InstrumentOf(k)
<1>1. Sources \in Seq(BookSource)
  BY SourcesAssumption
<1>2. /\ Len(Sources) \in Nat /\ DOMAIN Sources = 1 .. Len(Sources)
      /\ \A j \in 1 .. Len(Sources) : Sources[j] \in BookSource
  BY <1>1
<1>3. k \in 1 .. Len(Sources)
  BY <1>2 DEF Shard
<1>4. Sources[k] \in BookSource
  BY <1>2, <1>3
<1> QED
  BY <1>2, <1>3, <1>4 DEF nobody, ProviderOf, InstrumentOf, BookSource

LEMMA InitLanes == Init => LanesInv
<1> SUFFICES ASSUME Init PROVE LanesInv
  OBVIOUS
<1>1. BookTypes
  BY QtyAssumption, SourcesAssumption
     DEF Init, BookTypes, ShardState, Book, Levels, Default, nobody
<1>2. Jobs /\ Books /\ Hub
  BY DEF Init, Jobs, Books, Hub, Known, Default
<1>3. Lists /\ Lanes /\ ServedIsFilled
  BY DEF Init, Lists, Lanes, ServedIsFilled, Default
<1> QED
  BY <1>1, <1>2, <1>3 DEF LanesInv

-----------------------------------------------------------------------------
\* Books.

LEMMA Diff ==
  ASSUME NEW b \in Book, b.id \in 0 .. MaxId, NEW u \in Diffs
  PROVE  /\ Absorb(b, u) \in Book
         /\ Absorb(b, u).id \in 0 .. MaxId
         /\ Absorb(b, u).id >= b.id
<1>1. u.last \in 1 .. MaxId /\ u.lv \in Levels /\ u.touched \subseteq Price
  BY DEF Diffs, Levels
<1>2. SetLevels(u, b) \in Levels
  BY <1>1 DEF SetLevels, Book, Levels
<1> QED
  BY <1>1, <1>2, SourcesAssumption DEF Absorb, SkipUpdate, Book

LEMMA Snapshot ==
  ASSUME NEW b \in Book, NEW s \in [id : 1 .. MaxId, lv : Levels]
  PROVE  Extend(b, s) \in Book /\ Extend(b, s).id \in 1 .. MaxId
BY SourcesAssumption DEF Extend, Book, Levels

-----------------------------------------------------------------------------
\* A refresh.

LEMMA LaneId ==
  ASSUME LanesInv, NEW k \in Shard, HasWriter(k)
  PROVE  LET id == MergeLane(InstrumentOf(k)).id IN
         /\ id \in Nat
         /\ \A m \in ShardsOn(InstrumentOf(k)) : HasWriter(m) => id >= book[m].id
         /\ \E m \in ShardsOn(InstrumentOf(k)) : Known(m) /\ id = book[m].id
<1> DEFINE i == InstrumentOf(k)
           group == {j \in DOMAIN sources[i] : HasWriter(factories[sources[i][j]])}
           ids == {book[factories[sources[i][j]]].id : j \in group}
<1>1. i \in Instrument
  BY SourceOf
<1>2. \A j \in DOMAIN sources[i] :
        factories[sources[i][j]] \in ShardsOn(i) /\ Known(factories[sources[i][j]])
  <2>1. ASSUME NEW j \in DOMAIN sources[i]
        PROVE  factories[sources[i][j]] \in ShardsOn(i) /\ Known(factories[sources[i][j]])
    <3>1. PICK m \in Shard : Sources[m] = sources[i][j] /\ Known(m)
      BY <1>1 DEF LanesInv, Lists
    <3>2. factories[sources[i][j]] = m
      BY <3>1 DEF LanesInv, Hub
    <3>3. InstrumentOf(m) = i
      BY <1>1, <3>1, SourceOf DEF LanesInv, Lists
    <3> QED
      BY <3>1, <3>2, <3>3 DEF ShardsOn
  <2> QED
    BY <2>1
<1>3. ids \in SUBSET (0 .. MaxId)
  BY <1>2 DEF LanesInv, BookTypes, ShardsOn
<1>4. \A m \in ShardsOn(i) : HasWriter(m) => book[m].id \in ids
  <2>1. ASSUME NEW m \in ShardsOn(i), HasWriter(m) PROVE book[m].id \in ids
    <3>1. m \in Shard /\ InstrumentOf(m) = i /\ Known(m)
      BY <2>1 DEF ShardsOn, HasWriter, Known
    <3>2. PICK j \in DOMAIN sources[i] : sources[i][j] = Sources[m]
      BY <3>1 DEF LanesInv, Hub
    <3>3. factories[sources[i][j]] = m
      BY <3>1, <3>2 DEF LanesInv, Hub
    <3>4. j \in group
      BY <2>1, <3>3
    <3> QED
      BY <3>3, <3>4
  <2> QED
    BY <2>1
<1>5. k \in ShardsOn(i)
  BY DEF ShardsOn
<1>6. ids # {}
  BY <1>4, <1>5
<1>7. group # {}
  BY <1>6
<1>8. MergeLane(i).id = Max(ids)
  BY <1>7 DEF MergeLane
<1>9. Max(ids) \in ids /\ \A x \in ids : x <= Max(ids)
  <2> HIDE DEF ids
  <2> QED
    BY <1>3, <1>6, MaxOfIds, SourcesAssumption
<1>10. \E m \in ShardsOn(i) : Known(m) /\ Max(ids) = book[m].id
  BY <1>2, <1>9
<1> QED
  <2> HIDE DEF ids
  <2>1. ids \subseteq Nat
    BY <1>3
  <2>2. ASSUME NEW m \in ShardsOn(i), HasWriter(m) PROVE Max(ids) >= book[m].id
    <3>1. book[m].id \in ids
      BY <1>4, <2>2
    <3> QED
      BY <1>9, <2>1, <3>1
  <2> QED
    BY <1>8, <1>9, <1>10, <2>1, <2>2

-----------------------------------------------------------------------------
\* The steps that change no hub.

\* st' differs from st by steps that neither register a shard nor start a job.
LEMMA StatesOnly ==
  ASSUME LanesInv, Idle, UNCHANGED <<book, job, hubVars>>,
         st' \in [Shard -> ShardState],
         \A k \in Shard : \/ st'[k] = st[k]
                          \/ st'[k] = "missing" /\ st[k] = "waiting"
                          \/ st'[k] = "dropped" /\ HasWriter(k)
                          \/ st'[k] = "live" /\ st[k] = "built"
  PROVE  LanesInv'
<1>1. BookTypes'
  BY DEF LanesInv, BookTypes, hubVars
<1>2. Jobs'
  BY DEF LanesInv, Jobs, Idle
<1>3. Books'
  BY DEF LanesInv, Books
<1>4. \A k \in Shard : Known(k)' <=> Known(k)
  BY DEF Known, HasWriter
<1>5. Hub' /\ Lists' /\ Lanes'
  BY <1>4 DEF LanesInv, Hub, Lists, Lanes, ShardsOn, InstrumentOf, hubVars
<1>6. ServedIsFilled'
  BY DEF LanesInv, ServedIsFilled, hubVars, ShardsOn, InstrumentOf
<1> QED
  BY <1>1, <1>2, <1>3, <1>5, <1>6 DEF LanesInv

LEMMA TaskStep ==
  ASSUME LanesInv, NEW p \in Provider,
         Start(p) \/ StartPanics(p) \/ Subscribe(p) \/ ConnectPanics(p) \/ End(p)
  PROVE  LanesInv'
<1>1. CASE Start(p) \/ Subscribe(p)
  BY <1>1, StatesOnly DEF Start, Subscribe, shardVars, LanesInv, BookTypes
<1>2. CASE StartPanics(p) \/ ConnectPanics(p)
  <2>1. /\ Idle /\ UNCHANGED <<book, job, hubVars>>
        /\ st' = [k \in Shard |-> IF HasWriter(k) THEN "dropped" ELSE st[k]]
    BY <1>2 DEF StartPanics, ConnectPanics, Panic
  <2>2. st' \in [Shard -> ShardState]
    BY <2>1 DEF LanesInv, BookTypes, ShardState
  <2> QED
    BY <2>1, <2>2, StatesOnly
<1>3. CASE End(p)
  <2>1. /\ Idle /\ UNCHANGED <<book, job, hubVars>>
        /\ st' = [k \in Shard |-> IF k \in ShardsOf(p) /\ st[k] = "live" THEN "dropped" ELSE st[k]]
    BY <1>3 DEF End
  <2>2. st' \in [Shard -> ShardState]
    BY <2>1 DEF LanesInv, BookTypes, ShardState
  <2> QED
    BY <2>1, <2>2, StatesOnly DEF HasWriter
<1> QED
  BY <1>1, <1>2, <1>3

LEMMA BuildFailsStep ==
  ASSUME LanesInv, NEW k \in Shard, BuildFails(k)
  PROVE  LanesInv'
<1>1. /\ Idle /\ UNCHANGED <<book, job, hubVars>> /\ st[k] = "waiting"
      /\ st' = [st EXCEPT ![k] = "missing"]
  BY DEF BuildFails
<1>2. st' \in [Shard -> ShardState]
  BY <1>1 DEF LanesInv, BookTypes, ShardState
<1>3. \A m \in Shard : st'[m] = st[m] \/ (st'[m] = "missing" /\ st[m] = "waiting")
  BY <1>1 DEF LanesInv, BookTypes
<1> QED
  BY <1>1, <1>2, <1>3, StatesOnly

LEMMA CollectStep ==
  ASSUME LanesInv, NEW k \in Shard, Collect(k)
  PROVE  LanesInv'
<1>1. /\ Idle /\ UNCHANGED <<book, job, hubVars>> /\ st[k] = "built"
      /\ st' = [j \in Shard |->
                  IF j = k THEN "live"
                  ELSE IF st[j] = "live" /\ Sources[j] = Sources[k] THEN "dropped"
                  ELSE st[j]]
  BY DEF Collect
<1>2. st' \in [Shard -> ShardState]
  BY <1>1 DEF LanesInv, BookTypes, ShardState
<1> QED
  BY <1>1, <1>2, StatesOnly DEF HasWriter

-----------------------------------------------------------------------------
\* Registration.

LEMMA RegisterStep ==
  ASSUME LanesInv, Distinct, NEW k \in Shard, Register(k)
  PROVE  LanesInv'
<1> DEFINE i == InstrumentOf(k)
<1>1. /\ Idle /\ st[k] = "waiting" /\ UNCHANGED <<taskVars, book, merged>>
      /\ st' = [st EXCEPT ![k] = "registered"] /\ job' = k
      /\ factories' = [factories EXCEPT ![Sources[k]] = k]
      /\ sources' = [sources EXCEPT ![i] = Append(@, Sources[k])]
      /\ served' = served \cup {i}
  BY DEF Register, RegisterFactory
<1>2. i \in Instrument /\ Sources[k] \in BookSource /\ k # nobody /\ Sources[k].instrument = i
  BY SourceOf
<1>3. BookTypes
  BY DEF LanesInv
<1>4. /\ \A m \in Shard : st'[m] = IF m = k THEN "registered" ELSE st[m]
      /\ \A m \in Shard : Known(m)' <=> Known(m) \/ m = k
  BY <1>1, <1>3 DEF BookTypes, Known
<1>5. BookTypes'
  <2>1. st' \in [Shard -> ShardState]
    BY <1>1, <1>3 DEF BookTypes, ShardState
  <2>2. factories' \in [BookSource -> Shard \cup {nobody}]
    BY <1>1, <1>3 DEF BookTypes
  <2>3. sources' \in [Instrument -> Seq(BookSource)]
    BY <1>1, <1>2, <1>3 DEF BookTypes
  <2> QED
    BY <1>1, <1>2, <1>3, <2>1, <2>2, <2>3 DEF BookTypes
<1>6. Jobs'
  <2>1. ASSUME NEW m \in Shard, st'[m] \in {"registered", "filled"} PROVE m = k
    <3>1. CASE m # k
      <4>1. st[m] \in {"registered", "filled"}
        BY <1>4, <2>1, <3>1
      <4>2. m = nobody
        BY <1>1, <4>1 DEF LanesInv, Jobs, Idle
      <4> QED
        BY <4>2, SourceOf
    <3> QED
      BY <3>1
  <2> QED
    BY <1>1, <1>4, <2>1 DEF Jobs
<1>7. Books'
  BY <1>1, <1>4 DEF LanesInv, Books
<1>8. /\ \A l \in Instrument \ {i} : sources'[l] = sources[l]
      /\ DOMAIN sources'[i] = DOMAIN sources[i] \cup {Len(sources[i]) + 1}
      /\ \A j \in DOMAIN sources[i] : sources'[i][j] = sources[i][j]
      /\ sources'[i][Len(sources[i]) + 1] = Sources[k]
  BY <1>1, <1>2, <1>3 DEF BookTypes
<1>9. Hub'
  <2>1. ASSUME NEW m \in Shard, Known(m)'
        PROVE  /\ factories'[Sources[m]] = m
               /\ \E j \in DOMAIN sources'[InstrumentOf(m)] :
                    sources'[InstrumentOf(m)][j] = Sources[m]
    <3>1. CASE m = k
      BY <1>1, <1>2, <1>3, <1>8, <3>1 DEF BookTypes
    <3>2. CASE m # k
      <4>1. Known(m)
        BY <1>4, <2>1, <3>2
      <4>2. Sources[m] # Sources[k]
        BY <3>2 DEF Distinct
      <4>3. factories'[Sources[m]] = m
        BY <1>1, <1>3, <4>1, <4>2, SourceOf DEF LanesInv, Hub, BookTypes
      <4>4. InstrumentOf(m) \in Instrument
        BY SourceOf
      <4>5. PICK j \in DOMAIN sources[InstrumentOf(m)] :
              sources[InstrumentOf(m)][j] = Sources[m]
        BY <4>1 DEF LanesInv, Hub
      <4>6. /\ j \in DOMAIN sources'[InstrumentOf(m)]
            /\ sources'[InstrumentOf(m)][j] = Sources[m]
        BY <1>8, <4>4, <4>5
      <4> QED
        BY <4>3, <4>6
    <3> QED
      BY <3>1, <3>2
  <2> QED
    BY <2>1 DEF Hub, InstrumentOf
<1>10. Lists'
  <2>1. ASSUME NEW l \in Instrument, NEW j \in DOMAIN sources'[l]
        PROVE  /\ sources'[l][j].instrument = l
               /\ \E m \in Shard : Sources[m] = sources'[l][j] /\ Known(m)'
    <3>1. CASE j \in DOMAIN sources[l]
      BY <1>4, <1>8, <3>1 DEF LanesInv, Lists
    <3>2. CASE j \notin DOMAIN sources[l]
      BY <1>2, <1>4, <1>8, <2>1, <3>2
    <3> QED
      BY <3>1, <3>2
  <2> QED
    BY <2>1 DEF Lists
<1>11. Lanes'
  BY <1>1, <1>4 DEF LanesInv, Lanes, ShardsOn, InstrumentOf
<1>12. ServedIsFilled'
  BY <1>1, SMTT(30) DEF LanesInv, ServedIsFilled, Idle, nobody, Shard, ShardsOn, InstrumentOf
<1> QED
  BY <1>5, <1>6, <1>7, <1>9, <1>10, <1>11, <1>12 DEF LanesInv

-----------------------------------------------------------------------------
\* New books.

\* The book of one shard grows, while or before the thread works on that shard.
LEMMA BookGrows ==
  ASSUME LanesInv, NEW k \in Shard,
         UNCHANGED hubVars, NEW b \in Book, b.id \in 1 .. MaxId, b.id >= book[k].id,
         book' = [book EXCEPT ![k] = b],
         job \in {nobody, k}, job' = k,
         NEW s \in {"filled", "live"}, st' = [st EXCEPT ![k] = s],
         s = "filled" => job = k,
         Known(k)
  PROVE  LanesInv'
<1>1. BookTypes
  BY DEF LanesInv
<1>2. /\ \A m \in Shard : st'[m] = IF m = k THEN s ELSE st[m]
      /\ \A m \in Shard : book'[m] = IF m = k THEN b ELSE book[m]
      /\ \A m \in Shard : Known(m)' <=> Known(m)
  BY <1>1 DEF BookTypes, Known
<1>3. BookTypes'
  <2>1. st' \in [Shard -> ShardState] /\ book' \in [Shard -> Book]
    BY <1>1 DEF BookTypes, ShardState
  <2>2. \A m \in Shard : book'[m].id \in 0 .. MaxId
    BY <1>1, <1>2, SourcesAssumption DEF BookTypes
  <2> QED
    BY <1>1, <2>1, <2>2 DEF BookTypes, hubVars
<1>4. Jobs'
  BY <1>2, SourceOf DEF LanesInv, Jobs
<1>5. Books'
  BY <1>2 DEF LanesInv, Books
<1>6. Hub' /\ Lists'
  BY <1>2 DEF LanesInv, Hub, Lists, InstrumentOf, hubVars
<1>7. Lanes'
  <2>1. ASSUME NEW i \in Instrument, merged[i].id > 0
        PROVE  \E m \in ShardsOn(i) : Known(m)' /\ merged[i].id <= book'[m].id
    <3>1. PICK m \in ShardsOn(i) : Known(m) /\ merged[i].id <= book[m].id
      BY <2>1 DEF LanesInv, Lanes
    <3>2. m \in Shard /\ book[m].id \in Nat /\ book'[m].id \in Nat /\ merged[i].id \in Nat
      BY <1>1, <1>3, <3>1, SourcesAssumption DEF BookTypes, ShardsOn
    <3>3. book[m].id <= book'[m].id
      BY <1>2, <3>2
    <3> QED
      BY <1>2, <3>1, <3>2, <3>3
  <2> QED
    BY <2>1 DEF Lanes, ShardsOn, InstrumentOf, hubVars
<1>8. ServedIsFilled'
  <2>1. ASSUME NEW i \in Instrument, job \in ShardsOn(i) PROVE job' \in ShardsOn(i)
    <3>1. job \in Shard
      BY <2>1 DEF ShardsOn
    <3>2. job # nobody
      BY <3>1, SourceOf
    <3> QED
      BY <2>1, <3>2
  <2>2. ASSUME NEW i \in served PROVE merged[i].id > 0 \/ job' \in ShardsOn(i)
    BY <1>1, <2>1, <2>2 DEF LanesInv, ServedIsFilled, BookTypes
  <2> QED
    BY <2>2 DEF ServedIsFilled, hubVars, ShardsOn, InstrumentOf
<1> QED
  BY <1>3, <1>4, <1>5, <1>6, <1>7, <1>8 DEF LanesInv

LEMMA InitializeStep ==
  ASSUME LanesInv, NEW k \in Shard, Initialize(k)
  PROVE  LanesInv'
<1>1. PICK s \in [id : 1 .. MaxId, lv : Levels] : book' = [book EXCEPT ![k] = Extend(@, s)]
  BY DEF Initialize
<1>2. book[k] \in Book /\ book[k].id = 0
  BY DEF LanesInv, BookTypes, Books, Initialize
<1>3. Extend(book[k], s) \in Book /\ Extend(book[k], s).id \in 1 .. MaxId
  BY <1>2, Snapshot
<1>4. Extend(book[k], s).id >= book[k].id
  BY <1>2, <1>3
<1>5. book' = [book EXCEPT ![k] = Extend(book[k], s)]
  BY <1>1
<1> QED
  BY <1>3, <1>4, <1>5, BookGrows DEF Initialize, Known

LEMMA HandleUpdateStep ==
  ASSUME LanesInv, NEW k \in Shard, HandleUpdate(k)
  PROVE  LanesInv'
<1>1. PICK u \in Diffs : book' = [book EXCEPT ![k] = Absorb(@, u)]
  BY DEF HandleUpdate
<1>2. book[k] \in Book /\ book[k].id \in 0 .. MaxId /\ book[k].id > 0
  BY DEF LanesInv, BookTypes, Books, HandleUpdate
<1>3. /\ Absorb(book[k], u) \in Book
      /\ Absorb(book[k], u).id \in 1 .. MaxId
      /\ Absorb(book[k], u).id >= book[k].id
  BY <1>2, Diff, SourcesAssumption
<1>4. book' = [book EXCEPT ![k] = Absorb(book[k], u)]
  BY <1>1
<1>5. st' = [st EXCEPT ![k] = "live"] /\ st[k] = "live" /\ job = nobody /\ job' = k
  BY DEF HandleUpdate, Idle, LanesInv, BookTypes
<1>6. UNCHANGED hubVars
  BY DEF HandleUpdate
<1> QED
  BY <1>3, <1>4, <1>5, <1>6, BookGrows DEF Known

-----------------------------------------------------------------------------
\* The refresh of a lane.

LEMMA RefreshStep ==
  ASSUME LanesInv, NEW k \in Shard, Refresh(k)
  PROVE  LanesInv'
<1> DEFINE i == InstrumentOf(k)
           id == MergeLane(i).id
<1>1. /\ job = k /\ st[k] \in {"filled", "live"} /\ job' = nobody
      /\ merged' = [merged EXCEPT ![i] = MergeLane(i)]
      /\ st' = [st EXCEPT ![k] = IF @ = "filled" THEN "built" ELSE @]
      /\ UNCHANGED <<taskVars, book, factories, sources, served>>
  BY DEF Refresh
<1>2. BookTypes /\ i \in Instrument /\ k # nobody
  BY SourceOf DEF LanesInv
<1>3. /\ \A m \in Shard :
           st'[m] = IF m = k THEN (IF st[k] = "filled" THEN "built" ELSE st[k]) ELSE st[m]
      /\ \A m \in Shard : Known(m)' <=> Known(m)
  BY <1>1, <1>2 DEF BookTypes, Known
<1>4. /\ id \in Nat
      /\ \A m \in ShardsOn(i) : HasWriter(m) => id >= book[m].id
      /\ \E m \in ShardsOn(i) : Known(m) /\ id = book[m].id
  BY <1>1, LaneId DEF HasWriter
<1>5. \A l \in Instrument : merged'[l].id = IF l = i THEN id ELSE merged[l].id
  BY <1>1, <1>2 DEF BookTypes
<1>6. BookTypes'
  <2>1. st' \in [Shard -> ShardState]
    BY <1>1, <1>2 DEF BookTypes, ShardState
  <2>2. merged' = [l \in Instrument |-> merged'[l]]
    BY <1>1, <1>2 DEF BookTypes
  <2> QED
    BY <1>1, <1>2, <1>4, <1>5, <2>1, <2>2 DEF BookTypes
<1>7. Jobs'
  BY <1>1, <1>3 DEF LanesInv, Jobs, nobody
<1>8. Books'
  BY <1>1, <1>3 DEF LanesInv, Books
<1>9. Hub' /\ Lists'
  BY <1>1, <1>3 DEF LanesInv, Hub, Lists, InstrumentOf
<1>10. Lanes'
  <2>1. ASSUME NEW l \in Instrument, merged'[l].id > 0
        PROVE  \E m \in ShardsOn(l) : Known(m)' /\ merged'[l].id <= book[m].id
    <3>1. CASE l = i
      <4>1. PICK m \in ShardsOn(i) : Known(m) /\ id = book[m].id
        BY <1>4
      <4>2. m \in Shard
        BY DEF ShardsOn
      <4> QED
        BY <1>3, <1>4, <1>5, <3>1, <4>1, <4>2
    <3>2. CASE l # i
      <4>1. PICK m \in ShardsOn(l) : Known(m) /\ merged[l].id <= book[m].id
        BY <1>5, <2>1, <3>2 DEF LanesInv, Lanes
      <4> QED
        BY <1>3, <1>5, <3>2, <4>1 DEF ShardsOn
    <3> QED
      BY <3>1, <3>2
  <2> QED
    BY <1>1, <2>1 DEF Lanes, ShardsOn, InstrumentOf
<1>11. ServedIsFilled'
  <2>1. ASSUME NEW l \in served PROVE merged'[l].id > 0
    <3>1. l \in Instrument
      BY <1>2 DEF BookTypes
    <3>2. CASE l = i
      <4>1. k \in ShardsOn(i) /\ HasWriter(k) /\ book[k].id > 0 /\ book[k].id \in Nat
        BY <1>1, <1>2, SourcesAssumption DEF ShardsOn, HasWriter, LanesInv, Books, BookTypes
      <4>2. id >= book[k].id
        BY <1>4, <4>1
      <4> HIDE DEF id
      <4> QED
        BY <1>4, <1>5, <3>1, <3>2, <4>1, <4>2
    <3>3. CASE l # i
      BY <1>1, <1>5, <3>1, <3>3 DEF LanesInv, ServedIsFilled, ShardsOn
    <3> QED
      BY <3>2, <3>3
  <2> QED
    BY <1>1, <2>1 DEF ServedIsFilled
<1> QED
  BY <1>6, <1>7, <1>8, <1>9, <1>10, <1>11 DEF LanesInv

-----------------------------------------------------------------------------
\* The theorems.

\* The tasks' types need nothing of the rest.
LEMMA TaskStepTypes == TaskTypes /\ [Next]_vars => TaskTypes'
<1> SUFFICES ASSUME TaskTypes, [Next]_vars PROVE TaskTypes'
  OBVIOUS
<1>1. ASSUME NEW p \in Provider,
             Start(p) \/ StartPanics(p) \/ Subscribe(p) \/ ConnectPanics(p) \/ End(p)
      PROVE  TaskTypes'
  <2>1. CASE Start(p)
    BY <2>1 DEF Start, TaskTypes
  <2>2. CASE StartPanics(p) \/ ConnectPanics(p)
    BY <2>2 DEF StartPanics, ConnectPanics, Panic, TaskTypes
  <2>3. CASE Subscribe(p)
    BY <2>3 DEF Subscribe, TaskTypes
  <2>4. CASE End(p)
    BY <2>4 DEF End, TaskTypes
  <2> QED
    BY <1>1, <2>1, <2>2, <2>3, <2>4
<1>2. ASSUME NEW k \in Shard,
             Register(k) \/ BuildFails(k) \/ Initialize(k) \/ Collect(k) \/ Refresh(k)
               \/ HandleUpdate(k)
      PROVE  TaskTypes'
  <2>1. UNCHANGED taskVars
    BY <1>2 DEF Register, BuildFails, Initialize, Collect, Refresh, HandleUpdate
  <2> QED
    BY <2>1 DEF taskVars, TaskTypes
<1>3. CASE UNCHANGED vars
  BY <1>3 DEF vars, taskVars, TaskTypes
<1> QED
  BY <1>1, <1>2, <1>3 DEF Next

LEMMA Step ==
  ASSUME LanesInv, Distinct, [Next]_vars
  PROVE  LanesInv'
<1>1. ASSUME NEW p \in Provider,
             Start(p) \/ StartPanics(p) \/ Subscribe(p) \/ ConnectPanics(p) \/ End(p)
      PROVE  LanesInv'
  BY <1>1, TaskStep
<1>2. ASSUME NEW k \in Shard,
             Register(k) \/ BuildFails(k) \/ Initialize(k) \/ Collect(k) \/ Refresh(k)
               \/ HandleUpdate(k)
      PROVE  LanesInv'
  BY <1>2, RegisterStep, BuildFailsStep, InitializeStep, CollectStep, RefreshStep,
     HandleUpdateStep
<1>3. CASE UNCHANGED vars
  <2>1. UNCHANGED <<st, book, job, factories, sources, merged, served>>
    BY <1>3 DEF vars, shardVars, hubVars
  <2>2. BookTypes'
    BY <2>1 DEF LanesInv, BookTypes
  <2>3. Jobs' /\ Books'
    BY <2>1 DEF LanesInv, Jobs, Books
  <2>4. \A m \in Shard : Known(m)' <=> Known(m)
    BY <2>1 DEF Known
  <2>5. Hub' /\ Lists' /\ Lanes'
    BY <2>1, <2>4 DEF LanesInv, Hub, Lists, Lanes, ShardsOn, InstrumentOf
  <2>6. ServedIsFilled'
    BY <2>1 DEF LanesInv, ServedIsFilled, ShardsOn, InstrumentOf
  <2> QED
    BY <2>2, <2>3, <2>5, <2>6 DEF LanesInv
<1> QED
  BY <1>1, <1>2, <1>3 DEF Next

-----------------------------------------------------------------------------
\* The quantities of the lanes.

LEMMA InitSums == Init => SumsInv
<1> SUFFICES ASSUME Init PROVE SumsInv
  OBVIOUS
<1>1. Listed
  BY DEF Init, Listed
<1>2. ASSUME NEW i \in Instrument
      PROVE  ReadableOn(i) = {} /\ merged[i] = MergeOf({})
  <2>1. ReadableOn(i) = {}
    BY DEF Init, ReadableOn, ShardsOn, HasWriter
  <2>2. \A p \in Price : SumFunction([k \in {} |-> book[k].lv[p]]) = 0
    <3> TAKE p \in Price
    <3> DEFINE f == [k \in {} |-> book[k].lv[p]]
    <3>1. DOMAIN f = {} /\ IsFiniteSet({}) /\ {} \in SUBSET {}
      BY FS_EmptySet
    <3>2. SumFunctionOnSet(f, {}) = 0
      <4> HIDE DEF f
      <4> QED
        BY <3>1, SumIs
    <3> QED
      BY <3>1, <3>2 DEF SumFunction
  <2>3. MergeOf({}) = [id |-> 0, lv |-> [p \in Price |-> 0]]
    BY <2>2 DEF MergeOf
  <2> QED
    BY <2>1, <2>3 DEF Init, Default
<1> QED
  BY <1>1, <1>2 DEF SumsInv, Merges

\* A merge reads the books of its shards and nothing else.
LEMMA MergeReads ==
  ASSUME NEW S, \A k \in S : book'[k] = book[k]
  PROVE  MergeOf(S)' = MergeOf(S)
<1>1. {book'[k].id : k \in S} = {book[k].id : k \in S}
  OBVIOUS
<1>2. \A p \in Price : [k \in S |-> book'[k].lv[p]] = [k \in S |-> book[k].lv[p]]
  OBVIOUS
<1> QED
  BY <1>1, <1>2 DEF MergeOf

\* The lane that refresh_merged_for computes: the sources of i that can be read, each
\* named by one place of the list.
LEMMA LaneMerges ==
  ASSUME LanesInv, Listed, NEW i \in Instrument
  PROVE  MergeLane(i) = MergeOf(ReadableOn(i))
<1> DEFINE named(j) == factories[sources[i][j]]
           group == {j \in DOMAIN sources[i] : HasWriter(factories[sources[i][j]])}
           e == [j \in group |-> named(j)]
<1>1. \A j \in DOMAIN sources[i] : named(j) \in ShardsOn(i) /\ Sources[named(j)] = sources[i][j]
  <2>1. ASSUME NEW j \in DOMAIN sources[i]
        PROVE  named(j) \in ShardsOn(i) /\ Sources[named(j)] = sources[i][j]
    <3>1. PICK m \in Shard : Sources[m] = sources[i][j] /\ Known(m)
      BY DEF LanesInv, Lists
    <3>2. named(j) = m
      BY <3>1 DEF LanesInv, Hub
    <3>3. InstrumentOf(m) = i
      BY <3>1, SourceOf DEF LanesInv, Lists
    <3> QED
      BY <3>1, <3>2, <3>3 DEF ShardsOn
  <2> QED
    BY <2>1
<1>2. \A j, l \in group : e[j] = e[l] => j = l
  BY <1>1 DEF Listed
<1>3. {e[j] : j \in group} = ReadableOn(i)
  <2>1. \A j \in group : e[j] \in ReadableOn(i)
    BY <1>1 DEF ReadableOn
  <2>2. ASSUME NEW k \in ReadableOn(i) PROVE \E j \in group : k = e[j]
    <3>1. k \in Shard /\ InstrumentOf(k) = i /\ HasWriter(k) /\ Known(k)
      BY DEF ReadableOn, ShardsOn, HasWriter, Known
    <3>2. PICK j \in DOMAIN sources[i] : sources[i][j] = Sources[k]
      BY <3>1 DEF LanesInv, Hub
    <3>3. named(j) = k
      BY <3>1, <3>2 DEF LanesInv, Hub
    <3> QED
      BY <3>1, <3>3
  <2> HIDE DEF e, group
  <2> QED
    BY <2>1, <2>2
<1>4. IsFiniteSet(group)
  <2>1. sources[i] \in Seq(BookSource)
    BY DEF LanesInv, BookTypes
  <2>2. DOMAIN sources[i] = 1 .. Len(sources[i]) /\ Len(sources[i]) \in Nat
    BY <2>1
  <2>3. IsFiniteSet(DOMAIN sources[i])
    <3> DEFINE n == Len(sources[i])
    <3>1. 1 \in Int /\ n \in Int
      BY <2>2
    <3> HIDE DEF n
    <3>2. IsFiniteSet(1 .. n)
      BY <3>1, FS_Interval
    <3> QED
      BY <2>2, <3>2 DEF n
  <2>4. group \subseteq DOMAIN sources[i]
    OBVIOUS
  <2> HIDE DEF group
  <2> QED
    BY <2>3, <2>4, FS_Subset, Zenon
<1>5. ASSUME NEW p \in Price
      PROVE  SumFunction([j \in group |-> book[named(j)].lv[p]])
               = SumFunction([k \in ReadableOn(i) |-> book[k].lv[p]])
  <2> DEFINE f == [j \in group |-> book[named(j)].lv[p]]
             g == [k \in ReadableOn(i) |-> book[k].lv[p]]
  <2>1. ASSUME NEW j \in group PROVE f[j] \in Int /\ g[e[j]] = f[j]
    <3>1. e[j] = named(j) /\ named(j) \in ReadableOn(i) /\ named(j) \in Shard
      BY <1>1 DEF ReadableOn, ShardsOn
    <3>2. book[named(j)].lv[p] \in Int
      BY <3>1, QtyAssumption DEF LanesInv, BookTypes, Book, Levels
    <3> QED
      BY <3>1, <3>2
  <2>2. SumFunctionOnSet(f, group) = SumFunctionOnSet(g, {e[j] : j \in group})
    <3> HIDE DEF f, g, e, group
    <3> QED
      BY <1>2, <1>4, <2>1, SumRenames
  <2>3. DOMAIN f = group /\ DOMAIN g = ReadableOn(i)
    OBVIOUS
  <2> HIDE DEF f, g, e, group
  <2>4. SumFunction(f) = SumFunction(g)
    BY <1>3, <2>2, <2>3 DEF SumFunction
  <2> QED
    BY <2>4 DEF f, g
<1>6. /\ group = {} <=> ReadableOn(i) = {}
      /\ {book[named(j)].id : j \in group} = {book[k].id : k \in ReadableOn(i)}
  <2>1. \A j \in group : e[j] = named(j)
    OBVIOUS
  <2> HIDE DEF e, group
  <2> QED
    BY <1>3, <2>1
<1>7. MergeLane(i) =
        [id |-> IF group = {} THEN 0 ELSE Max({book[named(j)].id : j \in group}),
         lv |-> [p \in Price |-> SumFunction([j \in group |-> book[named(j)].lv[p]])]]
  BY DEF MergeLane
<1>8. MergeOf(ReadableOn(i)) =
        [id |-> IF ReadableOn(i) = {} THEN 0 ELSE Max({book[k].id : k \in ReadableOn(i)}),
         lv |-> [p \in Price |-> SumFunction([k \in ReadableOn(i) |-> book[k].lv[p]])]]
  BY DEF MergeOf
<1> HIDE DEF named, group, e
<1> QED
  BY <1>5, <1>6, <1>7, <1>8

\* A step that changes no book, no lane and no source list, and after which a source
\* that was read or dropped still is one or the other.
LEMMA StatesSums ==
  ASSUME SumsInv, UNCHANGED <<book, job, sources, merged>>,
         \A k \in Shard : /\ st[k] = "dropped" => st'[k] = "dropped"
                          /\ HasWriter(k) => HasWriter(k)' \/ st'[k] = "dropped"
                          /\ HasWriter(k)' => HasWriter(k)
  PROVE  SumsInv'
<1>1. Listed'
  BY DEF SumsInv, Listed
<1>2. ASSUME NEW i \in Instrument, job \notin ShardsOn(i)
      PROVE  (\E shards \in SUBSET (ReadableOn(i) \cup DroppedOn(i)) :
                ReadableOn(i) \subseteq shards /\ merged[i] = MergeOf(shards))'
  <2>1. PICK shards \in SUBSET (ReadableOn(i) \cup DroppedOn(i)) :
               ReadableOn(i) \subseteq shards /\ merged[i] = MergeOf(shards)
    BY <1>2 DEF SumsInv, Merges
  <2>2. ShardsOn(i)' = ShardsOn(i) /\ ShardsOn(i) \subseteq Shard
    BY DEF ShardsOn, InstrumentOf
  <2>3. shards \in SUBSET (ReadableOn(i) \cup DroppedOn(i))'
    BY <2>1, <2>2 DEF DroppedOn, ReadableOn
  <2>4. ReadableOn(i)' \subseteq shards
    BY <2>1, <2>2 DEF ReadableOn
  <2>5. merged'[i] = MergeOf(shards)'
    BY <2>1, MergeReads
  <2> QED
    BY <2>3, <2>4, <2>5
<1> QED
  BY <1>1, <1>2 DEF SumsInv, Merges, ShardsOn, InstrumentOf

\* The lane of another instrument than the shard k that the thread works on.
LEMMA OtherLane ==
  ASSUME SumsInv, NEW k \in Shard, NEW i \in Instrument, i # InstrumentOf(k),
         job \in {nobody, k},
         merged'[i] = merged[i],
         \A m \in Shard \ {k} : st'[m] = st[m] /\ book'[m] = book[m]
  PROVE  (\E shards \in SUBSET (ReadableOn(i) \cup DroppedOn(i)) :
            ReadableOn(i) \subseteq shards /\ merged[i] = MergeOf(shards))'
<1>1. job \notin ShardsOn(i)
  BY SourceOf DEF ShardsOn
<1>2. PICK shards \in SUBSET (ReadableOn(i) \cup DroppedOn(i)) :
             ReadableOn(i) \subseteq shards /\ merged[i] = MergeOf(shards)
  BY <1>1 DEF SumsInv, Merges
<1>3. ShardsOn(i)' = ShardsOn(i) /\ ShardsOn(i) \subseteq Shard \ {k}
  BY DEF ShardsOn, InstrumentOf
<1>4. ReadableOn(i)' = ReadableOn(i) /\ DroppedOn(i)' = DroppedOn(i)
  BY <1>3 DEF ReadableOn, DroppedOn, HasWriter
<1>5. \A m \in shards : book'[m] = book[m]
  BY <1>2, <1>3 DEF ReadableOn, DroppedOn
<1>6. MergeOf(shards)' = MergeOf(shards)
  BY <1>5, MergeReads
<1> QED
  BY <1>2, <1>4, <1>6

LEMMA RegisterSums ==
  ASSUME LanesInv, SumsInv, Distinct, NEW k \in Shard, Register(k)
  PROVE  SumsInv'
<1>1. /\ job = nobody /\ st[k] = "waiting" /\ UNCHANGED <<book, merged>>
      /\ st' = [st EXCEPT ![k] = "registered"] /\ job' = k
      /\ sources' = [sources EXCEPT ![InstrumentOf(k)] = Append(@, Sources[k])]
  BY DEF Register, RegisterFactory, Idle
<1>2. sources \in [Instrument -> Seq(BookSource)] /\ st \in [Shard -> ShardState]
  BY DEF LanesInv, BookTypes
<1>3. Listed'
  <2>1. ASSUME NEW i \in Instrument, NEW j \in DOMAIN sources'[i], NEW l \in DOMAIN sources'[i],
               sources'[i][j] = sources'[i][l]
        PROVE  j = l
    <3>1. CASE i # InstrumentOf(k)
      BY <1>1, <1>2, <2>1, <3>1 DEF SumsInv, Listed
    <3>2. CASE i = InstrumentOf(k)
      <4>1. sources[i] \in Seq(BookSource) /\ sources'[i] = Append(sources[i], Sources[k])
        BY <1>1, <1>2, <3>2
      <4>2. /\ DOMAIN sources'[i] = DOMAIN sources[i] \cup {Len(sources[i]) + 1}
            /\ \A n \in DOMAIN sources[i] : sources'[i][n] = sources[i][n]
            /\ sources'[i][Len(sources[i]) + 1] = Sources[k]
        BY <4>1, SourceOf
      <4>3. \A n \in DOMAIN sources[i] : sources[i][n] # Sources[k]
        <5>1. \A m \in Shard : Known(m) => m # k
          BY <1>1 DEF Known
        <5> QED
          BY <5>1 DEF LanesInv, Lists, Distinct
      <4> QED
        BY <2>1, <4>2, <4>3 DEF SumsInv, Listed
    <3> QED
      BY <3>1, <3>2
  <2> QED
    BY <2>1 DEF Listed
<1>4. \A m \in Shard \ {k} : st'[m] = st[m] /\ book'[m] = book[m]
  BY <1>1, <1>2
<1>5. \A i \in Instrument : i # InstrumentOf(k) =>
        (\E shards \in SUBSET (ReadableOn(i) \cup DroppedOn(i)) :
           ReadableOn(i) \subseteq shards /\ merged[i] = MergeOf(shards))'
  BY <1>1, <1>4, OtherLane
<1>6. (job \in ShardsOn(InstrumentOf(k)))'
  BY <1>1 DEF ShardsOn, InstrumentOf
<1> QED
  BY <1>3, <1>5, <1>6 DEF SumsInv, Merges, InstrumentOf

\* A new book of the shard that the thread works on: its lane is about to be refreshed.
LEMMA BookSums ==
  ASSUME LanesInv, SumsInv, NEW k \in Shard, Initialize(k) \/ HandleUpdate(k)
  PROVE  SumsInv'
<1>1. /\ job \in {nobody, k} /\ job' = k /\ UNCHANGED <<sources, merged>>
      /\ \E b : book' = [book EXCEPT ![k] = b]
      /\ \E s : st' = [st EXCEPT ![k] = s]
  <2>1. CASE Initialize(k)
    <3>1. \E b : book' = [book EXCEPT ![k] = b]
      BY <2>1 DEF Initialize
    <3> QED
      BY <2>1, <3>1 DEF Initialize, hubVars
  <2>2. CASE HandleUpdate(k)
    <3>1. \E b : book' = [book EXCEPT ![k] = b]
      BY <2>2 DEF HandleUpdate
    <3>2. st' = [st EXCEPT ![k] = st[k]]
      BY <2>2 DEF HandleUpdate, LanesInv, BookTypes
    <3> QED
      BY <2>2, <3>1, <3>2 DEF HandleUpdate, Idle, hubVars
  <2> QED
    BY <2>1, <2>2
<1>2. \A m \in Shard \ {k} : st'[m] = st[m] /\ book'[m] = book[m]
  BY <1>1 DEF LanesInv, BookTypes
<1>3. \A i \in Instrument : i # InstrumentOf(k) =>
        (\E shards \in SUBSET (ReadableOn(i) \cup DroppedOn(i)) :
           ReadableOn(i) \subseteq shards /\ merged[i] = MergeOf(shards))'
  BY <1>1, <1>2, OtherLane
<1>4. (job \in ShardsOn(InstrumentOf(k)))'
  BY <1>1 DEF ShardsOn, InstrumentOf
<1>5. Listed'
  BY <1>1 DEF SumsInv, Listed
<1> QED
  BY <1>3, <1>4, <1>5 DEF SumsInv, Merges, InstrumentOf

LEMMA RefreshSums ==
  ASSUME LanesInv, SumsInv, NEW k \in Shard, Refresh(k)
  PROVE  SumsInv'
<1> DEFINE i == InstrumentOf(k)
<1>1. /\ job = k /\ st[k] \in {"filled", "live"} /\ UNCHANGED <<book, sources>>
      /\ merged' = [merged EXCEPT ![i] = MergeLane(i)]
      /\ st' = [st EXCEPT ![k] = IF @ = "filled" THEN "built" ELSE @]
  BY DEF Refresh
<1>2. BookTypes /\ i \in Instrument
  BY SourceOf DEF LanesInv
<1>3. \A m \in Shard \ {k} : st'[m] = st[m] /\ book'[m] = book[m]
  BY <1>1, <1>2 DEF BookTypes
<1>4. \A l \in Instrument : l # i =>
        (\E shards \in SUBSET (ReadableOn(l) \cup DroppedOn(l)) :
           ReadableOn(l) \subseteq shards /\ merged[l] = MergeOf(shards))'
  <2>1. ASSUME NEW l \in Instrument, l # i
        PROVE  (\E shards \in SUBSET (ReadableOn(l) \cup DroppedOn(l)) :
                  ReadableOn(l) \subseteq shards /\ merged[l] = MergeOf(shards))'
    <3>1. merged'[l] = merged[l]
      BY <1>1, <1>2, <2>1 DEF BookTypes
    <3> QED
      BY <1>1, <1>3, <2>1, <3>1, OtherLane
  <2> QED
    BY <2>1
<1>5. (\E shards \in SUBSET (ReadableOn(i) \cup DroppedOn(i)) :
         ReadableOn(i) \subseteq shards /\ merged[i] = MergeOf(shards))'
  <2>1. PICK shards : shards = ReadableOn(i)
    OBVIOUS
  <2>2. ReadableOn(i)' = shards
    <3>1. \A m \in Shard : HasWriter(m)' <=> HasWriter(m)
      BY <1>1, <1>2, <1>3 DEF HasWriter, BookTypes
    <3> QED
      BY <2>1, <3>1 DEF ReadableOn, ShardsOn, InstrumentOf
  <2>3. merged'[i] = MergeOf(shards)
    <3>1. MergeLane(i) = MergeOf(ReadableOn(i))
      BY <1>2, LaneMerges DEF SumsInv
    <3>2. merged'[i] = MergeLane(i)
      BY <1>1, <1>2 DEF BookTypes
    <3> QED
      BY <2>1, <3>1, <3>2
  <2>4. MergeOf(shards)' = MergeOf(shards)
    BY <1>1, MergeReads
  <2> QED
    BY <2>2, <2>3, <2>4 DEF InstrumentOf
<1>6. Listed'
  BY <1>1 DEF SumsInv, Listed
<1> QED
  BY <1>4, <1>5, <1>6 DEF SumsInv, Merges, InstrumentOf

LEMMA SumsStep ==
  ASSUME LanesInv, SumsInv, Distinct, [Next]_vars
  PROVE  SumsInv'
<1>1. ASSUME NEW p \in Provider,
             Start(p) \/ StartPanics(p) \/ Subscribe(p) \/ ConnectPanics(p) \/ End(p)
      PROVE  SumsInv'
  <2>1. UNCHANGED <<book, job, sources, merged>>
    BY <1>1 DEF Start, StartPanics, Subscribe, ConnectPanics, End, Panic, shardVars, hubVars
  <2>2. \/ st' = st
        \/ st' = [k \in Shard |-> IF HasWriter(k) THEN "dropped" ELSE st[k]]
        \/ st' = [k \in Shard |->
                    IF k \in ShardsOf(p) /\ st[k] = "live" THEN "dropped" ELSE st[k]]
    BY <1>1 DEF Start, StartPanics, Subscribe, ConnectPanics, End, Panic, shardVars
  <2> QED
    BY <2>1, <2>2, StatesSums DEF HasWriter
<1>2. ASSUME NEW k \in Shard, BuildFails(k)
      PROVE  SumsInv'
  <2>1. \A m \in Shard : st'[m] = st[m] \/ (st'[m] = "missing" /\ st[m] = "waiting")
    BY <1>2 DEF BuildFails, LanesInv, BookTypes
  <2>2. UNCHANGED <<book, job, sources, merged>>
    BY <1>2 DEF BuildFails, hubVars
  <2> QED
    BY <2>1, <2>2, StatesSums DEF HasWriter
<1>3. ASSUME NEW k \in Shard, Collect(k)
      PROVE  SumsInv'
  <2>1. \A m \in Shard : \/ st'[m] = st[m]
                         \/ st'[m] = "live" /\ st[m] = "built"
                         \/ st'[m] = "dropped" /\ st[m] = "live"
    BY <1>3 DEF Collect
  <2>2. UNCHANGED <<book, job, sources, merged>>
    BY <1>3 DEF Collect, hubVars
  <2> QED
    BY <2>1, <2>2, StatesSums DEF HasWriter
<1>4. CASE UNCHANGED vars
  <2>1. UNCHANGED <<st, book, job, sources, merged>>
    BY <1>4 DEF vars, shardVars, hubVars
  <2> QED
    BY <2>1, StatesSums DEF HasWriter
<1> QED
  BY <1>1, <1>2, <1>3, <1>4, RegisterSums, BookSums, RefreshSums DEF Next

LEMMA InitTaskTypes == Init => TaskTypes
BY ZenonT(40) DEF Init, TaskTypes

LEMMA InitIInv == Init => IInv
BY InitLanes, InitSums, InitTaskTypes DEF IInv, TypeOK, LanesInv

LEMMA IInvStep == ASSUME Distinct, IInv, [Next]_vars PROVE IInv'
<1>1. LanesInv'
  BY Step DEF IInv
<1>2. TaskTypes'
  BY TaskStepTypes DEF IInv, TypeOK
<1>3. SumsInv'
  BY SumsStep DEF IInv
<1> QED
  BY <1>1, <1>2, <1>3 DEF IInv, TypeOK, LanesInv

(***************************************************************************)
(* The inductive invariant: who works on the thread, which books are       *)
(* empty, what the hub lists (each source once), how a lane's id lies to   *)
(* its sources, and of which shards it is the merge.                       *)
(***************************************************************************)
THEOREM Invariance == ASSUME Distinct PROVE Spec => []IInv
<1>1. IInv /\ [Next]_vars => IInv'
  BY IInvStep
<1> QED
  BY InitIInv, <1>1, PTL DEF Spec

(***************************************************************************)
(* However many sources there are and however their builds and updates     *)
(* interleave, the server finds an empty lane only while the source that   *)
(* opened it is being built.                                               *)
(***************************************************************************)
THEOREM ServedAreFilled == ASSUME Distinct PROVE Spec => []ServedIsFilled
<1>1. IInv => ServedIsFilled
  BY DEF IInv, LanesInv
<1> QED
  BY Invariance, <1>1, PTL

(***************************************************************************)
(* However many sources there are, whatever their quantities and however   *)
(* their builds, updates and losses interleave, a lane holds between two   *)
(* jobs the sum of the up-to-date books of its sources, each once, and at  *)
(* most the last books of sources that have ended since.                   *)
(***************************************************************************)
THEOREM LanesAreMerges == ASSUME Distinct PROVE Spec => []LaneIsMerge
<1>1. IInv => LaneIsMerge
  <2> SUFFICES ASSUME IInv, Idle, NEW i \in Instrument
               PROVE  \E gone \in SUBSET DroppedOn(i) :
                        merged[i] = MergeOf(ReadableOn(i) \cup gone)
    BY DEF LaneIsMerge
  <2>1. job \notin ShardsOn(i)
    BY SourceOf DEF Idle, ShardsOn
  <2>2. PICK shards \in SUBSET (ReadableOn(i) \cup DroppedOn(i)) :
               ReadableOn(i) \subseteq shards /\ merged[i] = MergeOf(shards)
    BY <2>1 DEF IInv, SumsInv, Merges
  <2>3. /\ shards \ ReadableOn(i) \in SUBSET DroppedOn(i)
        /\ ReadableOn(i) \cup (shards \ ReadableOn(i)) = shards
    BY <2>2
  <2> QED
    BY <2>2, <2>3
<1> QED
  BY Invariance, <1>1, PTL

LEMMA LaneIdKept ==
  ASSUME LanesInv, [Next]_vars, NEW l \in Instrument, DroppedOn(l) = {}
  PROVE  ~ (merged'[l].id < merged[l].id)
<1> SUFFICES ASSUME merged'[l].id < merged[l].id PROVE FALSE
  OBVIOUS
<1>0. merged' # merged
  <2>1. merged[l].id \in Nat
    BY DEF LanesInv, BookTypes
  <2> QED
    BY <2>1
<1>1. PICK k \in Shard : Refresh(k)
  BY <1>0 DEF Next, vars, Start, StartPanics, Subscribe, ConnectPanics, End, Panic, Register,
         RegisterFactory, BuildFails, Initialize, Collect, HandleUpdate, hubVars
<1> DEFINE i == InstrumentOf(k)
           id == MergeLane(i).id
<1>2. BookTypes /\ i \in Instrument
  BY SourceOf DEF LanesInv
<1>3. merged'[l].id = IF l = i THEN id ELSE merged[l].id
  BY <1>1, <1>2 DEF Refresh, BookTypes
<1>4. /\ id \in Nat
      /\ \A m \in ShardsOn(i) : HasWriter(m) => id >= book[m].id
  BY <1>1, LaneId DEF Refresh, HasWriter
<1>5. merged[l].id \in Nat /\ l = i /\ id < merged[i].id
  BY <1>2, <1>3 DEF BookTypes
<1>6. PICK m \in ShardsOn(i) : Known(m) /\ merged[i].id <= book[m].id
  BY <1>4, <1>5 DEF LanesInv, Lanes
<1>7. m \in Shard /\ HasWriter(m) /\ book[m].id \in Nat
  BY <1>2, <1>5, <1>6, SourcesAssumption
     DEF ShardsOn, DroppedOn, Known, HasWriter, BookTypes, ShardState
<1> HIDE DEF id, i
<1> QED
  BY <1>4, <1>5, <1>6, <1>7

(***************************************************************************)
(* As long as no source of an instrument has been lost, no refresh takes   *)
(* the id of its lane back.                                                *)
(***************************************************************************)
THEOREM LaneIdsRegressOnLoss == ASSUME Distinct PROVE Spec => LaneIdRegressesOnLoss
<1> DEFINE Regress ==
             [\A i \in Instrument : merged'[i].id < merged[i].id => DroppedOn(i) # {}]_merged
<1>1. IInv /\ [Next]_vars => Regress
  BY LaneIdKept DEF IInv
<1> QED
  BY Invariance, <1>1, PTL DEF Spec, LaneIdRegressesOnLoss

-----------------------------------------------------------------------------
\* Folds over lists.  A fold takes the elements of a set of indices from the greatest
\* down; step[<<i, x>>] is what the i-th element makes of x.

Folded(g, n, base, step) ==
  \A q \in SUBSET (1 .. n) : g[q] = IF q = {} THEN base ELSE step[<<Max(q), g[q \ {Max(q)}]>>]

LEMMA MaxOfRange ==
  ASSUME NEW n \in Nat, NEW q \in SUBSET (1 .. n), q # {}
  PROVE  Max(q) \in q /\ \A x \in q : x <= Max(q)
<1>1. q \in SUBSET (0 .. n)
  OBVIOUS
<1> QED
  BY <1>1, MaxOfIds

LEMMA MaxIsLast ==
  ASSUME NEW n \in Nat, NEW q \in SUBSET (1 .. n), NEW m \in q, \A x \in q : x <= m
  PROVE  Max(q) = m
<1>0. q # {}
  OBVIOUS
<1>1. Max(q) \in q /\ \A x \in q : x <= Max(q)
  BY <1>0, MaxOfRange, Zenon
<1>2. \A x \in q : x \in Nat
  OBVIOUS
<1>3. Max(q) \in Nat /\ m \in Nat /\ m <= Max(q) /\ Max(q) <= m
  BY <1>1, <1>2
<1> QED
  BY <1>3

LEMMA FoldExists ==
  ASSUME NEW V, NEW base \in V, NEW step \in [Nat \X V -> V]
  PROVE  \A n \in Nat : \E g \in [SUBSET (1 .. n) -> V] : Folded(g, n, base, step)
<1> DEFINE T == {n \in Nat : \E g \in [SUBSET (1 .. n) -> V] : Folded(g, n, base, step)}
<1>1. 0 \in T
  <2> DEFINE g == [q \in SUBSET (1 .. 0) |-> base]
  <2>1. \A q \in SUBSET (1 .. 0) : q = {}
    OBVIOUS
  <2>2. Folded(g, 0, base, step) /\ g \in [SUBSET (1 .. 0) -> V]
    BY <2>1 DEF Folded
  <2> HIDE DEF g
  <2> QED
    BY <2>2
<1>2. ASSUME NEW n \in Nat, n \in T PROVE n + 1 \in T
  <2>1. PICK g \in [SUBSET (1 .. n) -> V] : Folded(g, n, base, step)
    BY <1>2
  <2> DEFINE h == [q \in SUBSET (1 .. (n + 1)) |->
                     IF n + 1 \in q THEN step[<<n + 1, g[q \ {n + 1}]>>] ELSE g[q]]
  <2>2. \A q \in SUBSET (1 .. (n + 1)) : q \ {n + 1} \in SUBSET (1 .. n)
    OBVIOUS
  <2>3. \A q \in SUBSET (1 .. (n + 1)) : n + 1 \notin q => q \in SUBSET (1 .. n)
    OBVIOUS
  <2>4. h \in [SUBSET (1 .. (n + 1)) -> V]
    <3>1. ASSUME NEW q \in SUBSET (1 .. (n + 1)), n + 1 \in q
          PROVE  step[<<n + 1, g[q \ {n + 1}]>>] \in V
      <4>1. <<n + 1, g[q \ {n + 1}]>> \in Nat \X V
        BY <2>2
      <4> QED
        BY <4>1
    <3> QED
      BY <2>3, <3>1
  <2>5. ASSUME NEW q \in SUBSET (1 .. (n + 1))
        PROVE  h[q] = IF q = {} THEN base ELSE step[<<Max(q), h[q \ {Max(q)}]>>]
    <3>1. CASE n + 1 \in q
      <4>1. Max(q) = n + 1
        <5>1. n + 1 \in Nat /\ \A x \in q : x <= n + 1
          OBVIOUS
        <5> QED
          BY <3>1, <5>1, MaxIsLast
      <4>2. q \ {n + 1} \in SUBSET (1 .. (n + 1)) /\ n + 1 \notin q \ {n + 1}
        OBVIOUS
      <4>3. h[q \ {n + 1}] = g[q \ {n + 1}]
        BY <4>2
      <4>4. h[q] = step[<<n + 1, g[q \ {n + 1}]>>]
        BY <3>1
      <4> HIDE DEF h
      <4> QED
        BY <3>1, <4>1, <4>3, <4>4
    <3>2. CASE n + 1 \notin q
      <4>1. q \in SUBSET (1 .. n) /\ h[q] = g[q]
        BY <2>3, <3>2
      <4>2. CASE q = {}
        BY <2>1, <4>1, <4>2 DEF Folded
      <4>3. CASE q # {}
        <5>1. q \ {Max(q)} \in SUBSET (1 .. (n + 1)) /\ n + 1 \notin q \ {Max(q)}
          BY <3>2
        <5>2. h[q \ {Max(q)}] = g[q \ {Max(q)}]
          BY <5>1
        <5>3. g[q] = step[<<Max(q), g[q \ {Max(q)}]>>]
          BY <2>1, <4>1, <4>3 DEF Folded
        <5> QED
          BY <4>1, <4>3, <5>2, <5>3
      <4> QED
        BY <4>2, <4>3
    <3> QED
      BY <3>1, <3>2
  <2> HIDE DEF h
  <2>6. Folded(h, n + 1, base, step)
    BY <2>5 DEF Folded
  <2> QED
    BY <2>4, <2>6
<1> HIDE DEF T
<1>3. \A n \in Nat : n \in T
  BY <1>1, <1>2, NatSet
<1> QED
  BY <1>3 DEF T

\* The same of a c that takes the step where it has a value of type V.
FoldIn(c, n, V, base, step) ==
  /\ c[{}] = base
  /\ \A q \in SUBSET (1 .. n) :
       q # {} /\ c[q \ {Max(q)}] \in V => c[q] = step[<<Max(q), c[q \ {Max(q)}]>>]

IsLastStep(x, n, V, step) == \E y \in V : x = step[<<n, y>>]

\* A fold has the type that its steps keep, and is the step of its last element.
LEMMA FoldType ==
  ASSUME NEW V, NEW base \in V, NEW step \in [Nat \X V -> V], NEW n \in Nat,
         NEW c, FoldIn(c, n, V, base, step)
  PROVE  /\ c[1 .. n] \in V
         /\ n # 0 => IsLastStep(c[1 .. n], n, V, step)
<1>1. ASSUME NEW i \in 1 .. n, c[1 .. (i - 1)] \in V
      PROVE  c[1 .. i] = step[<<i, c[1 .. (i - 1)]>>] /\ c[1 .. i] \in V
  <2>0. i \in Nat /\ i <= n /\ 1 <= i
    OBVIOUS
  <2>1. 1 .. i \in SUBSET (1 .. n) /\ 1 .. i # {} /\ (1 .. i) \ {i} = 1 .. (i - 1)
    <3>1. ASSUME NEW j PROVE j \in (1 .. i) \ {i} <=> j \in 1 .. (i - 1)
      BY <2>0
    <3>2. (1 .. i) \ {i} = 1 .. (i - 1)
      BY <3>1
    <3>3. i \in 1 .. i /\ \A j \in 1 .. i : j \in 1 .. n
      BY <2>0
    <3> QED
      BY <3>2, <3>3
  <2>2. Max(1 .. i) = i
    <3>1. i \in 1 .. i /\ \A x \in 1 .. i : x <= i
      BY <2>0
    <3> QED
      BY <2>1, <3>1, MaxIsLast
  <2>3. c[1 .. i] = step[<<i, c[1 .. (i - 1)]>>]
    BY <1>1, <2>1, <2>2 DEF FoldIn
  <2>4. <<i, c[1 .. (i - 1)]>> \in Nat \X V
    BY <1>1, <2>0
  <2> QED
    BY <2>3, <2>4
<1> DEFINE T == {i \in Nat : i <= n => c[1 .. i] \in V}
<1>2. 0 \in T
  <2>1. 1 .. 0 = {}
    OBVIOUS
  <2> QED
    BY <2>1 DEF FoldIn
<1>3. ASSUME NEW i \in Nat, i \in T PROVE i + 1 \in T
  <2> SUFFICES ASSUME i + 1 <= n PROVE c[1 .. (i + 1)] \in V
    OBVIOUS
  <2>1. i + 1 \in 1 .. n /\ (i + 1) - 1 = i /\ i <= n
    OBVIOUS
  <2>2. c[1 .. ((i + 1) - 1)] \in V
    BY <1>3, <2>1
  <2> QED
    BY <1>1, <2>1, <2>2
<1>4. \A i \in Nat : i <= n => c[1 .. i] \in V
  <2>1. \A i \in Nat : i \in T
    <3> HIDE DEF T
    <3> QED
      BY <1>2, <1>3, NatSet
  <2> QED
    BY <2>1
<1>5. ASSUME n # 0 PROVE IsLastStep(c[1 .. n], n, V, step)
  <2>1. n \in 1 .. n /\ n - 1 \in Nat /\ n - 1 <= n
    BY <1>5
  <2> QED
    BY <1>1, <1>4, <2>1 DEF IsLastStep
<1>6. c[1 .. n] \in V
  <2>1. n <= n
    OBVIOUS
  <2> QED
    BY <1>4, <2>1
<1> QED
  BY <1>5, <1>6

-----------------------------------------------------------------------------
\* Tabs.

PlainOnes == {i \in Instrument : Plain[i] = i}
SymbolTab == [kind : {"symbol"}, of : BookSource]
Tab == [kind : {"merged", "diff"}, of : PlainOnes] \cup SymbolTab

LEMMA SourceList ==
  /\ Len(Sources) \in Nat /\ Len(Sources) # 0
  /\ DOMAIN Sources = 1 .. Len(Sources)
  /\ \A j \in 1 .. Len(Sources) :
       Sources[j] \in BookSource /\ Plain[Sources[j].instrument] \in PlainOnes
<1>1. Sources \in Seq(BookSource) /\ Sources # <<>>
  BY SourcesAssumption, TuiAssumption
<1>2. /\ Len(Sources) \in Nat /\ DOMAIN Sources = 1 .. Len(Sources)
      /\ \A j \in 1 .. Len(Sources) : Sources[j] \in BookSource
  BY <1>1
<1>3. Len(Sources) # 0
  BY <1>1
<1>4. \A b \in BookSource : Plain[b.instrument] \in PlainOnes
  BY TuiAssumption DEF BookSource, PlainOnes
<1> QED
  BY <1>2, <1>3, <1>4

LEMMA FirstSeen ==
  CanonicalFirstSeen \in Seq(PlainOnes) /\ CanonicalFirstSeen # <<>>
<1> DEFINE n == Len(Sources)
           V == Seq(PlainOnes)
           item(i) == Plain[Sources[i].instrument]
           next(x, i) == IF Contains(x, item(i)) THEN x ELSE Append(x, item(i))
           step == [y \in Nat \X V |-> IF y[1] \in 1 .. n THEN next(y[2], y[1]) ELSE y[2]]
           Is(g) == g = [q \in SUBSET (1 .. n) |->
                           IF q = {} THEN <<>>
                           ELSE IF Contains(g[q \ {Max(q)}], Plain[Sources[Max(q)].instrument])
                                THEN g[q \ {Max(q)}]
                                ELSE Append(g[q \ {Max(q)}], Plain[Sources[Max(q)].instrument])]
           c == CHOOSE g : Is(g)
<1>1. n \in Nat /\ n # 0 /\ DOMAIN Sources = 1 .. n /\ \A i \in 1 .. n : item(i) \in PlainOnes
  BY SourceList
<1>2. CanonicalFirstSeen = c[1 .. n]
  BY <1>1 DEF CanonicalFirstSeen, FoldLeft, MapThenFoldSet
<1> HIDE DEF n
<1>3. <<>> \in V /\ step \in [Nat \X V -> V]
  <2>1. ASSUME NEW x \in V, NEW i \in 1 .. n PROVE next(x, i) \in V
    <3>1. item(i) \in PlainOnes
      BY <1>1
    <3> HIDE DEF item
    <3> QED
      BY <3>1
  <2> HIDE DEF next
  <2> QED
    BY <2>1
<1>4. \A x \in V, i \in 1 .. n : step[<<i, x>>] = next(x, i)
  <2>1. \A x \in V, i \in 1 .. n : <<i, x>> \in Nat \X V
    OBVIOUS
  <2> HIDE DEF next, V
  <2> QED
    BY <2>1
<1> HIDE DEF step
<1>5. PICK g \in [SUBSET (1 .. n) -> V] : Folded(g, n, <<>>, step)
  BY <1>1, <1>3, FoldExists
<1>6. Is(g)
  <2>1. ASSUME NEW q \in SUBSET (1 .. n), q # {}
        PROVE  g[q] = next(g[q \ {Max(q)}], Max(q))
    <3>1. Max(q) \in 1 .. n /\ g[q \ {Max(q)}] \in V
      BY <1>1, <2>1, MaxOfRange
    <3>2. g[q] = step[<<Max(q), g[q \ {Max(q)}]>>]
      BY <1>5, <2>1 DEF Folded
    <3> HIDE DEF next, V
    <3> QED
      BY <1>4, <3>1, <3>2
  <2>2. g[{}] = <<>>
    BY <1>5 DEF Folded
  <2> QED
    BY <2>1, <2>2
<1>7. Is(c)
  <2> HIDE DEF Is
  <2> QED
    BY <1>6
<1> HIDE DEF c
<1>8. c[{}] = <<>> /\ \A q \in SUBSET (1 .. n) : q # {} => c[q] = next(c[q \ {Max(q)}], Max(q))
  BY <1>7
<1> HIDE DEF Is
<1>9. FoldIn(c, n, V, <<>>, step)
  <2>1. \A q \in SUBSET (1 .. n) : q # {} => Max(q) \in 1 .. n
    BY <1>1, MaxOfRange
  <2> HIDE DEF next, V
  <2> QED
    BY <1>4, <1>8, <2>1 DEF FoldIn
<1>10. c[1 .. n] \in V /\ IsLastStep(c[1 .. n], n, V, step)
  <2> HIDE DEF V
  <2> QED
    BY <1>1, <1>3, <1>9, FoldType
<1>11. PICK x \in V : c[1 .. n] = next(x, n)
  <2>1. n \in 1 .. n
    BY <1>1
  <2> HIDE DEF next, V
  <2> QED
    BY <1>4, <1>10, <2>1 DEF IsLastStep
<1>12. next(x, n) # <<>>
  <2>1. CASE Contains(x, item(n))
    BY <2>1 DEF Contains
  <2>2. CASE ~ Contains(x, item(n))
    <3> HIDE DEF item
    <3> QED
      BY <2>2
  <2> QED
    BY <2>1, <2>2
<1> QED
  BY <1>2, <1>10, <1>11, <1>12

LEMMA SymbolTabsType ==
  ASSUME NEW i \in Instrument
  PROVE  SymbolTabs(i) \in Seq(SymbolTab)
<1> DEFINE n == Len(Sources)
           V == Seq(SymbolTab)
           item(j) == [kind |-> "symbol", of |-> Sources[j]]
           next(x, j) == IF Plain[Sources[j].instrument] # i THEN x ELSE Append(x, item(j))
           step == [y \in Nat \X V |-> IF y[1] \in 1 .. n THEN next(y[2], y[1]) ELSE y[2]]
           Is(g) == g = [q \in SUBSET (1 .. n) |->
                           IF q = {} THEN <<>>
                           ELSE IF Plain[Sources[Max(q)].instrument] # i
                                THEN g[q \ {Max(q)}]
                                ELSE Append(g[q \ {Max(q)}],
                                            [kind |-> "symbol", of |-> Sources[Max(q)]])]
           c == CHOOSE g : Is(g)
<1>1. n \in Nat /\ n # 0 /\ DOMAIN Sources = 1 .. n /\ \A j \in 1 .. n : item(j) \in SymbolTab
  BY SourceList DEF SymbolTab
<1>2. SymbolTabs(i) = c[1 .. n]
  BY <1>1 DEF SymbolTabs, FoldLeft, MapThenFoldSet
<1> HIDE DEF n
<1>3. <<>> \in V /\ step \in [Nat \X V -> V]
  <2>1. ASSUME NEW x \in V, NEW j \in 1 .. n PROVE next(x, j) \in V
    <3>1. item(j) \in SymbolTab
      BY <1>1
    <3> HIDE DEF item
    <3> QED
      BY <3>1
  <2> HIDE DEF next
  <2> QED
    BY <2>1
<1>4. \A x \in V, j \in 1 .. n : step[<<j, x>>] = next(x, j)
  <2>1. \A x \in V, j \in 1 .. n : <<j, x>> \in Nat \X V
    OBVIOUS
  <2> HIDE DEF next, V
  <2> QED
    BY <2>1
<1> HIDE DEF step
<1>5. PICK g \in [SUBSET (1 .. n) -> V] : Folded(g, n, <<>>, step)
  BY <1>1, <1>3, FoldExists
<1>6. Is(g)
  <2>1. ASSUME NEW q \in SUBSET (1 .. n), q # {}
        PROVE  g[q] = next(g[q \ {Max(q)}], Max(q))
    <3>1. Max(q) \in 1 .. n /\ g[q \ {Max(q)}] \in V
      BY <1>1, <2>1, MaxOfRange
    <3>2. g[q] = step[<<Max(q), g[q \ {Max(q)}]>>]
      BY <1>5, <2>1 DEF Folded
    <3> HIDE DEF next, V
    <3> QED
      BY <1>4, <3>1, <3>2
  <2>2. g[{}] = <<>>
    BY <1>5 DEF Folded
  <2> QED
    BY <2>1, <2>2
<1>7. Is(c)
  <2> HIDE DEF Is
  <2> QED
    BY <1>6
<1> HIDE DEF c
<1>8. c[{}] = <<>> /\ \A q \in SUBSET (1 .. n) : q # {} => c[q] = next(c[q \ {Max(q)}], Max(q))
  BY <1>7
<1> HIDE DEF Is
<1>9. FoldIn(c, n, V, <<>>, step)
  <2>1. \A q \in SUBSET (1 .. n) : q # {} => Max(q) \in 1 .. n
    BY <1>1, MaxOfRange
  <2> HIDE DEF next, V
  <2> QED
    BY <1>4, <1>8, <2>1 DEF FoldIn
<1>10. c[1 .. n] \in V
  <2> HIDE DEF V
  <2> QED
    BY <1>1, <1>3, <1>9, FoldType
<1> QED
  BY <1>2, <1>10

LEMMA TabsType == TabStrip \in Seq(Tab) /\ TabStrip # <<>>
<1> DEFINE s == CanonicalFirstSeen
           n == Len(s)
           V == Seq(Tab)
           next(x, j) == Append(Append(x, [kind |-> "merged", of |-> s[j]]) \o SymbolTabs(s[j]),
                                [kind |-> "diff", of |-> s[j]])
           step == [y \in Nat \X V |-> IF y[1] \in 1 .. n THEN next(y[2], y[1]) ELSE y[2]]
           Is(g) == g = [q \in SUBSET (1 .. n) |->
                           IF q = {} THEN <<>>
                           ELSE Append(Append(g[q \ {Max(q)}], [kind |-> "merged", of |-> s[Max(q)]])
                                         \o SymbolTabs(s[Max(q)]),
                                       [kind |-> "diff", of |-> s[Max(q)]])]
           c == CHOOSE g : Is(g)
<1>1. s \in Seq(PlainOnes) /\ s # <<>>
  BY FirstSeen
<1> HIDE DEF s
<1>2. n \in Nat /\ n # 0 /\ DOMAIN s = 1 .. n /\ \A j \in 1 .. n : s[j] \in PlainOnes
  BY <1>1
<1>3. TabStrip = c[1 .. n]
  BY <1>2 DEF TabStrip, FoldLeft, MapThenFoldSet, s
<1> HIDE DEF n
<1>4. ASSUME NEW x \in V, NEW j \in 1 .. n PROVE next(x, j) \in V /\ next(x, j) # <<>>
  <2> DEFINE m == [kind |-> "merged", of |-> s[j]]
             d == [kind |-> "diff", of |-> s[j]]
             y == Append(x, m)
             z == y \o SymbolTabs(s[j])
  <2>1. m \in Tab /\ d \in Tab
    BY <1>2 DEF Tab
  <2>2. SymbolTabs(s[j]) \in Seq(Tab)
    <3>1. SymbolTabs(s[j]) \in Seq(SymbolTab)
      BY <1>2, SymbolTabsType DEF PlainOnes
    <3>2. SymbolTab \subseteq Tab
      BY DEF Tab
    <3> QED
      BY <3>1, <3>2
  <2> HIDE DEF m, d
  <2>3. y \in Seq(Tab)
    BY <2>1
  <2> HIDE DEF y
  <2>4. z \in Seq(Tab)
    BY <2>2, <2>3
  <2> HIDE DEF z
  <2>5. Append(z, d) \in Seq(Tab) /\ Append(z, d) # <<>>
    BY <2>1, <2>4
  <2> QED
    BY <2>5 DEF m, d, y, z
<1> HIDE DEF next
<1>5. <<>> \in V /\ step \in [Nat \X V -> V]
  BY <1>4
<1>6. \A x \in V, j \in 1 .. n : step[<<j, x>>] = next(x, j)
  <2>1. \A x \in V, j \in 1 .. n : <<j, x>> \in Nat \X V
    OBVIOUS
  <2> HIDE DEF V
  <2> QED
    BY <2>1
<1> HIDE DEF step
<1>7. PICK g \in [SUBSET (1 .. n) -> V] : Folded(g, n, <<>>, step)
  BY <1>2, <1>5, FoldExists
<1>8. Is(g)
  <2>1. ASSUME NEW q \in SUBSET (1 .. n), q # {}
        PROVE  g[q] = next(g[q \ {Max(q)}], Max(q))
    <3>1. Max(q) \in 1 .. n /\ g[q \ {Max(q)}] \in V
      BY <1>2, <2>1, MaxOfRange
    <3>2. g[q] = step[<<Max(q), g[q \ {Max(q)}]>>]
      BY <1>7, <2>1 DEF Folded
    <3> HIDE DEF V
    <3> QED
      BY <1>6, <3>1, <3>2
  <2>2. g[{}] = <<>>
    BY <1>7 DEF Folded
  <2> QED
    BY <2>1, <2>2 DEF next
<1>9. Is(c)
  <2> HIDE DEF Is
  <2> QED
    BY <1>8
<1> HIDE DEF c
<1>10. c[{}] = <<>> /\ \A q \in SUBSET (1 .. n) : q # {} => c[q] = next(c[q \ {Max(q)}], Max(q))
  BY <1>9 DEF next
<1> HIDE DEF Is
<1>11. FoldIn(c, n, V, <<>>, step)
  <2>1. \A q \in SUBSET (1 .. n) : q # {} => Max(q) \in 1 .. n
    BY <1>2, MaxOfRange
  <2> HIDE DEF V
  <2> QED
    BY <1>6, <1>10, <2>1 DEF FoldIn
<1>12. c[1 .. n] \in V /\ IsLastStep(c[1 .. n], n, V, step)
  <2> HIDE DEF V
  <2> QED
    BY <1>2, <1>5, <1>11, FoldType
<1>13. c[1 .. n] # <<>>
  <2>1. n \in 1 .. n
    BY <1>2
  <2> HIDE DEF V
  <2> QED
    BY <1>4, <1>6, <1>12, <2>1 DEF IsLastStep
<1> QED
  BY <1>3, <1>12, <1>13

-----------------------------------------------------------------------------
\* Empty charts.

LEMMA NoPrices == Prices(NoRows) = <<>>
<1>1. DOMAIN NoRows = {} /\ Cardinality({}) = 0
  BY FS_EmptySet DEF NoRows
<1>2. [1 .. 0 -> {}] = {<<>>}
  <2>1. 1 .. 0 = {}
    OBVIOUS
  <2>2. <<>> \in [1 .. 0 -> {}]
    BY <2>1
  <2>3. \A f, g \in [1 .. 0 -> {}] : f = g
    BY <2>1
  <2> QED
    BY <2>2, <2>3
<1>3. \A ps \in {<<>>} : \A j, k \in DOMAIN ps : j < k => ps[j] < ps[k]
  OBVIOUS
<1>4. Prices(NoRows) \in {<<>>}
  BY <1>1, <1>2, <1>3 DEF Prices
<1> QED
  BY <1>4

LEMMA NothingToDraw ==
  ASSUME NEW n \in Nat
  PROVE  /\ BidDeltaLineTopN(NoRows, n) = <<>> /\ AskDeltaLineTopN(NoRows, n) = <<>>
         /\ BidCumulativeTopN(NoRows, n) = <<>> /\ AskCumulativeTopN(NoRows, n) = <<>>
<1>1. \A m \in Int : SubSeq(<<>>, 1, m) = <<>> \/ m > 0
  OBVIOUS
<1>2. HighestN(NoRows, n) = <<>> /\ LowestN(NoRows, n) = <<>>
  BY NoPrices DEF HighestN, LowestN
<1>3. Positive(NoRows) = NoRows
  BY DEF Positive, NoRows
<1>4. DOMAIN <<>> = {}
  OBVIOUS
<1> QED
  BY <1>2, <1>3, <1>4
     DEF BidDeltaLineTopN, AskDeltaLineTopN, BidCumulativeTopN, AskCumulativeTopN

-----------------------------------------------------------------------------
\* The viewer.

\* A source id names a shard of that source, which has registered.
Filed ==
  \A s \in BookSource :
    factories[s] # nobody => Sources[factories[s]] = s /\ Known(factories[s])

\* A book or a lane without an id has no level.
Empties ==
  /\ \A i \in Instrument : merged[i].id = 0 => \A p \in Price : merged[i].lv[p] = 0
  /\ \A k \in Shard : book[k].id = 0 => \A p \in Price : book[k].lv[p] = 0

\* What a reader finds: the id of a shard's book, the id of a lane.
ShardShows(k) == IF k # nobody /\ HasWriter(k) THEN book[k].id ELSE 0
LaneShows(i) == IF HasLane(i) THEN merged[i].id ELSE 0

Overlay(c) == CHOOSE s \in RpiLegs(c) : TRUE

\* The id of the frame that is drawn at once from these factories.
Shows(f) ==
  CASE View.kind = "merged" -> LaneShows(View.of)
    [] View.kind = "symbol" -> ShardShows(f[View.of])
    [] View.kind = "diff" ->
         IF HasPair(f, View.of)
         THEN ShardShows(f[StdLeg(View.of)]) + ShardShows(f[Overlay(View.of)]) ELSE 0

TuiTypes ==
  /\ tab \in DOMAIN TabStrip
  /\ phase \in {"look", "read", "read rpi", "poll", "closed"}
  /\ bySym \in [BookSource -> Shard \cup {nobody}]
  /\ shown.id \in Nat
  /\ std.id \in Nat /\ (std.id = 0 => std.bids = NoRows /\ std.asks = NoRows)

\* The factories of the frame name the shards that the hub names.
Taken == \A s \in BookSource : bySym[s] # nobody => bySym[s] = factories[s]

\* Between the two legs of a difference.
Halfway ==
  phase = "read rpi" =>
    /\ View.kind = "diff" /\ HasPair(bySym, View.of)
    /\ ~ LostLeg => std.id <= ShardShows(bySym[StdLeg(View.of)])

\* The last frame is not newer than what the next one can find, from the factories it
\* has taken or will take, and from the leg it has read.
Behind ==
  shown.header # "none" /\ ~ LostLeg =>
    /\ phase \in {"look", "poll"} => shown.id <= Shows(factories)
    /\ phase = "read" => shown.id <= Shows(bySym)
    /\ phase = "read rpi" => shown.id <= std.id + ShardShows(bySym[Overlay(View.of)])

FrameInv == Filed /\ Empties /\ TuiTypes /\ Taken /\ Halfway /\ Behind

\* The inductive invariant of the hub and its viewer.
ViewInv == IInv /\ FrameInv

LEMMA ViewIs ==
  ASSUME TuiTypes
  PROVE  /\ View.kind \in {"merged", "symbol", "diff"}
         /\ View.kind \in {"merged", "diff"} => View.of \in PlainOnes
         /\ View.kind = "symbol" => View.of \in BookSource
<1>1. TabStrip \in Seq(Tab) /\ tab \in DOMAIN TabStrip
  BY TabsType DEF TuiTypes
<1>2. View \in Tab
  BY <1>1 DEF View
<1> QED
  BY <1>2 DEF Tab, SymbolTab

LEMMA LegsAre ==
  ASSUME NEW c \in PlainOnes
  PROVE  /\ StdLeg(c) \in BookSource /\ StdLeg(c).instrument = c /\ Plain[c] = c
         /\ \A s \in RpiLegs(c) : s \in BookSource /\ Plain[s.instrument] = c /\ s = Overlay(c)
<1>1. c \in Instrument /\ Plain[c] = c /\ Usdm \in Provider
  BY TuiAssumption DEF PlainOnes
<1>2. ASSUME NEW s \in RpiLegs(c)
      PROVE  s \in BookSource /\ Plain[s.instrument] = c /\ s.instrument # c /\ s.provider = Usdm
  BY <1>1, <1>2 DEF RpiLegs, BookSource
<1>3. ASSUME NEW s \in RpiLegs(c), NEW r \in RpiLegs(c) PROVE s = r
  <2>1. s.instrument \in Instrument /\ r.instrument \in Instrument
    BY <1>2 DEF BookSource
  <2>2. s.instrument = r.instrument
    BY <1>2, <2>1, TuiAssumption
  <2> QED
    BY <1>2, <2>2 DEF BookSource
<1>4. ASSUME NEW s \in RpiLegs(c) PROVE s = Overlay(c)
  <2>1. Overlay(c) \in RpiLegs(c)
    BY <1>4 DEF Overlay
  <2> QED
    BY <1>3, <2>1
<1> QED
  BY <1>1, <1>2, <1>4 DEF StdLeg, BookSource

\* A pair is the two legs.
LEMMA PairIs ==
  ASSUME NEW c \in PlainOnes, NEW f, HasPair(f, c)
  PROVE  /\ f[StdLeg(c)] # nobody /\ f[Overlay(c)] # nobody
         /\ Overlay(c) \in RpiLegs(c) /\ Overlay(c) \in BookSource /\ Plain[Overlay(c).instrument] = c
BY LegsAre DEF HasPair

-----------------------------------------------------------------------------
\* The hub under the viewer.

\* What a step of the hub may do: ids grow, and sources stay where they are unless
\* they are lost.
Grown ==
  /\ \A k \in Shard : book[k].id <= book'[k].id
  /\ \A k \in Shard : HasWriter(k) => HasWriter(k)' \/ st'[k] = "dropped"
  /\ \A k \in Shard : st[k] = "dropped" => st'[k] = "dropped"
  /\ \A k \in Shard : Known(k) => Known(k)'
  /\ \A s \in BookSource : factories[s] # nobody => factories'[s] = factories[s]
  /\ \A i \in Instrument : HasLane(i) => HasLane(i)'
  /\ \A i \in Instrument : merged[i].id <= merged'[i].id \/ DroppedOn(i) # {}

LEMMA BooksGrow ==
  ASSUME LanesInv, LanesInv', [Next]_vars
  PROVE  \A k \in Shard : /\ book[k].id <= book'[k].id
                          /\ book'[k] # book[k] => book'[k].id > 0
<1>1. /\ \A k \in Shard : book[k] \in Book /\ book[k].id \in 0 .. MaxId /\ book'[k].id \in 0 .. MaxId
      /\ MaxId \in Nat
  BY SourcesAssumption DEF LanesInv, BookTypes
<1>2. ASSUME NEW k \in Shard, Initialize(k)
      PROVE  book[k].id = 0 /\ \A j \in Shard : j # k => book'[j] = book[j]
  <2>1. book[k].id = 0
    BY <1>2 DEF Initialize, LanesInv, Books
  <2>2. \E b : book' = [book EXCEPT ![k] = b]
    BY <1>2 DEF Initialize
  <2> QED
    BY <2>1, <2>2 DEF LanesInv, BookTypes
<1>3. ASSUME NEW k \in Shard, Initialize(k) PROVE book'[k].id > 0
  BY <1>3 DEF Initialize, LanesInv, Books, BookTypes
<1>4. ASSUME NEW k \in Shard, HandleUpdate(k)
      PROVE  /\ book'[k].id >= book[k].id /\ book[k].id > 0
             /\ \A j \in Shard : j # k => book'[j] = book[j]
  <2>1. book[k].id > 0
    BY <1>4 DEF HandleUpdate, LanesInv, Books
  <2>2. PICK u \in Diffs : book' = [book EXCEPT ![k] = Absorb(@, u)]
    BY <1>4 DEF HandleUpdate
  <2>3. Absorb(book[k], u).id >= book[k].id
    BY <1>1, Diff
  <2> QED
    BY <2>1, <2>2, <2>3 DEF LanesInv, BookTypes
<1>5. (\E k \in Shard : Initialize(k) \/ HandleUpdate(k)) \/ UNCHANGED book
  BY DEF Next, vars, shardVars, Start, StartPanics, Subscribe, ConnectPanics, End, Panic, Register,
         BuildFails, Collect, Refresh
<1>6. ASSUME NEW k \in Shard, Initialize(k)
      PROVE  \A j \in Shard : book[j].id <= book'[j].id /\ (book'[j] # book[j] => book'[j].id > 0)
  <2>1. book[k].id = 0 /\ book'[k].id > 0 /\ \A j \in Shard : j # k => book'[j] = book[j]
    BY <1>2, <1>3, <1>6
  <2> QED
    BY <1>1, <2>1
<1>7. ASSUME NEW k \in Shard, HandleUpdate(k)
      PROVE  \A j \in Shard : book[j].id <= book'[j].id /\ (book'[j] # book[j] => book'[j].id > 0)
  BY <1>1, <1>4, <1>7
<1> QED
  BY <1>1, <1>5, <1>6, <1>7

LEMMA StatesGrow ==
  ASSUME LanesInv, [Next]_vars, NEW k \in Shard
  PROVE  /\ HasWriter(k) => HasWriter(k)' \/ st'[k] = "dropped"
         /\ st[k] = "dropped" => st'[k] = "dropped"
         /\ Known(k) => Known(k)'
<1>1. st \in [Shard -> ShardState]
  BY DEF LanesInv, BookTypes
<1>2. CASE \E p \in Provider : StartPanics(p) \/ ConnectPanics(p) \/ End(p)
  BY <1>1, <1>2 DEF StartPanics, ConnectPanics, Panic, End, HasWriter, Known
<1>3. CASE \E m \in Shard : Register(m) \/ BuildFails(m) \/ Initialize(m)
  BY <1>1, <1>3 DEF Register, BuildFails, Initialize, HasWriter, Known
<1>4. CASE \E m \in Shard : Collect(m) \/ Refresh(m)
  BY <1>1, <1>4 DEF Collect, Refresh, HasWriter, Known
<1>5. CASE UNCHANGED st
  BY <1>5 DEF HasWriter, Known
<1>6. (\E p \in Provider : StartPanics(p) \/ ConnectPanics(p) \/ End(p))
      \/ (\E m \in Shard : Register(m) \/ BuildFails(m) \/ Initialize(m))
      \/ (\E m \in Shard : Collect(m) \/ Refresh(m)) \/ UNCHANGED st
  BY DEF Next, vars, shardVars, Start, Subscribe, HandleUpdate
<1> QED
  BY <1>2, <1>3, <1>4, <1>5, <1>6

LEMMA HubGrows ==
  ASSUME Distinct, LanesInv, LanesInv', Filed, [Next]_vars
  PROVE  Grown /\ Filed'
<1>1. BookTypes /\ BookTypes'
  BY DEF LanesInv
<1>2. (\E k \in Shard : Register(k)) \/ (factories' = factories /\ sources' = sources)
  BY DEF Next, vars, hubVars, Start, StartPanics, Subscribe, ConnectPanics, End, Panic,
         BuildFails, Initialize, Collect, Refresh, HandleUpdate
<1>3. ASSUME NEW k \in Shard, Register(k)
      PROVE  /\ factories' = [factories EXCEPT ![Sources[k]] = k]
             /\ st[k] = "waiting" /\ Known(k)' /\ Sources[k] \in BookSource
             /\ \A i \in Instrument : HasLane(i) => HasLane(i)'
  <2>1. /\ factories' = [factories EXCEPT ![Sources[k]] = k] /\ st[k] = "waiting"
        /\ st' = [st EXCEPT ![k] = "registered"]
        /\ sources' = [sources EXCEPT ![InstrumentOf(k)] = Append(@, Sources[k])]
    BY <1>3 DEF Register, RegisterFactory
  <2>2. Known(k)'
    BY <1>1, <2>1 DEF Known, BookTypes
  <2>3. ASSUME NEW i \in Instrument, sources[i] # <<>> PROVE sources'[i] # <<>>
    <3>1. sources[i] \in Seq(BookSource)
      BY <1>1 DEF BookTypes
    <3>2. Append(sources[i], Sources[k]) # <<>>
      BY <3>1
    <3> QED
      BY <1>1, <2>1, <2>3, <3>2 DEF BookTypes
  <2> QED
    BY <2>1, <2>2, <2>3, SourceOf DEF HasLane
<1>4. ASSUME NEW s \in BookSource, factories[s] # nobody PROVE factories'[s] = factories[s]
  <2>1. factories[s] \in Shard /\ Sources[factories[s]] = s /\ Known(factories[s])
    BY <1>1, <1>4 DEF Filed, BookTypes
  <2>2. ASSUME NEW k \in Shard, Register(k) PROVE Sources[k] # s
    <3>1. st[k] = "waiting"
      BY <1>3, <2>2
    <3>2. k # factories[s]
      BY <2>1, <3>1 DEF Known
    <3> QED
      BY <2>1, <3>2 DEF Distinct
  <2> QED
    BY <1>1, <1>2, <1>3, <2>2 DEF BookTypes
<1>5. Filed'
  <2>1. ASSUME NEW s \in BookSource, factories'[s] # nobody
        PROVE  Sources[factories'[s]] = s /\ Known(factories[s])'
    <3>1. CASE factories[s] # nobody
      <4>1. factories[s] \in Shard /\ Sources[factories[s]] = s /\ Known(factories[s])
        BY <1>1, <3>1 DEF Filed, BookTypes
      <4>2. Known(factories[s])' /\ factories'[s] = factories[s]
        BY <1>4, <3>1, <4>1, StatesGrow DEF Known
      <4> QED
        BY <4>1, <4>2 DEF Known
    <3>2. CASE factories[s] = nobody
      <4>1. PICK k \in Shard : Register(k)
        BY <1>2, <2>1, <3>2
      <4>2. factories'[s] = k /\ Sources[k] = s
        BY <1>1, <1>3, <2>1, <3>2, <4>1 DEF BookTypes
      <4> QED
        BY <1>3, <4>1, <4>2 DEF Known
    <3> QED
      BY <3>1, <3>2
  <2> QED
    BY <2>1 DEF Filed, Known
<1>6. \A i \in Instrument : HasLane(i) => HasLane(i)'
  BY <1>2, <1>3 DEF HasLane
<1>7. \A i \in Instrument : merged[i].id <= merged'[i].id \/ DroppedOn(i) # {}
  <2>1. \A i \in Instrument : merged[i].id \in Nat /\ merged'[i].id \in Nat
    BY <1>1 DEF BookTypes
  <2> QED
    BY <2>1, LaneIdKept
<1> QED
  BY <1>4, <1>5, <1>6, <1>7, BooksGrow, StatesGrow DEF Grown

LEMMA EmptiesKept ==
  ASSUME LanesInv, LanesInv', Empties, [Next]_vars
  PROVE  Empties'
<1>1. ASSUME NEW k \in Shard, book'[k].id = 0 PROVE \A p \in Price : book'[k].lv[p] = 0
  <2>1. book'[k] = book[k]
    BY <1>1, BooksGrow
  <2> QED
    BY <1>1, <2>1 DEF Empties
<1>2. ASSUME NEW i \in Instrument, merged'[i].id = 0 PROVE \A p \in Price : merged'[i].lv[p] = 0
  <2>1. CASE merged'[i] = merged[i]
    BY <1>2, <2>1 DEF Empties
  <2>2. CASE merged'[i] # merged[i]
    <3>1. PICK k \in Shard : Refresh(k)
      BY <2>2 DEF Next, vars, Start, StartPanics, Subscribe, ConnectPanics, End, Panic, Register,
             RegisterFactory, BuildFails, Initialize, Collect, HandleUpdate, hubVars
    <3>2. HasWriter(k) /\ book[k].id > 0 /\ k \in ShardsOn(InstrumentOf(k))
      BY <3>1 DEF Refresh, HasWriter, LanesInv, Books, ShardsOn
    <3>3. MergeLane(InstrumentOf(k)).id \in Nat /\ MergeLane(InstrumentOf(k)).id >= book[k].id
      BY <3>2, LaneId
    <3>4. merged'[i] = MergeLane(InstrumentOf(k))
      BY <2>2, <3>1 DEF Refresh, LanesInv, BookTypes
    <3>5. book[k].id \in Nat
      BY SourcesAssumption DEF LanesInv, BookTypes
    <3> QED
      BY <1>2, <3>2, <3>3, <3>4, <3>5
  <2> QED
    BY <2>1, <2>2
<1> QED
  BY <1>1, <1>2 DEF Empties

-----------------------------------------------------------------------------
\* Under a frame.

LEMMA ShardShowsType ==
  ASSUME BookTypes, NEW x \in Shard \cup {nobody}
  PROVE  ShardShows(x) \in Nat
<1>1. x # nobody => book[x].id \in Nat
  BY SourcesAssumption DEF BookTypes
<1> QED
  BY <1>1 DEF ShardShows

LEMMA ShardGrows ==
  ASSUME BookTypes, BookTypes', Grown, NEW x \in Shard \cup {nobody}, NEW y \in Shard \cup {nobody},
         x # nobody => y = x /\ st'[x] # "dropped"
  PROVE  ShardShows(x) <= ShardShows(y)'
<1>1. /\ x # nobody => book[x].id \in Nat /\ book'[x].id \in Nat
      /\ y # nobody => book'[y].id \in Nat
  BY SourcesAssumption DEF BookTypes
<1>2. x # nobody /\ HasWriter(x) => HasWriter(x)' /\ book[x].id <= book'[x].id
  BY DEF Grown
<1> QED
  BY <1>1, <1>2 DEF ShardShows, HasWriter

\* No shard of this source has been lost, so its readers do not lose what they see.
LEMMA LegGrows ==
  ASSUME BookTypes, BookTypes', Grown, Filed, Taken, TuiTypes, UNCHANGED tuiVars,
         NEW s \in BookSource, \A k \in Shard : Sources[k] = s => st'[k] # "dropped"
  PROVE  /\ ShardShows(factories[s]) <= ShardShows(factories[s])'
         /\ ShardShows(bySym[s]) <= ShardShows(bySym[s])'
<1>1. /\ factories[s] \in Shard \cup {nobody} /\ factories'[s] \in Shard \cup {nobody}
      /\ bySym[s] \in Shard \cup {nobody} /\ bySym'[s] = bySym[s]
  BY DEF BookTypes, TuiTypes, tuiVars
<1>2. factories[s] # nobody => factories'[s] = factories[s] /\ st'[factories[s]] # "dropped"
  BY <1>1 DEF Filed, Grown
<1>3. bySym[s] # nobody => st'[bySym[s]] # "dropped"
  BY <1>1, <1>2 DEF Taken
<1>4. ShardShows(factories[s]) <= ShardShows(factories[s])'
  BY <1>1, <1>2, ShardGrows DEF ShardShows, HasWriter
<1>5. ShardShows(bySym[s]) <= ShardShows(bySym[s])'
  BY <1>1, <1>3, ShardGrows DEF ShardShows, HasWriter
<1> QED
  BY <1>4, <1>5

LEMMA LostStays ==
  ASSUME Grown, UNCHANGED tuiVars, ~ LostLeg'
  PROVE  ~ LostLeg
BY DEF Grown, LostLeg, tuiVars, View, InstrumentOf

LEMMA LegsKept ==
  ASSUME TuiTypes, UNCHANGED tuiVars, ~ LostLeg'
  PROVE  /\ View.kind = "symbol" =>
              \A k \in Shard : Sources[k] = View.of => st'[k] # "dropped"
         /\ View.kind = "diff" =>
              \A k \in Shard : Sources[k] = StdLeg(View.of) => st'[k] # "dropped"
         /\ View.kind = "diff" =>
              \A s \in RpiLegs(View.of), k \in Shard : Sources[k] = s => st'[k] # "dropped"
         /\ View.kind = "merged" =>
              \A k \in Shard : InstrumentOf(k) = View.of => st'[k] # "dropped"
<1>1. View' = View
  BY DEF View, tuiVars
<1>2. \A k \in Shard :
        /\ View.kind = "symbol" /\ Sources[k] = View.of => st'[k] # "dropped"
        /\ View.kind # "symbol" /\ Plain[Sources[k].instrument] = View.of => st'[k] # "dropped"
  BY <1>1 DEF LostLeg, InstrumentOf
<1>3. View.kind \in {"merged", "diff"} => View.of \in PlainOnes
  BY ViewIs
<1> QED
  BY <1>2, <1>3, LegsAre DEF PlainOnes, InstrumentOf

\* What a frame would show grows under it.
LEMMA ShowsGrows ==
  ASSUME BookTypes, BookTypes', Grown, Filed, Taken, TuiTypes, UNCHANGED tuiVars, ~ LostLeg'
  PROVE  /\ Shows(factories) \in Nat /\ Shows(factories)' \in Nat
         /\ Shows(bySym) \in Nat /\ Shows(bySym)' \in Nat
         /\ Shows(factories) <= Shows(factories)' /\ Shows(bySym) <= Shows(bySym)'
<1> PICK c : c = View.of
  OBVIOUS
<1>1. View' = View /\ bySym' = bySym
  BY DEF View, tuiVars
<1>2. ASSUME NEW s \in BookSource
      PROVE  /\ ShardShows(factories[s]) \in Nat /\ ShardShows(factories[s])' \in Nat
             /\ ShardShows(bySym[s]) \in Nat /\ ShardShows(bySym[s])' \in Nat
  <2>1. /\ factories[s] \in Shard \cup {nobody} /\ factories'[s] \in Shard \cup {nobody}
        /\ bySym[s] \in Shard \cup {nobody}
    BY DEF BookTypes, TuiTypes
  <2>2. \A x \in Shard \cup {nobody} : ShardShows(x)' \in Nat
    BY SourcesAssumption DEF ShardShows, BookTypes
  <2> QED
    BY <1>1, <2>1, <2>2, ShardShowsType DEF ShardShows, HasWriter
<1>3. CASE View.kind = "merged"
  <2>1. c \in Instrument
    BY <1>3, ViewIs DEF PlainOnes
  <2>2. DroppedOn(c) = {}
    <3>1. \A k \in Shard : InstrumentOf(k) = c => st'[k] # "dropped"
      BY <1>3, LegsKept
    <3> QED
      BY <3>1 DEF Grown, DroppedOn, ShardsOn
  <2>3. merged[c].id \in Nat /\ merged'[c].id \in Nat /\ merged[c].id <= merged'[c].id
        /\ (HasLane(c) => HasLane(c)')
    BY <2>1, <2>2 DEF BookTypes, Grown
  <2>4. LaneShows(c) \in Nat /\ LaneShows(c)' \in Nat /\ LaneShows(c) <= LaneShows(c)'
    BY <1>1, <2>3 DEF LaneShows, HasLane
  <2>5. /\ Shows(factories) = LaneShows(c) /\ Shows(bySym) = LaneShows(c)
        /\ Shows(factories)' = LaneShows(c)' /\ Shows(bySym)' = LaneShows(c)'
    BY <1>1, <1>3 DEF Shows
  <2> QED
    BY <2>4, <2>5
<1>4. CASE View.kind = "symbol"
  <2>1. c \in BookSource
    BY <1>4, ViewIs
  <2>2. /\ Shows(factories) = ShardShows(factories[c]) /\ Shows(bySym) = ShardShows(bySym[c])
        /\ Shows(factories)' = ShardShows(factories[c])' /\ Shows(bySym)' = ShardShows(bySym[c])'
    BY <1>1, <1>4 DEF Shows
  <2>3. \A k \in Shard : Sources[k] = c => st'[k] # "dropped"
    BY <1>4, LegsKept
  <2> QED
    BY <1>1, <1>2, <2>1, <2>2, <2>3, LegGrows DEF ShardShows, HasWriter
<1>5. CASE View.kind = "diff"
  <2> DEFINE a == StdLeg(c)
             o == Overlay(c)
  <2>1. c \in PlainOnes /\ a \in BookSource
    BY <1>5, ViewIs, LegsAre
  <2>2. /\ Shows(factories) = IF HasPair(factories, c)
                              THEN ShardShows(factories[a]) + ShardShows(factories[o]) ELSE 0
        /\ Shows(bySym) = IF HasPair(bySym, c)
                          THEN ShardShows(bySym[a]) + ShardShows(bySym[o]) ELSE 0
    BY <1>5 DEF Shows
  <2>3. /\ Shows(factories)' = IF HasPair(factories, c)'
                               THEN ShardShows(factories[a])' + ShardShows(factories[o])' ELSE 0
        /\ Shows(bySym)' = IF HasPair(bySym, c)'
                           THEN ShardShows(bySym[a])' + ShardShows(bySym[o])' ELSE 0
    BY <1>1, <1>5 DEF Shows
  <2> HIDE DEF a, o
  <2>4. CASE RpiLegs(c) = {}
    <3>1. /\ ~ HasPair(factories, c) /\ ~ HasPair(bySym, c)
          /\ ~ HasPair(factories, c)' /\ ~ HasPair(bySym, c)'
      BY <1>1, <2>4 DEF HasPair
    <3> QED
      BY <2>2, <2>3, <3>1
  <2>5. CASE RpiLegs(c) # {}
    <3>1. o \in RpiLegs(c) /\ o \in BookSource
      BY <2>1, <2>5, LegsAre DEF o
    <3>2. /\ HasPair(factories, c) => HasPair(factories, c)'
          /\ HasPair(bySym, c)' <=> HasPair(bySym, c)
      <4>1. /\ HasPair(factories, c) <=> factories[a] # nobody /\ factories[o] # nobody
            /\ HasPair(factories, c)' <=> factories'[a] # nobody /\ factories'[o] # nobody
            /\ HasPair(bySym, c) <=> bySym[a] # nobody /\ bySym[o] # nobody
            /\ HasPair(bySym, c)' <=> bySym[a] # nobody /\ bySym[o] # nobody
        BY <1>1, <2>1, <3>1, LegsAre DEF HasPair, a, o
      <4> QED
        BY <2>1, <3>1, <4>1 DEF Grown
    <3>3. /\ ShardShows(factories[a]) <= ShardShows(factories[a])'
          /\ ShardShows(bySym[a]) <= ShardShows(bySym[a])'
      <4>1. \A k \in Shard : Sources[k] = a => st'[k] # "dropped"
        BY <1>5, LegsKept DEF a
      <4> QED
        BY <2>1, <4>1, LegGrows DEF ShardShows, HasWriter
    <3>4. /\ ShardShows(factories[o]) <= ShardShows(factories[o])'
          /\ ShardShows(bySym[o]) <= ShardShows(bySym[o])'
      <4>1. \A k \in Shard : Sources[k] = o => st'[k] # "dropped"
        BY <1>5, <3>1, LegsKept
      <4> QED
        BY <3>1, <4>1, LegGrows DEF ShardShows, HasWriter
    <3>5. /\ ShardShows(factories[a]) \in Nat /\ ShardShows(factories[a])' \in Nat
          /\ ShardShows(bySym[a]) \in Nat /\ ShardShows(bySym[a])' \in Nat
      BY <1>2, <2>1 DEF ShardShows, HasWriter
    <3>6. /\ ShardShows(factories[o]) \in Nat /\ ShardShows(factories[o])' \in Nat
          /\ ShardShows(bySym[o]) \in Nat /\ ShardShows(bySym[o])' \in Nat
      BY <1>2, <3>1 DEF ShardShows, HasWriter
    <3> QED
      BY <2>2, <2>3, <3>2, <3>3, <3>4, <3>5, <3>6
  <2> QED
    BY <2>4, <2>5
<1> QED
  BY <1>3, <1>4, <1>5, ViewIs

\* The hub's steps keep what the viewer relies on.
LEMMA HubStep ==
  ASSUME Distinct, LanesInv, LanesInv', FrameInv, [Next]_vars, UNCHANGED tuiVars
  PROVE  FrameInv'
<1> PICK c : c = View.of
  OBVIOUS
<1>1. BookTypes /\ BookTypes' /\ Grown /\ Filed /\ Filed' /\ Empties' /\ Taken /\ TuiTypes
  BY HubGrows, EmptiesKept DEF FrameInv, LanesInv
<1>2. View' = View /\ bySym' = bySym /\ std' = std /\ shown' = shown /\ phase' = phase
  BY DEF View, tuiVars
<1>3. TuiTypes'
  BY <1>1, <1>2 DEF TuiTypes, tuiVars
<1>4. Taken'
  BY <1>1, <1>2 DEF Taken, Grown
\* The two legs of a difference under way.
<1>5. ASSUME phase = "read rpi", ~ LostLeg'
      PROVE  /\ std.id <= ShardShows(bySym[StdLeg(c)])'
             /\ ShardShows(bySym[Overlay(c)]) <= ShardShows(bySym[Overlay(c)])'
             /\ ShardShows(bySym[Overlay(c)]) \in Nat /\ ShardShows(bySym[Overlay(c)])' \in Nat
             /\ std.id \in Nat
  <2>1. View.kind = "diff" /\ HasPair(bySym, c)
    BY <1>5 DEF FrameInv, Halfway
  <2>2. c \in PlainOnes
    BY <1>1, <2>1, ViewIs
  <2>3. Overlay(c) \in RpiLegs(c) /\ Overlay(c) \in BookSource /\ StdLeg(c) \in BookSource
    BY <2>1, <2>2, PairIs, LegsAre
  <2>4. /\ \A k \in Shard : Sources[k] = StdLeg(c) => st'[k] # "dropped"
        /\ \A k \in Shard : Sources[k] = Overlay(c) => st'[k] # "dropped"
    BY <1>1, <1>5, <2>1, <2>3, LegsKept
  <2> PICK a : a = StdLeg(c)
    OBVIOUS
  <2> PICK o : o = Overlay(c)
    OBVIOUS
  <2>5. /\ ShardShows(bySym[a]) <= ShardShows(bySym[a])'
        /\ ShardShows(bySym[o]) <= ShardShows(bySym[o])'
    BY <1>1, <2>3, <2>4, LegGrows
  <2>6. /\ ShardShows(bySym[a]) \in Nat /\ ShardShows(bySym[a])' \in Nat
        /\ ShardShows(bySym[o]) \in Nat /\ ShardShows(bySym[o])' \in Nat
    <3>1. bySym[a] \in Shard \cup {nobody} /\ bySym[o] \in Shard \cup {nobody}
      BY <1>1, <2>3 DEF TuiTypes
    <3>2. \A x \in Shard \cup {nobody} : ShardShows(x)' \in Nat
      BY <1>1, SourcesAssumption DEF ShardShows, BookTypes
    <3> QED
      BY <1>1, <1>2, <3>1, <3>2, ShardShowsType DEF ShardShows, HasWriter
  <2>7. ~ LostLeg
    BY <1>1, <1>5, LostStays
  <2>8. std.id <= ShardShows(bySym[a])
    BY <1>5, <2>7 DEF FrameInv, Halfway
  <2>9. std.id \in Nat
    BY <1>1 DEF TuiTypes
  <2> QED
    BY <2>5, <2>6, <2>8, <2>9
<1>6. Halfway'
  <2>1. phase = "read rpi" => View.kind = "diff" /\ HasPair(bySym, c)
    BY DEF FrameInv, Halfway
  <2> QED
    BY <1>2, <1>5, <2>1 DEF Halfway, HasPair, ShardShows, HasWriter
<1>7. Behind'
  <2> SUFFICES ASSUME shown.header # "none", ~ LostLeg'
               PROVE  /\ phase \in {"look", "poll"} => shown.id <= Shows(factories)'
                      /\ phase = "read" => shown.id <= Shows(bySym)'
                      /\ phase = "read rpi" =>
                           shown.id <= std.id + ShardShows(bySym[Overlay(c)])'
    BY <1>2 DEF Behind, ShardShows, HasWriter, Shows, LaneShows, HasLane, HasPair
  <2>1. ~ LostLeg
    BY <1>1, LostStays
  <2>2. /\ phase \in {"look", "poll"} => shown.id <= Shows(factories)
        /\ phase = "read" => shown.id <= Shows(bySym)
        /\ phase = "read rpi" => shown.id <= std.id + ShardShows(bySym[Overlay(c)])
    BY <2>1 DEF FrameInv, Behind
  <2>3. shown.id \in Nat
    BY <1>1 DEF TuiTypes
  <2>4. /\ Shows(factories) \in Nat /\ Shows(factories)' \in Nat
        /\ Shows(bySym) \in Nat /\ Shows(bySym)' \in Nat
        /\ Shows(factories) <= Shows(factories)' /\ Shows(bySym) <= Shows(bySym)'
    BY <1>1, ShowsGrows
  <2>5. ASSUME phase = "read rpi"
        PROVE  shown.id <= std.id + ShardShows(bySym[Overlay(c)])'
    <3> PICK o : o = Overlay(c)
      OBVIOUS
    <3>1. shown.id <= std.id + ShardShows(bySym[o])
      BY <2>2, <2>5
    <3>2. /\ ShardShows(bySym[o]) <= ShardShows(bySym[o])'
          /\ ShardShows(bySym[o]) \in Nat /\ ShardShows(bySym[o])' \in Nat
          /\ std.id \in Nat
      BY <1>5, <2>5
    <3> QED
      BY <2>3, <3>1, <3>2
  <2>6. ASSUME phase \in {"look", "poll"} PROVE shown.id <= Shows(factories)'
    <3>1. shown.id <= Shows(factories)
      BY <2>2, <2>6
    <3>2. /\ Shows(factories) \in Nat /\ Shows(factories)' \in Nat
          /\ Shows(factories) <= Shows(factories)'
      BY <2>4
    <3> QED
      BY <2>3, <3>1, <3>2
  <2>7. phase = "read" => shown.id <= Shows(bySym)'
    BY <2>2, <2>3, <2>4
  <2> QED
    BY <2>5, <2>6, <2>7
<1> QED
  BY <1>1, <1>3, <1>4, <1>6, <1>7 DEF FrameInv

-----------------------------------------------------------------------------
\* What the viewer reads.

\* A snapshot, which has no row without an id.
Snap(x) == x.id \in Nat /\ (x.id = 0 => x.bids = NoRows /\ x.asks = NoRows)

LEMMA NothingIs == Snap(Nothing) /\ Nothing.id = 0
BY DEF Snap, Nothing

LEMMA DisplayedIs ==
  ASSUME NEW b, b.id \in Nat, b.id = 0 => \A p \in Price : b.lv[p] = 0
  PROVE  Snap(Displayed(b)) /\ Displayed(b).id = b.id
<1>1. Bids \subseteq Price
  BY TuiAssumption
<1>2. Displayed(b).id = b.id
  BY DEF Displayed
<1>3. ASSUME b.id = 0 PROVE Displayed(b).bids = NoRows /\ Displayed(b).asks = NoRows
  <2>1. {r \in Bids : b.lv[r] # 0} = {} /\ {r \in Price \ Bids : b.lv[r] # 0} = {}
    BY <1>1, <1>3
  <2> QED
    BY <2>1 DEF Displayed, NoRows
<1> QED
  BY <1>2, <1>3 DEF Snap

LEMMA LaneSnapshotIs ==
  ASSUME BookTypes, Empties, NEW i \in Instrument
  PROVE  Snap(LaneSnapshot(i)) /\ LaneSnapshot(i).id = LaneShows(i)
<1>1. merged[i].id \in Nat /\ (merged[i].id = 0 => \A p \in Price : merged[i].lv[p] = 0)
  BY DEF BookTypes, Empties
<1> QED
  BY <1>1, DisplayedIs, NothingIs DEF LaneSnapshot, LaneShows

LEMMA SymbolSnapshotIs ==
  ASSUME BookTypes, Empties, TuiTypes, NEW s \in BookSource
  PROVE  Snap(SymbolSnapshot(s)) /\ SymbolSnapshot(s).id = ShardShows(bySym[s])
<1>1. ASSUME bySym[s] # nobody
      PROVE  /\ book[bySym[s]].id \in Nat
             /\ book[bySym[s]].id = 0 => \A p \in Price : book[bySym[s]].lv[p] = 0
  <2>1. bySym[s] \in Shard
    BY <1>1 DEF TuiTypes
  <2> QED
    BY <2>1, SourcesAssumption DEF BookTypes, Empties
<1> QED
  BY <1>1, DisplayedIs, NothingIs DEF SymbolSnapshot, ShardShows

LEMMA DifferenceIs ==
  ASSUME NEW a, NEW b, Snap(a), Snap(b)
  PROVE  Snap(StdMinusRpi(a, b)) /\ StdMinusRpi(a, b).id = a.id + b.id
<1>1. StdMinusRpi(a, b).id = a.id + b.id
  BY DEF StdMinusRpi, IdOfLegs
<1>2. DiffQtyLevels(NoRows, NoRows) = NoRows
  BY DEF DiffQtyLevels, NoRows
<1>3. a.id + b.id = 0 => a.id = 0 /\ b.id = 0
  BY DEF Snap
<1> QED
  BY <1>1, <1>2, <1>3 DEF Snap, StdMinusRpi

-----------------------------------------------------------------------------
\* The viewer's steps.

\* What a step says about its frame, if it draws one.
Forward ==
  phase' = "poll" =>
    /\ shown.header # "none" /\ ~ LostLeg => shown'.id >= shown.id
    /\ shown'.id = 0 => shown'.points = [bids |-> <<>>, asks |-> <<>>]

\* A step of the viewer leaves the hub alone.
LEMMA HubSame ==
  ASSUME UNCHANGED vars, UNCHANGED tab, FrameInv
  PROVE  /\ View' = View
         /\ LostLeg' <=> LostLeg
         /\ Shows(factories)' = Shows(factories)
         /\ Filed' /\ Empties'
<1>1. View' = View
  BY DEF View
<1>2. /\ UNCHANGED <<st, book, factories, sources, merged>>
  BY DEF vars, shardVars, hubVars
<1>3. Shows(factories)' = Shows(factories)
  BY <1>1, <1>2 DEF Shows, LaneShows, ShardShows, HasWriter, HasLane, HasPair
<1>4. LostLeg' <=> LostLeg
  BY <1>1, <1>2 DEF LostLeg
<1> QED
  BY <1>1, <1>2, <1>3, <1>4 DEF FrameInv, Filed, Empties, Known

LEMMA Drawn ==
  ASSUME FrameInv, NEW snap, Snap(snap), Draw(snap),
         ~ LostLeg => snap.id <= Shows(factories) /\ (shown.header # "none" => shown.id <= snap.id)
  PROVE  FrameInv' /\ Forward
<1>1. /\ View' = View /\ (LostLeg' <=> LostLeg) /\ Shows(factories)' = Shows(factories)
      /\ Filed' /\ Empties'
  BY HubSame DEF Draw
<1>2. shown'.id = snap.id /\ snap.id \in Nat
  BY DEF Draw, FrameOf, Snap
<1>3. TuiTypes'
  <2>1. bySym' \in [BookSource -> Shard \cup {nobody}]
    BY DEF Draw, NoFactories
  <2>2. std'.id \in Nat /\ (std'.id = 0 => std'.bids = NoRows /\ std'.asks = NoRows)
    BY DEF Draw, Nothing
  <2>3. phase' = "poll" /\ tab' = tab /\ tab \in DOMAIN TabStrip
    BY DEF Draw, FrameInv, TuiTypes
  <2> QED
    BY <1>2, <2>1, <2>2, <2>3 DEF TuiTypes
<1>4. Taken' /\ Halfway'
  BY DEF Draw, Taken, Halfway, NoFactories
<1>5. Behind'
  <2>1. phase' = "poll" /\ (~ LostLeg => snap.id <= Shows(factories))
    BY DEF Draw
  <2> QED
    BY <1>1, <1>2, <2>1 DEF Behind
<1>6. snap.id = 0 => shown'.points = [bids |-> <<>>, asks |-> <<>>]
  BY NothingToDraw, TuiAssumption DEF Snap, Draw, FrameOf, Points
<1>7. shown.header # "none" /\ ~ LostLeg => shown'.id >= shown.id
  <2>1. shown.id \in Nat
    BY DEF FrameInv, TuiTypes
  <2> QED
    BY <1>2, <2>1
<1> QED
  BY <1>1, <1>2, <1>3, <1>4, <1>5, <1>6, <1>7 DEF FrameInv, Forward

\* Reading at once, from the factories of the frame.
LEMMA ReadsWhatShows ==
  ASSUME BookTypes, FrameInv, phase = "read", NEW snap, Snap(snap), Draw(snap),
         snap.id = Shows(bySym), Shows(bySym) <= Shows(factories)
  PROVE  FrameInv' /\ Forward
<1>1. ~ LostLeg => snap.id <= Shows(factories) /\ (shown.header # "none" => shown.id <= snap.id)
  BY DEF FrameInv, Behind
<1> QED
  BY <1>1, Drawn

LEMMA ReadLaneStep ==
  ASSUME BookTypes, FrameInv, ReadLane
  PROVE  FrameInv' /\ Forward
<1> PICK i : i = View.of
  OBVIOUS
<1>1. View.kind = "merged" /\ i \in Instrument /\ Draw(LaneSnapshot(i)) /\ phase = "read"
  BY ViewIs DEF ReadLane, FrameInv, PlainOnes
<1>2. Snap(LaneSnapshot(i)) /\ LaneSnapshot(i).id = LaneShows(i)
  BY <1>1, LaneSnapshotIs DEF FrameInv
<1>3. Shows(bySym) = LaneShows(i) /\ Shows(factories) = LaneShows(i)
  BY <1>1 DEF Shows
<1>4. LaneShows(i) \in Nat
  BY <1>2 DEF Snap
<1> QED
  BY <1>1, <1>2, <1>3, <1>4, ReadsWhatShows

LEMMA ReadSymbolStep ==
  ASSUME BookTypes, FrameInv, ReadSymbol
  PROVE  FrameInv' /\ Forward
<1> PICK s : s = View.of
  OBVIOUS
<1>1. View.kind = "symbol" /\ s \in BookSource /\ Draw(SymbolSnapshot(s)) /\ phase = "read"
  BY ViewIs DEF ReadSymbol, FrameInv
<1>2. Snap(SymbolSnapshot(s)) /\ SymbolSnapshot(s).id = ShardShows(bySym[s])
  BY <1>1, SymbolSnapshotIs DEF FrameInv
<1>3. Shows(bySym) = ShardShows(bySym[s]) /\ Shows(factories) = ShardShows(factories[s])
  BY <1>1 DEF Shows
<1>4. ShardShows(factories[s]) \in Nat /\ ShardShows(bySym[s]) \in Nat
  <2>1. factories[s] \in Shard \cup {nobody}
    BY <1>1 DEF BookTypes
  <2> QED
    BY <1>2, <2>1, ShardShowsType DEF Snap
<1>5. ShardShows(bySym[s]) <= ShardShows(factories[s])
  <2>1. CASE bySym[s] = nobody
    BY <1>4, <2>1 DEF ShardShows
  <2>2. CASE bySym[s] # nobody
    BY <1>1, <1>4, <2>2 DEF FrameInv, Taken
  <2> QED
    BY <2>1, <2>2
<1> QED
  BY <1>1, <1>2, <1>3, <1>5, ReadsWhatShows

LEMMA ReadNoPairStep ==
  ASSUME BookTypes, FrameInv, ReadNoPair
  PROVE  FrameInv' /\ Forward
<1>1. View.kind = "diff" /\ ~ HasPair(bySym, View.of) /\ Draw(Nothing) /\ phase = "read"
  BY DEF ReadNoPair
<1>2. Shows(bySym) = 0
  BY <1>1 DEF Shows
<1>3. Shows(factories) \in Nat
  <2>1. View.of \in PlainOnes
    BY <1>1, ViewIs DEF FrameInv
  <2>2. \A s \in BookSource : ShardShows(factories[s]) \in Nat
    BY ShardShowsType DEF BookTypes
  <2>3. HasPair(factories, View.of) =>
          StdLeg(View.of) \in BookSource /\ Overlay(View.of) \in BookSource
    BY <2>1, LegsAre, PairIs
  <2> QED
    BY <1>1, <2>2, <2>3 DEF Shows
<1> QED
  BY <1>1, <1>2, <1>3, NothingIs, ReadsWhatShows

LEMMA LookStep ==
  ASSUME BookTypes, FrameInv, Look
  PROVE  FrameInv' /\ Forward
<1>1. /\ View' = View /\ (LostLeg' <=> LostLeg) /\ Shows(factories)' = Shows(factories)
      /\ Filed' /\ Empties'
  BY HubSame DEF Look
<1>2. /\ phase = "look" /\ phase' = "read" /\ bySym' = factories /\ factories' = factories
      /\ shown' = shown /\ std' = std /\ tab' = tab
  BY DEF Look, vars, hubVars
<1>3. TuiTypes'
  BY <1>2 DEF FrameInv, TuiTypes, BookTypes
<1>4. Taken' /\ Halfway'
  BY <1>2 DEF Taken, Halfway
<1>5. Shows(bySym)' = Shows(factories)'
  BY <1>2 DEF Shows, HasPair, ShardShows
<1>6. Behind'
  BY <1>1, <1>2, <1>5 DEF FrameInv, Behind
<1> QED
  BY <1>1, <1>2, <1>3, <1>4, <1>6 DEF FrameInv, Forward

\* The first leg of a difference: what it shows stays below what the leg shows later.
LEMMA ReadStdStep ==
  ASSUME BookTypes, FrameInv, ReadStd
  PROVE  FrameInv' /\ Forward
<1> PICK c : c = View.of
  OBVIOUS
<1> DEFINE a == StdLeg(c)
           o == Overlay(c)
<1>1. /\ View.kind = "diff" /\ HasPair(bySym, c)
      /\ phase = "read" /\ phase' = "read rpi" /\ std' = SymbolSnapshot(a)
      /\ bySym' = bySym /\ shown' = shown /\ tab' = tab /\ UNCHANGED vars
  BY DEF ReadStd
<1>2. /\ View' = View /\ (LostLeg' <=> LostLeg) /\ Filed' /\ Empties'
      /\ st' = st /\ book' = book /\ factories' = factories
  BY <1>1, HubSame DEF vars, shardVars, hubVars
<1>3. c \in PlainOnes /\ a \in BookSource
  BY <1>1, ViewIs, LegsAre DEF FrameInv
<1>4. Snap(SymbolSnapshot(a)) /\ SymbolSnapshot(a).id = ShardShows(bySym[a])
  BY <1>3, SymbolSnapshotIs DEF FrameInv
<1>5. Shows(bySym) = ShardShows(bySym[a]) + ShardShows(bySym[o])
  BY <1>1 DEF Shows
<1> HIDE DEF a, o
<1>6. TuiTypes'
  BY <1>1, <1>2, <1>4 DEF FrameInv, TuiTypes, Snap
<1>7. Taken'
  BY <1>1, <1>2 DEF FrameInv, Taken
<1>9. std'.id = ShardShows(bySym[a]) /\ std'.id \in Nat
  BY <1>1, <1>4 DEF Snap
<1>10. Halfway'
  <2>1. View'.kind = "diff" /\ HasPair(bySym, c)'
    BY <1>1, <1>2 DEF HasPair
  <2>2. std'.id <= ShardShows(bySym[a])'
    <3>1. ShardShows(bySym[a])' = ShardShows(bySym[a])
      BY <1>1, <1>2 DEF ShardShows, HasWriter
    <3> QED
      BY <1>9, <3>1
  <2> QED
    BY <1>1, <1>2, <2>1, <2>2 DEF Halfway, a
<1>11. Behind'
  <2>1. shown.header # "none" /\ ~ LostLeg => shown.id <= ShardShows(bySym[a]) + ShardShows(bySym[o])
    BY <1>1, <1>5 DEF FrameInv, Behind
  <2>2. ShardShows(bySym[o])' = ShardShows(bySym[o])
    BY <1>1, <1>2 DEF ShardShows, HasWriter
  <2>3. shown.header # "none" /\ ~ LostLeg => shown.id <= std'.id + ShardShows(bySym[o])'
    BY <1>9, <2>1, <2>2
  <2> QED
    BY <1>1, <1>2, <2>3 DEF Behind, o
<1> QED
  BY <1>1, <1>2, <1>6, <1>7, <1>10, <1>11 DEF FrameInv, Forward

\* The second leg.
LEMMA ReadRpiStep ==
  ASSUME BookTypes, FrameInv, ReadRpi
  PROVE  FrameInv' /\ Forward
<1> PICK c : c = View.of
  OBVIOUS
<1> PICK a : a = StdLeg(c)
  OBVIOUS
<1> PICK o : o = Overlay(c)
  OBVIOUS
<1>1. phase = "read rpi" /\ View.kind = "diff" /\ HasPair(bySym, c)
  BY DEF ReadRpi, FrameInv, Halfway
<1>2. c \in PlainOnes
  BY <1>1, ViewIs DEF FrameInv
<1>3. /\ a \in BookSource /\ bySym[a] # nobody
      /\ o \in BookSource /\ o \in RpiLegs(c) /\ bySym[o] # nobody
  BY <1>1, <1>2, LegsAre, PairIs
<1> PICK snap : snap = StdMinusRpi(std, SymbolSnapshot(o))
  OBVIOUS
<1>4. Draw(snap)
  <2>1. PICK s \in RpiLegs(c) : Draw(StdMinusRpi(std, SymbolSnapshot(s)))
    BY DEF ReadRpi
  <2>2. s = o
    BY <1>2, LegsAre
  <2> QED
    BY <2>1, <2>2
<1>5. Snap(snap) /\ snap.id = std.id + ShardShows(bySym[o])
  <2>1. Snap(SymbolSnapshot(o)) /\ SymbolSnapshot(o).id = ShardShows(bySym[o])
    BY <1>3, SymbolSnapshotIs DEF FrameInv
  <2>2. Snap(std)
    BY DEF FrameInv, TuiTypes, Snap
  <2> QED
    BY <2>1, <2>2, DifferenceIs
<1>6. ASSUME ~ LostLeg PROVE snap.id <= Shows(factories)
  <2>1. factories[a] = bySym[a] /\ factories[o] = bySym[o]
    BY <1>3 DEF FrameInv, Taken
  <2>2. HasPair(factories, c)
    BY <1>3, <2>1 DEF HasPair
  <2>3. Shows(factories) = ShardShows(bySym[a]) + ShardShows(bySym[o])
    BY <1>1, <2>1, <2>2 DEF Shows
  <2>4. std.id <= ShardShows(bySym[a]) /\ std.id \in Nat
    BY <1>1, <1>6 DEF FrameInv, Halfway, TuiTypes
  <2>5. ShardShows(bySym[a]) \in Nat /\ ShardShows(bySym[o]) \in Nat
    BY <1>3, ShardShowsType DEF FrameInv, TuiTypes
  <2> QED
    BY <1>5, <2>3, <2>4, <2>5
<1>7. ~ LostLeg /\ shown.header # "none" => shown.id <= snap.id
  BY <1>1, <1>5 DEF FrameInv, Behind
<1> QED
  BY <1>4, <1>5, <1>6, <1>7, Drawn

LEMMA NoKeyStep ==
  ASSUME FrameInv, NoKey
  PROVE  FrameInv' /\ Forward
<1>1. /\ View' = View /\ (LostLeg' <=> LostLeg) /\ Shows(factories)' = Shows(factories)
      /\ Filed' /\ Empties'
  BY HubSame DEF NoKey
<1>2. /\ phase = "poll" /\ phase' = "look" /\ bySym' = bySym /\ factories' = factories
      /\ shown' = shown /\ std' = std /\ tab' = tab
  BY DEF NoKey, vars, hubVars
<1>3. TuiTypes' /\ Taken' /\ Halfway'
  BY <1>2 DEF FrameInv, TuiTypes, Taken, Halfway
<1>4. Behind'
  BY <1>1, <1>2 DEF FrameInv, Behind
<1> QED
  BY <1>1, <1>2, <1>3, <1>4 DEF FrameInv, Forward

\* The frames of another tab start anew.
LEMMA TurnStep ==
  ASSUME FrameInv, tab' \in DOMAIN TabStrip, phase' \in {"look", "closed"}, shown' = noFrame,
         UNCHANGED <<vars, bySym, std>>
  PROVE  FrameInv' /\ Forward
<1>1. st' = st /\ book' = book /\ factories' = factories /\ merged' = merged
  BY DEF vars, shardVars, hubVars
<1>2. Filed' /\ Empties' /\ Taken'
  BY <1>1 DEF FrameInv, Filed, Empties, Taken, Known
<1>3. TuiTypes'
  BY DEF FrameInv, TuiTypes, noFrame
<1>4. Halfway' /\ Behind'
  BY DEF Halfway, Behind, noFrame
<1> QED
  BY <1>2, <1>3, <1>4 DEF FrameInv, Forward

LEMMA KeyStep ==
  ASSUME FrameInv, KeyRight \/ KeyLeft \/ KeyQuit
  PROVE  FrameInv' /\ Forward
<1>1. tab \in 1 .. Len(TabStrip) /\ Len(TabStrip) \in Nat
  <2>1. TabStrip \in Seq(Tab) /\ tab \in DOMAIN TabStrip
    BY TabsType DEF FrameInv, TuiTypes
  <2> QED
    BY <2>1, LenProperties
<1>2. tab' \in 1 .. Len(TabStrip)
  <2>1. CASE KeyRight
    <3>1. tab' = (tab % Len(TabStrip)) + 1
      BY <2>1 DEF KeyRight, ChangeTab
    <3> PICK n \in Nat : n = Len(TabStrip)
      BY <1>1
    <3>2. n > 0 /\ tab % n \in 0 .. (n - 1)
      BY <1>1
    <3> QED
      BY <3>1, <3>2
  <2>2. CASE KeyLeft
    BY <1>1, <2>2 DEF KeyLeft, ChangeTab
  <2>3. CASE KeyQuit
    BY <1>1, <2>3 DEF KeyQuit
  <2> QED
    BY <2>1, <2>2, <2>3
<1>3. tab' \in DOMAIN TabStrip
  BY <1>2, TabsType
<1>4. phase' \in {"look", "closed"} /\ shown' = noFrame /\ UNCHANGED <<vars, bySym, std>>
  BY DEF KeyRight, KeyLeft, KeyQuit, ChangeTab
<1> QED
  BY <1>3, <1>4, TurnStep

LEMMA TuiStep ==
  ASSUME BookTypes, FrameInv, TuiNext
  PROVE  FrameInv' /\ Forward
BY LookStep, ReadLaneStep, ReadSymbolStep, ReadNoPairStep, ReadStdStep, ReadRpiStep, NoKeyStep, KeyStep
   DEF TuiNext

-----------------------------------------------------------------------------
\* The hub and its viewer.

LEMMA InitFrame == Init /\ TuiInit => FrameInv
<1> SUFFICES ASSUME Init, TuiInit PROVE FrameInv
  OBVIOUS
<1>1. Filed
  BY DEF Init, Filed
<1>2. Empties
  BY DEF Init, Empties, Default
<1>3. TuiTypes
  <2>1. TabStrip \in Seq(Tab) /\ TabStrip # <<>>
    BY TabsType
  <2>2. tab \in DOMAIN TabStrip
    BY <2>1 DEF TuiInit
  <2> QED
    BY <2>2 DEF TuiInit, TuiTypes, NoFactories, noFrame, Nothing
<1>4. Taken /\ Halfway /\ Behind
  BY DEF TuiInit, Taken, Halfway, Behind, NoFactories, noFrame
<1> QED
  BY <1>1, <1>2, <1>3, <1>4 DEF FrameInv

\* A step of either of the two threads, or of neither.
LEMMA ViewStep ==
  ASSUME Distinct, ViewInv, [BothNext]_tuiAndHubVars
  PROVE  ViewInv' /\ (Forward \/ UNCHANGED tuiVars)
<1>1. [Next]_vars
  BY DEF BothNext, tuiAndHubVars, TuiNext, Look, ReadLane, ReadSymbol, ReadNoPair, ReadStd, ReadRpi,
         Draw, NoKey, KeyRight, KeyLeft, ChangeTab, KeyQuit
<1>2. IInv' /\ LanesInv /\ LanesInv' /\ BookTypes
  BY <1>1, IInvStep DEF ViewInv, IInv, LanesInv
<1>3. CASE TuiNext
  BY <1>2, <1>3, TuiStep DEF ViewInv
<1>4. CASE UNCHANGED tuiVars
  BY <1>1, <1>2, <1>4, HubStep DEF ViewInv
<1> QED
  BY <1>3, <1>4 DEF BothNext, tuiAndHubVars

(***************************************************************************)
(* The inductive invariant of the hub and its viewer: what the last frame  *)
(* has shown is not above what the next one can find, in each phase of the *)
(* frame, from the factories and the leg that it already has.              *)
(***************************************************************************)
THEOREM ViewInvariance == ASSUME Distinct PROVE TuiSpec => []ViewInv
<1>1. BothInit => ViewInv
  BY InitIInv, InitFrame DEF BothInit, ViewInv
<1>2. ViewInv /\ [BothNext]_tuiAndHubVars => ViewInv'
  BY ViewStep
<1> QED
  BY <1>1, <1>2, PTL DEF TuiSpec

(***************************************************************************)
(* However the feeds interleave with the reads of the viewer, also between *)
(* the two legs of a difference, a frame does not show an older book than  *)
(* the frame before it unless a source of the view has been lost, and a    *)
(* frame without an id has an empty chart.                                 *)
(***************************************************************************)
THEOREM FramesDoGoForward == ASSUME Distinct PROVE TuiSpec => FramesGoForward
<1>1. ViewInv /\ [BothNext]_tuiAndHubVars => [Forward]_tuiVars
  BY ViewStep
<1> QED
  BY ViewInvariance, <1>1, PTL DEF TuiSpec, FramesGoForward, Forward

=============================================================================

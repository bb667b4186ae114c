---------------------------- MODULE SpotExec_proof ----------------------------
(***************************************************************************)
(* Proofs about SpotExec for every set of symbols, assets and orders and   *)
(* every radix and number of digits: its types; that the outbound channel  *)
(* replays into the account; and that what has been ingested is what the   *)
(* venue holds.                                                            *)
(***************************************************************************)
EXTENDS SpotExec, WellFoundedInduction, TLAPS

-----------------------------------------------------------------------------
\* Naturals.

Below == {x \in Nat \X Nat : x[1] < x[2]}

LEMMA BelowIsWellFounded == IsWellFoundedOn(Below, Nat)
<1>1. OpToRel(<, Nat) = Below
  BY DEF OpToRel, Below
<1> QED
  BY <1>1, NatLessThanWellFounded

LEMMA Least ==
  ASSUME NEW M, M \subseteq Nat, M # {}
  PROVE  \E m \in M : \A n \in M : m <= n
<1>1. PICK m \in M : \A n \in M : ~ (<<n, m>> \in Below)
  BY BelowIsWellFounded, WFMin, Zenon
<1>2. ASSUME NEW n \in M PROVE m <= n
  <2>1. m \in Nat /\ n \in Nat /\ <<n, m>> \notin Below
    BY <1>1
  <2> QED
    BY <2>1 DEF Below
<1> QED
  BY <1>2

\* Induction, with the set T of the naturals that have the property.
LEMMA NatSet ==
  ASSUME NEW T, 0 \in T, \A n \in Nat : n \in T => n + 1 \in T
  PROVE  \A n \in Nat : n \in T
<1> SUFFICES ASSUME ~ \A n \in Nat : n \in T PROVE FALSE
  OBVIOUS
<1> DEFINE bad == {n \in Nat : n \notin T}
<1>1. PICK m \in bad : \A n \in bad : m <= n
  <2>1. bad # {} /\ bad \subseteq Nat
    OBVIOUS
  <2> HIDE DEF bad
  <2> QED
    BY <2>1, Least
<1>2. m \in Nat /\ m # 0 /\ m - 1 \in Nat /\ (m - 1) + 1 = m
  BY <1>1
<1>3. m - 1 \in T
  BY <1>1, <1>2
<1> QED
  BY <1>1, <1>2, <1>3

\* f begins with c and takes n steps in V.
Iterates(f, n, V, c, step) ==
  /\ f \in [0..n -> V]
  /\ f[0] = c
  /\ \A i \in 1..n : f[i] = step[<<i, f[i - 1]>>]

LEMMA Iterated ==
  ASSUME NEW V, NEW c \in V, NEW step \in [Nat \X V -> V]
  PROVE  \A n \in Nat : \E f : Iterates(f, n, V, c, step)
<1> DEFINE Is(f, n) == f[0] = c /\ \A i \in 1..n : f[i] = step[<<i, f[i - 1]>>]
           T == {n \in Nat : \E f \in [0..n -> V] : Is(f, n)}
<1>1. 0 \in T
  <2>1. [i \in 0..0 |-> c] \in [0..0 -> V] /\ Is([i \in 0..0 |-> c], 0)
    OBVIOUS
  <2> QED
    BY <2>1
<1>2. ASSUME NEW n \in Nat, n \in T PROVE n + 1 \in T
  <2>1. PICK f \in [0..n -> V] : Is(f, n)
    BY <1>2
  <2> DEFINE g == [i \in 0..(n + 1) |-> IF i = n + 1 THEN step[<<n + 1, f[n]>>] ELSE f[i]]
  <2>2. g \in [0..(n + 1) -> V]
    <3>1. step[<<n + 1, f[n]>>] \in V
      BY <2>1
    <3> QED
      BY <2>1, <3>1
  <2>3. Is(g, n + 1)
    <3>1. g[0] = c
      BY <2>1
    <3>2. ASSUME NEW i \in 1..(n + 1) PROVE g[i] = step[<<i, g[i - 1]>>]
      <4>1. CASE i = n + 1
        <5>1. i - 1 = n /\ i - 1 \in 0..(n + 1) /\ i - 1 # n + 1
          BY <4>1
        <5>2. g[i] = step[<<n + 1, f[n]>>] /\ g[i - 1] = f[n]
          BY <4>1, <5>1
        <5> QED
          BY <4>1, <5>2
      <4>2. CASE i # n + 1
        <5>1. /\ i \in 1..n /\ i - 1 \in 0..(n + 1) /\ i - 1 # n + 1
          BY <4>2
        <5>2. g[i] = f[i] /\ g[i - 1] = f[i - 1]
          BY <5>1
        <5>3. f[i] = step[<<i, f[i - 1]>>]
          BY <2>1, <5>1
        <5> QED
          BY <5>2, <5>3
      <4> QED
        BY <4>1, <4>2
    <3> HIDE DEF g
    <3> QED
      BY <3>1, <3>2
  <2> HIDE DEF g, Is
  <2> QED
    BY <2>2, <2>3
<1>3. \A n \in Nat : n \in T
  <2> HIDE DEF T
  <2> QED
    BY <1>1, <1>2, NatSet
<1> QED
  BY <1>3 DEF Iterates

\* Two functions that begin alike and step alike.
InStep(f, g, n) == f[0] = g[0] /\ \A i \in 1..n : f[i - 1] = g[i - 1] => f[i] = g[i]

LEMMA SameSteps ==
  ASSUME NEW n \in Nat, NEW f, NEW g, InStep(f, g, n)
  PROVE  \A i \in 0..n : f[i] = g[i]
<1> DEFINE T == {i \in Nat : i \in 0..n => f[i] = g[i]}
<1>1. 0 \in T
  BY DEF InStep
<1>2. ASSUME NEW i \in Nat, i \in T PROVE i + 1 \in T
  <2>1. CASE i + 1 \in 0..n
    <3>1. i \in 0..n /\ i + 1 \in 1..n /\ (i + 1) - 1 = i
      BY <2>1
    <3>2. f[(i + 1) - 1] = g[(i + 1) - 1] => f[i + 1] = g[i + 1]
      BY <3>1 DEF InStep
    <3> QED
      BY <1>2, <3>1, <3>2
  <2> QED
    BY <2>1
<1>3. \A i \in Nat : i \in T
  <2> HIDE DEF T
  <2> QED
    BY <1>1, <1>2, NatSet
<1> QED
  BY <1>3

-----------------------------------------------------------------------------
\* The texts of amounts.

LEMMA Powers ==
  /\ Power \in [Scale -> Nat \ {0}]
  /\ Power[0] = 1
  /\ \A n \in 1..MaxScale : Power[n] = Base * Power[n - 1]
<1> DEFINE V == Nat \ {0}
           step == [x \in Nat \X V |-> Base * x[2]]
           Is(f) == f = [n \in Scale |-> IF n = 0 THEN 1 ELSE Base * f[n - 1]]
<1>1. step \in [Nat \X V -> V]
  <2>1. ASSUME NEW x \in Nat \X V PROVE Base * x[2] \in V
    <3>1. Base \in Nat \ {0} /\ x[2] \in Nat \ {0}
      BY BaseAssumption
    <3>2. \A b, y \in Nat \ {0} : b * y \in Nat \ {0}
      OBVIOUS
    <3> QED
      BY <3>1, <3>2
  <2> QED
    BY <2>1
<1>2. PICK f : Iterates(f, MaxScale, V, 1, step)
  <2>1. 1 \in V /\ MaxScale \in Nat
    BY BoundsAssumption
  <2> HIDE DEF V, step
  <2> QED
    BY <1>1, <2>1, Iterated
<1>3. f \in [Scale -> V] /\ f[0] = 1 /\ \A i \in 1..MaxScale : f[i] = Base * f[i - 1]
  <2>1. f \in [0..MaxScale -> V] /\ f[0] = 1
    BY <1>2 DEF Iterates
  <2>2. ASSUME NEW i \in 1..MaxScale PROVE f[i] = Base * f[i - 1]
    <3>1. i \in Nat /\ i - 1 \in 0..MaxScale
      BY BoundsAssumption
    <3>2. <<i, f[i - 1]>> \in Nat \X V
      BY <2>1, <3>1
    <3> QED
      BY <1>2, <3>2 DEF Iterates
  <2> QED
    BY <2>1, <2>2 DEF Scale
<1>4. Is(f)
  <2>1. \A n \in Scale : f[n] = IF n = 0 THEN 1 ELSE Base * f[n - 1]
    <3>1. \A n \in Scale : n = 0 \/ n \in 1..MaxScale
      BY BoundsAssumption DEF Scale
    <3> QED
      BY <1>3, <3>1
  <2>2. f = [n \in Scale |-> f[n]]
    BY <1>3
  <2> QED
    BY <2>1, <2>2
<1>5. Is(Power)
  <2>1. Power = CHOOSE g : Is(g)
    BY DEF Power
  <2> HIDE DEF Is
  <2> QED
    BY <1>4, <2>1
<1>6. Power[0] = 1 /\ \A n \in 1..MaxScale : Power[n] = Base * Power[n - 1]
  <2>1. 0 \in Scale /\ \A n \in 1..MaxScale : n \in Scale /\ n # 0
    BY BoundsAssumption DEF Scale
  <2> QED
    BY <1>5, <2>1
<1>7. Power = f
  <2>1. Power = [n \in 0..MaxScale |-> Power[n]]
    BY <1>5 DEF Scale
  <2>2. f = [n \in 0..MaxScale |-> f[n]]
    BY <1>3 DEF Scale
  <2>3. \A n \in 1..MaxScale : Power[n - 1] = f[n - 1] => Power[n] = f[n]
    BY <1>3, <1>6
  <2>4. Power[0] = f[0] /\ MaxScale \in Nat
    BY <1>3, <1>6, BoundsAssumption
  <2>5. InStep(Power, f, MaxScale)
    <3> HIDE DEF Is
    <3> QED
      BY <2>3, <2>4 DEF InStep
  <2>6. \A n \in 0..MaxScale : Power[n] = f[n]
    BY <2>4, <2>5, SameSteps
  <2> QED
    BY <2>1, <2>2, <2>6
<1> QED
  BY <1>3, <1>6, <1>7

LEMMA PowerOfSum ==
  ASSUME NEW m \in Nat, NEW n \in Nat, m + n \in Scale
  PROVE  Power[m + n] = Power[m] * Power[n]
<1> DEFINE T == {k \in Nat : m + k \in Scale => Power[m + k] = Power[m] * Power[k]}
<1>1. \A k \in Nat : m + k \in Scale =>
        m \in Scale /\ k \in Scale /\ Power[m] \in Nat /\ Power[k] \in Nat
  BY Powers, BoundsAssumption DEF Scale
<1>2. 0 \in T
  BY <1>1, Powers
<1>3. ASSUME NEW k \in Nat, k \in T PROVE k + 1 \in T
  <2>1. CASE m + (k + 1) \in Scale
    <3>1. /\ m + k \in Scale /\ k + 1 \in 1..MaxScale /\ (k + 1) - 1 = k
          /\ m + (k + 1) \in 1..MaxScale /\ (m + (k + 1)) - 1 = m + k
      BY <2>1, BoundsAssumption DEF Scale
    <3>2. Power[m + (k + 1)] = Base * Power[m + k] /\ Power[k + 1] = Base * Power[k]
      BY <3>1, Powers
    <3>3. Power[m + k] = Power[m] * Power[k]
      BY <1>3, <3>1
    <3>4. Base \in Nat /\ Power[m] \in Nat /\ Power[k] \in Nat
      BY <1>1, <3>1, BaseAssumption
    <3>5. \A b, x, y \in Nat : b * (x * y) = x * (b * y)
      OBVIOUS
    <3> QED
      BY <3>2, <3>3, <3>4, <3>5
  <2> QED
    BY <2>1
<1>4. n \in T
  <2> HIDE DEF T
  <2> QED
    BY <1>2, <1>3, NatSet
<1> QED
  BY <1>4

LEMMA MaxOfTwo ==
  ASSUME NEW x \in Nat, NEW y \in Nat
  PROVE  Max({x, y}) = IF x >= y THEN x ELSE y
<1>1. \E z \in {x, y} : \A w \in {x, y} : z >= w
  OBVIOUS
<1>2. Max({x, y}) \in {x, y} /\ \A w \in {x, y} : Max({x, y}) >= w
  BY <1>1 DEF Max
<1> QED
  BY <1>2

LEMMA ValueType ==
  ASSUME NEW text \in Decimal
  PROVE  Value(text) \in Int
<1>1. text.units \in Int /\ MaxScale - text.scale \in Scale
  BY BoundsAssumption DEF Decimal, Scale
<1>2. Power[MaxScale - text.scale] \in Nat
  BY <1>1, Powers
<1> QED
  BY <1>1, <1>2 DEF Value, ToScaled

\* add_decimal_strings adds the amounts that the texts stand for.
LEMMA SumOfTexts ==
  ASSUME NEW l \in Decimal, NEW r \in Decimal
  PROVE  /\ AddDecimals(l, r) \in Decimal
         /\ Value(AddDecimals(l, r)) = Value(l) + Value(r)
<1> DEFINE s == Max({l.scale, r.scale})
<1>1. /\ l.units \in Int /\ r.units \in Int /\ l.scale \in Scale /\ r.scale \in Scale
      /\ l.scale \in Nat /\ r.scale \in Nat
  BY BoundsAssumption DEF Decimal, Scale
<1>2. s \in Scale /\ s >= l.scale /\ s >= r.scale
  BY <1>1, MaxOfTwo
<1> HIDE DEF s
<1>3. /\ s - l.scale \in Nat /\ s - r.scale \in Nat /\ MaxScale - s \in Nat
      /\ s - l.scale \in Scale /\ s - r.scale \in Scale /\ MaxScale - s \in Scale
      /\ (s - l.scale) + (MaxScale - s) = MaxScale - l.scale
      /\ (s - r.scale) + (MaxScale - s) = MaxScale - r.scale
      /\ MaxScale - l.scale \in Scale /\ MaxScale - r.scale \in Scale
  BY <1>1, <1>2, BoundsAssumption DEF Scale
<1>4. /\ Power[MaxScale - l.scale] = Power[s - l.scale] * Power[MaxScale - s]
      /\ Power[MaxScale - r.scale] = Power[s - r.scale] * Power[MaxScale - s]
  BY <1>3, PowerOfSum
<1>5. /\ Power[s - l.scale] \in Nat /\ Power[s - r.scale] \in Nat /\ Power[MaxScale - s] \in Nat
  BY <1>3, Powers
<1>6. AddDecimals(l, r) =
        [units |-> l.units * Power[s - l.scale] + r.units * Power[s - r.scale], scale |-> s]
  BY DEF AddDecimals, ToScaled, s
<1>7. l.units * Power[s - l.scale] + r.units * Power[s - r.scale] \in Int
  BY <1>1, <1>5
<1>8. AddDecimals(l, r) \in Decimal
  BY <1>2, <1>6, <1>7 DEF Decimal
<1>9. Value(AddDecimals(l, r)) =
        (l.units * Power[s - l.scale] + r.units * Power[s - r.scale]) * Power[MaxScale - s]
  BY <1>6 DEF Value, ToScaled
<1>10. Value(l) = l.units * (Power[s - l.scale] * Power[MaxScale - s])
       /\ Value(r) = r.units * (Power[s - r.scale] * Power[MaxScale - s])
  BY <1>4 DEF Value, ToScaled
<1>11. \A u, v \in Int : \A x, y, z \in Nat :
         (u * x + v * y) * z = u * (x * z) + v * (y * z)
  OBVIOUS
<1> QED
  BY <1>1, <1>5, <1>8, <1>9, <1>10, <1>11

\* A text of an amount stands for that amount.
LEMMA TextOfAmount ==
  ASSUME NEW amount \in Int, NEW s \in Scale, Exact(amount, s)
  PROVE  Text(amount, s) \in Decimal /\ Value(Text(amount, s)) = amount
<1>1. MaxScale - s \in Scale
  BY BoundsAssumption DEF Scale
<1>2. Unit[s] = Power[MaxScale - s] /\ Unit[s] \in Nat \ {0}
  BY <1>1, Powers DEF Unit
<1>3. \A u \in Nat \ {0} : amount % u = 0 => amount \div u \in Int /\ (amount \div u) * u = amount
  OBVIOUS
<1>4. amount \div Unit[s] \in Int /\ (amount \div Unit[s]) * Unit[s] = amount
  BY <1>2, <1>3 DEF Exact
<1> QED
  BY <1>2, <1>4 DEF Text, Decimal, Value, ToScaled

LEMMA ZeroText == Zero \in Decimal /\ Value(Zero) = 0
<1>1. MaxScale \in Scale /\ MaxScale \in Nat /\ 0 \in Scale
  BY BoundsAssumption DEF Scale
<1>2. Power[MaxScale] \in Nat
  BY <1>1, Powers
<1> QED
  BY <1>1, <1>2 DEF Zero, Decimal, Value, ToScaled

-----------------------------------------------------------------------------
\* Hash maps.

LEMMA MapIs ==
  ASSUME NEW K, NEW V, NEW m
  PROVE  IsMap(m, K, V) <=> m \in MapsOf(K, V)
BY DEF IsMap, MapsOf

LEMMA EmptyMap ==
  ASSUME NEW K, NEW V
  PROVE  Empty \in MapsOf(K, V)
<1>1. Empty \in [{} -> V]
  BY DEF Empty
<1> QED
  BY <1>1 DEF MapsOf

LEMMA InsertMap ==
  ASSUME NEW K, NEW V, NEW m \in MapsOf(K, V), NEW k \in K, NEW v \in V
  PROVE  Insert(m, k, v) \in MapsOf(K, V)
<1>1. PICK D \in SUBSET K : m \in [D -> V]
  BY DEF MapsOf
<1>2. Insert(m, k, v) \in [D \cup {k} -> V]
  BY <1>1 DEF Insert
<1> QED
  BY <1>2 DEF MapsOf

LEMMA DeleteMap ==
  ASSUME NEW K, NEW V, NEW m \in MapsOf(K, V), NEW k
  PROVE  Delete(m, k) \in MapsOf(K, V)
<1>1. PICK D \in SUBSET K : m \in [D -> V]
  BY DEF MapsOf
<1>2. Delete(m, k) \in [D \ {k} -> V]
  BY <1>1 DEF Delete
<1> QED
  BY <1>2 DEF MapsOf

-----------------------------------------------------------------------------
\* Types, as sets.

Balances == MapsOf(Asset, AssetBalance)
Position == [kind : {"position"}, balances : Balances]
Event == ExecutionReport \cup BalanceUpdate \cup Marker \cup Position
Frame == Event \cup Ignored
Held == [free : Amounts, locked : Amounts, orders : MapsOf(Order, Status)]
AccountBook == [balances : Balances, open_orders : MapsOf(Order, OpenStatus)]

Typed ==
  /\ held \in Held
  /\ twice \in [Asset -> Int]
  /\ socket \in Seq(Frame)
  /\ sent \in 0..MaxFrames
  /\ applying \in Event \cup {Nothing}
  /\ account \in AccountBook
  /\ outbound \in Seq(Event)

LEMMA EventIs ==
  ASSUME NEW e
  PROVE  IsEvent(e) <=> e \in Event
<1>1. IsPosition(e) <=> e \in Position
  <2>1. ASSUME IsPosition(e) PROVE e \in Position
    <3>1. e = [kind |-> "position", balances |-> e.balances] /\ e.balances \in Balances
      BY <2>1, MapIs DEF IsPosition, Balances
    <3> QED
      BY <3>1 DEF Position
  <2>2. ASSUME e \in Position PROVE IsPosition(e)
    <3>1. e.kind = "position" /\ e.balances \in Balances
      BY <2>2 DEF Position
    <3>2. e = [kind |-> e.kind, balances |-> e.balances]
      BY <2>2 DEF Position
    <3> QED
      BY <3>1, <3>2, MapIs DEF IsPosition, Balances
  <2> QED
    BY <2>1, <2>2
<1> QED
  BY <1>1 DEF IsEvent, Event

LEMMA SeqIs ==
  ASSUME NEW S, NEW s
  PROVE  (s \in Seq(Range(s)) /\ \A x \in Range(s) : x \in S) <=> s \in Seq(S)
<1>1. ASSUME s \in Seq(Range(s)), \A x \in Range(s) : x \in S PROVE s \in Seq(S)
  <2>1. Range(s) \subseteq S
    BY <1>1
  <2> QED
    BY <1>1, <2>1
<1>2. ASSUME s \in Seq(S) PROVE s \in Seq(Range(s)) /\ \A x \in Range(s) : x \in S
  <2>1. Len(s) \in Nat /\ s = [i \in 1..Len(s) |-> s[i]] /\ DOMAIN s = 1..Len(s)
    BY <1>2
  <2>2. \A i \in 1..Len(s) : s[i] \in Range(s) /\ s[i] \in S
    BY <1>2, <2>1 DEF Range
  <2>3. s \in Seq(Range(s))
    BY <2>1, <2>2
  <2> QED
    BY <2>1, <2>2, <2>3 DEF Range
<1> QED
  BY <1>1, <1>2

LEMMA TypeIs == TypeOK <=> Typed
<1>1. (socket \in Seq(Range(socket)) /\ \A f \in Range(socket) : IsEvent(f) \/ f \in Ignored)
        <=> socket \in Seq(Frame)
  <2>1. \A f : IsEvent(f) \/ f \in Ignored <=> f \in Frame
    BY EventIs DEF Frame
  <2> QED
    BY <2>1, SeqIs
<1>2. (outbound \in Seq(Range(outbound)) /\ \A e \in Range(outbound) : IsEvent(e))
        <=> outbound \in Seq(Event)
  <2>1. \A f : IsEvent(f) <=> f \in Event
    BY EventIs
  <2> QED
    BY <2>1, SeqIs
<1>3. (applying = Nothing \/ IsEvent(applying)) <=> applying \in Event \cup {Nothing}
  BY EventIs
<1>4. (/\ account = [balances |-> account.balances, open_orders |-> account.open_orders]
       /\ IsMap(account.balances, Asset, AssetBalance)
       /\ account.open_orders \in MapsOf(Order, OpenStatus))
        <=> account \in AccountBook
  <2>1. IsMap(account.balances, Asset, AssetBalance) <=> account.balances \in Balances
    BY MapIs DEF Balances
  <2> QED
    BY <2>1 DEF AccountBook
<1> QED
  BY <1>1, <1>2, <1>3, <1>4 DEF TypeOK, Typed, Held

-----------------------------------------------------------------------------
\* What the venue tells, and what the account makes of it.

LEMMA ReportType ==
  ASSUME NEW o \in Order, NEW s \in Status
  PROVE  [kind |-> "report", order |-> o, status |-> s] \in Event
BY DEF Event, ExecutionReport

LEMMA ChangeType ==
  ASSUME NEW field \in {"free", "locked"}, NEW a \in Asset, NEW text \in Decimal
  PROVE  [kind |-> field, asset |-> a, delta |-> text] \in Event
BY DEF Event, BalanceUpdate

LEMMA TextsType ==
  ASSUME NEW amount \in Int, NEW text \in Texts(amount)
  PROVE  text \in Decimal /\ Value(text) = amount
BY TextOfAmount DEF Texts

LEMMA PositionType ==
  ASSUME NEW told \in SUBSET Asset, NEW amounts,
         amounts.free \in Amounts, amounts.locked \in Amounts, NEW p \in PositionsOf(told, amounts)
  PROVE  /\ p \in Position
         /\ DOMAIN p.balances = told
         /\ \A a \in told : /\ Value(p.balances[a].free) = amounts.free[a]
                            /\ Value(p.balances[a].locked) = amounts.locked[a]
<1>1. PICK s \in Scale :
        /\ \A a \in told : Exact(amounts.free[a], s) /\ Exact(amounts.locked[a], s)
        /\ p = [kind |-> "position",
                balances |-> [a \in told |-> [free |-> Text(amounts.free[a], s),
                                              locked |-> Text(amounts.locked[a], s)]]]
  BY DEF PositionsOf
<1>2. ASSUME NEW a \in told
      PROVE  /\ Text(amounts.free[a], s) \in Decimal /\ Text(amounts.locked[a], s) \in Decimal
             /\ Value(Text(amounts.free[a], s)) = amounts.free[a]
             /\ Value(Text(amounts.locked[a], s)) = amounts.locked[a]
  <2>1. amounts.free[a] \in Int /\ amounts.locked[a] \in Int
    BY BoundsAssumption DEF Amounts
  <2> QED
    BY <1>1, <2>1, TextOfAmount
<1>3. p.balances \in [told -> AssetBalance]
  BY <1>1, <1>2 DEF AssetBalance
<1>4. p \in Position
  BY <1>1, <1>3 DEF Position, Balances, MapsOf
<1>5. ASSUME NEW a \in told
      PROVE  /\ Value(p.balances[a].free) = amounts.free[a]
             /\ Value(p.balances[a].locked) = amounts.locked[a]
  <2>1. p.balances[a] = [free |-> Text(amounts.free[a], s), locked |-> Text(amounts.locked[a], s)]
    BY <1>1
  <2> QED
    BY <1>2, <2>1
<1>6. DOMAIN p.balances = told
  BY <1>3
<1> QED
  BY <1>4, <1>5, <1>6

LEMMA BalancesAre ==
  ASSUME NEW b
  PROVE  b \in Balances <=> DOMAIN b \subseteq Asset /\ b \in [DOMAIN b -> AssetBalance]
BY DEF Balances, MapsOf

LEMMA EntryType ==
  ASSUME NEW b \in Balances, NEW a
  PROVE  Entry(b, a) \in AssetBalance
BY BalancesAre, ZeroText DEF Entry, AssetBalance

LEMMA PositionApplied ==
  ASSUME NEW b \in Balances, NEW p \in Position
  PROVE  /\ ApplyPosition(b, p) \in Balances
         /\ DOMAIN ApplyPosition(b, p) = DOMAIN b \cup DOMAIN p.balances
         /\ \A a \in DOMAIN p.balances : ApplyPosition(b, p)[a] = p.balances[a]
         /\ \A a \in DOMAIN b \ DOMAIN p.balances : ApplyPosition(b, p)[a] = b[a]
<1>1. p.balances \in Balances
  BY DEF Position
<1> QED
  BY <1>1, BalancesAre DEF ApplyPosition

LEMMA DeltaApplied ==
  ASSUME NEW b \in Balances, NEW e \in BalanceUpdate
  PROVE  /\ ApplyDelta(b, e) \in Balances
         /\ DOMAIN ApplyDelta(b, e) = DOMAIN b \cup {e.asset}
         /\ \A a \in DOMAIN b \ {e.asset} : ApplyDelta(b, e)[a] = b[a]
         /\ e.kind = "free" =>
              /\ Value(ApplyDelta(b, e)[e.asset].free) = Value(Entry(b, e.asset).free) + Value(e.delta)
              /\ ApplyDelta(b, e)[e.asset].locked = Entry(b, e.asset).locked
         /\ e.kind = "locked" =>
              /\ Value(ApplyDelta(b, e)[e.asset].locked) = Value(Entry(b, e.asset).locked) + Value(e.delta)
              /\ ApplyDelta(b, e)[e.asset].free = Entry(b, e.asset).free
<1>1. e.asset \in Asset /\ e.delta \in Decimal /\ e.kind \in {"free", "locked"}
  BY DEF BalanceUpdate
<1> DEFINE old == Entry(b, e.asset)
           new == [old EXCEPT ![e.kind] = AddDecimals(@, e.delta)]
<1>2. old \in AssetBalance
  BY EntryType
<1>3. /\ AddDecimals(old.free, e.delta) \in Decimal
      /\ Value(AddDecimals(old.free, e.delta)) = Value(old.free) + Value(e.delta)
      /\ AddDecimals(old.locked, e.delta) \in Decimal
      /\ Value(AddDecimals(old.locked, e.delta)) = Value(old.locked) + Value(e.delta)
  <2>1. old.free \in Decimal /\ old.locked \in Decimal
    BY <1>2 DEF AssetBalance
  <2> HIDE DEF old
  <2> QED
    BY <1>1, <2>1, SumOfTexts
<1>4. /\ new \in AssetBalance
      /\ e.kind = "free" => new.free = AddDecimals(old.free, e.delta) /\ new.locked = old.locked
      /\ e.kind = "locked" => new.locked = AddDecimals(old.locked, e.delta) /\ new.free = old.free
  <2> HIDE DEF old
  <2> QED
    BY <1>1, <1>2, <1>3 DEF AssetBalance
<1>5. ApplyDelta(b, e) = Insert(b, e.asset, new)
  BY DEF ApplyDelta
<1> HIDE DEF old, new
<1>6. /\ ApplyDelta(b, e) \in Balances
      /\ DOMAIN ApplyDelta(b, e) = DOMAIN b \cup {e.asset}
      /\ \A a \in DOMAIN b \ {e.asset} : ApplyDelta(b, e)[a] = b[a]
      /\ ApplyDelta(b, e)[e.asset] = new
  BY <1>1, <1>4, <1>5, InsertMap, BalancesAre DEF Insert, Balances
<1> QED
  BY <1>3, <1>4, <1>6 DEF old

LEMMA ReportApplied ==
  ASSUME NEW open \in MapsOf(Order, OpenStatus), NEW e \in ExecutionReport
  PROVE  /\ ApplyReport(open, e) \in MapsOf(Order, OpenStatus)
         /\ \A o \in Order : o # e.order =>
              /\ o \in DOMAIN ApplyReport(open, e) <=> o \in DOMAIN open
              /\ o \in DOMAIN open => ApplyReport(open, e)[o] = open[o]
         /\ e.order \in DOMAIN ApplyReport(open, e) <=> e.status \in OpenStatus
         /\ e.status \in OpenStatus => ApplyReport(open, e)[e.order] = e.status
<1>1. e.order \in Order /\ e.status \in Status
  BY DEF ExecutionReport
<1>2. CASE e.status \in EndStatus
  <2>1. e.status \notin OpenStatus
    BY <1>2 DEF OpenStatus, EndStatus
  <2> QED
    BY <1>2, <2>1, DeleteMap DEF ApplyReport, Delete
<1>3. CASE e.status \notin EndStatus
  <2>1. e.status \in OpenStatus
    BY <1>1, <1>3 DEF Status
  <2> QED
    BY <1>1, <1>3, <2>1, InsertMap DEF ApplyReport, Insert
<1> QED
  BY <1>2, <1>3

LEMMA Kinds ==
  ASSUME NEW e \in Event
  PROVE  /\ e.kind = "position" <=> e \in Position
         /\ e.kind \in {"free", "locked"} <=> e \in BalanceUpdate
         /\ e.kind = "report" <=> e \in ExecutionReport
         /\ e # Nothing
BY DEF Event, Position, BalanceUpdate, ExecutionReport, Marker, Nothing

LEMMA EventApplied ==
  ASSUME NEW book \in AccountBook, NEW e \in Event
  PROVE  ApplyEvent(book, e) \in AccountBook
<1>1. book.balances \in Balances /\ book.open_orders \in MapsOf(Order, OpenStatus)
  BY DEF AccountBook
<1>2. CASE e.kind = "position"
  BY <1>1, <1>2, Kinds, PositionApplied DEF ApplyEvent, AccountBook
<1>3. CASE e.kind \in {"free", "locked"}
  BY <1>1, <1>3, Kinds, DeltaApplied DEF ApplyEvent, AccountBook
<1>4. CASE e.kind = "report"
  BY <1>1, <1>4, Kinds, ReportApplied DEF ApplyEvent, AccountBook
<1>5. CASE e.kind \notin {"position", "free", "locked", "report"}
  BY <1>5 DEF ApplyEvent
<1> QED
  BY <1>2, <1>3, <1>4, <1>5

-----------------------------------------------------------------------------
\* Types.

LEMMA TypedInit == Init => Typed
<1> SUFFICES ASSUME Init PROVE Typed
  OBVIOUS
<1>1. /\ Empty \in MapsOf(Order, Status) /\ Empty \in MapsOf(Order, OpenStatus)
      /\ Empty \in Balances
  BY EmptyMap DEF Balances
<1>2. held \in Held
  BY <1>1 DEF Init, Held
<1>3. account \in AccountBook
  BY <1>1 DEF Init, AccountBook
<1>4. sent \in 0..MaxFrames /\ twice \in [Asset -> Int]
  BY BoundsAssumption DEF Init
<1>5. socket \in Seq(Frame) /\ outbound \in Seq(Event) /\ applying = Nothing
  BY DEF Init
<1> QED
  BY <1>2, <1>3, <1>4, <1>5 DEF Typed

LEMMA TellTyped ==
  ASSUME Typed, NEW frames \in Seq(Frame), Tell(frames),
         held' \in Held, twice' \in [Asset -> Int]
  PROVE  Typed'
<1>1. socket' \in Seq(Frame)
  BY DEF Tell, Typed
<1>2. sent' \in 0..MaxFrames
  BY BoundsAssumption DEF Tell, Typed
<1> QED
  BY <1>1, <1>2 DEF Tell, Typed

\* What each action of the venue does to what it holds, and the frames it tells.
LEMMA OrderTold ==
  ASSUME Typed, NEW o \in Order, NEW s \in Status, TellOrder(o, s)
  PROVE  /\ held' \in Held
         /\ held' = [held EXCEPT !.orders = Insert(@, o, s)]
         /\ twice' = twice
         /\ Tell(<<[kind |-> "report", order |-> o, status |-> s]>>)
<1>1. Insert(held.orders, o, s) \in MapsOf(Order, Status)
  BY InsertMap DEF Typed, Held
<1> QED
  BY <1>1 DEF TellOrder, Typed, Held

LEMMA PositionTold ==
  ASSUME Typed, NEW told \in SUBSET Asset, NEW a \in Asset, TellPosition(a, told)
  PROVE  /\ held' \in Held
         /\ held'.orders = held.orders
         /\ \A x \in Asset \ {a} : held'.free[x] = held.free[x] /\ held'.locked[x] = held.locked[x]
         /\ twice' = [x \in Asset |-> IF x \in told THEN 0 ELSE twice[x]]
         /\ \E p \in PositionsOf(told, held') : Tell(<<p>>)
<1>1. PICK free \in 0..MaxAmount, locked \in 0..MaxAmount :
        held' = [held EXCEPT !.free[a] = free, !.locked[a] = locked]
  BY DEF TellPosition
<1>2. held \in Held /\ held.free \in [Asset -> 0..MaxAmount] /\ held.locked \in [Asset -> 0..MaxAmount]
  BY DEF Typed, Held, Amounts
<1>3. held' \in Held /\ held'.orders = held.orders
  BY <1>1, <1>2 DEF Held, Amounts
<1>4. \A x \in Asset \ {a} : held'.free[x] = held.free[x] /\ held'.locked[x] = held.locked[x]
  BY <1>1, <1>2 DEF Held
<1> QED
  BY <1>3, <1>4 DEF TellPosition

LEMMA TransferTold ==
  ASSUME Typed, NEW a \in Asset, NEW delta \in Int, NEW how, TellTransfer(a, delta, how)
  PROVE  /\ held' \in Held
         /\ held'.orders = held.orders /\ held'.locked = held.locked
         /\ held'.free = [held.free EXCEPT ![a] = @ + delta]
         /\ \E text \in Texts(delta), p \in PositionsOf({a}, held') :
              LET update == [kind |-> "free", asset |-> a, delta |-> text] IN
              \/ Tell(<<update>>) /\ twice' = twice
              \/ Tell(<<update, p>>) /\ twice' = [twice EXCEPT ![a] = 0]
              \/ Tell(<<p, update>>) /\ twice' = [twice EXCEPT ![a] = delta]
<1>1. /\ held.free[a] + delta \in 0..MaxAmount
      /\ held' = [held EXCEPT !.free[a] = @ + delta]
  BY DEF TellTransfer
<1>2. held \in Held /\ held.free \in [Asset -> 0..MaxAmount]
  BY DEF Typed, Held, Amounts
<1>3. /\ held' \in Held
      /\ held'.orders = held.orders /\ held'.locked = held.locked
      /\ held'.free = [held.free EXCEPT ![a] = @ + delta]
  BY <1>1, <1>2 DEF Held, Amounts
<1>4. \E text \in Texts(delta), p \in PositionsOf({a}, held') :
        LET update == [kind |-> "free", asset |-> a, delta |-> text] IN
        \/ Tell(<<update>>) /\ twice' = twice
        \/ Tell(<<update, p>>) /\ twice' = [twice EXCEPT ![a] = 0]
        \/ Tell(<<p, update>>) /\ twice' = [twice EXCEPT ![a] = delta]
  BY DEF TellTransfer
<1> QED
  BY <1>3, <1>4

LEMMA LockTold ==
  ASSUME Typed, NEW a \in Asset, NEW delta \in Int, TellLock(a, delta)
  PROVE  /\ held' \in Held
         /\ held'.orders = held.orders /\ held'.free = held.free
         /\ held'.locked = [held.locked EXCEPT ![a] = @ + delta]
         /\ twice' = twice
         /\ \E text \in Texts(delta) : Tell(<<[kind |-> "locked", asset |-> a, delta |-> text]>>)
<1>1. /\ held.locked[a] + delta \in 0..MaxAmount
      /\ held' = [held EXCEPT !.locked[a] = @ + delta]
  BY DEF TellLock
<1>2. held \in Held /\ held.locked \in [Asset -> 0..MaxAmount]
  BY DEF Typed, Held, Amounts
<1>3. /\ held' \in Held
      /\ held'.orders = held.orders /\ held'.free = held.free
      /\ held'.locked = [held.locked EXCEPT ![a] = @ + delta]
  BY <1>1, <1>2 DEF Held, Amounts
<1> QED
  BY <1>3 DEF TellLock

LEMMA VenueTyped == Typed /\ Venue => Typed'
<1> SUFFICES ASSUME Typed, Venue PROVE Typed'
  OBVIOUS
<1>1. ASSUME NEW o \in Order, NEW s \in Status, TellOrder(o, s) PROVE Typed'
  <2>1. <<[kind |-> "report", order |-> o, status |-> s]>> \in Seq(Frame)
    BY ReportType DEF Frame
  <2>2. twice' \in [Asset -> Int]
    BY <1>1, OrderTold DEF Typed
  <2> QED
    BY <1>1, <2>1, <2>2, OrderTold, TellTyped
<1>2. ASSUME NEW a \in Asset, NEW told \in SUBSET Asset, TellPosition(a, told) PROVE Typed'
  <2>1. PICK p \in PositionsOf(told, held') : Tell(<<p>>)
    BY <1>2, PositionTold
  <2>2. held' \in Held /\ twice' \in [Asset -> Int]
    BY <1>2, PositionTold DEF Typed
  <2>3. <<p>> \in Seq(Frame)
    <3>1. held'.free \in Amounts /\ held'.locked \in Amounts
      BY <2>2 DEF Held
    <3>2. p \in Frame
      BY <3>1, PositionType DEF Frame, Event
    <3> QED
      BY <3>2
  <2> QED
    BY <2>1, <2>2, <2>3, TellTyped
<1>3. ASSUME NEW a \in Asset, NEW delta \in Int, NEW how, TellTransfer(a, delta, how) PROVE Typed'
  <2>1. PICK text \in Texts(delta), p \in PositionsOf({a}, held') :
          LET update == [kind |-> "free", asset |-> a, delta |-> text] IN
          \/ Tell(<<update>>) /\ twice' = twice
          \/ Tell(<<update, p>>) /\ twice' = [twice EXCEPT ![a] = 0]
          \/ Tell(<<p, update>>) /\ twice' = [twice EXCEPT ![a] = delta]
    BY <1>3, TransferTold
  <2> DEFINE update == [kind |-> "free", asset |-> a, delta |-> text]
  <2>2. update \in Frame
    BY ChangeType, TextsType DEF Frame
  <2>3. p \in Frame
    <3>1. held'.free \in Amounts /\ held'.locked \in Amounts
      BY <1>3, TransferTold DEF Held
    <3> QED
      BY <3>1, PositionType DEF Frame, Event
  <2>4. held' \in Held /\ twice' \in [Asset -> Int]
    <3>1. \/ twice' = twice
          \/ twice' = [twice EXCEPT ![a] = 0]
          \/ twice' = [twice EXCEPT ![a] = delta]
      BY <2>1
    <3>2. twice' \in [Asset -> Int]
      BY <3>1 DEF Typed
    <3> QED
      BY <1>3, <3>2, TransferTold
  <2>5. \E frames \in Seq(Frame) : Tell(frames)
    <3> HIDE DEF update
    <3>1. <<update>> \in Seq(Frame) /\ <<update, p>> \in Seq(Frame) /\ <<p, update>> \in Seq(Frame)
      BY <2>2, <2>3
    <3> QED
      BY <2>1, <3>1 DEF update
  <2> QED
    BY <2>4, <2>5, TellTyped
<1>4. ASSUME NEW a \in Asset, NEW delta \in Int, TellLock(a, delta) PROVE Typed'
  <2>1. PICK text \in Texts(delta) : Tell(<<[kind |-> "locked", asset |-> a, delta |-> text]>>)
    BY <1>4, LockTold
  <2>2. <<[kind |-> "locked", asset |-> a, delta |-> text]>> \in Seq(Frame)
    BY ChangeType, TextsType DEF Frame
  <2>3. held' \in Held /\ twice' \in [Asset -> Int]
    BY <1>4, LockTold DEF Typed
  <2> QED
    BY <2>1, <2>2, <2>3, TellTyped
<1>5. ASSUME TellOther PROVE Typed'
  <2>1. PICK f \in Marker \cup Ignored : Tell(<<f>>)
    BY <1>5 DEF TellOther
  <2>2. <<f>> \in Seq(Frame)
    BY DEF Frame, Event
  <2>3. held' \in Held /\ twice' \in [Asset -> Int]
    BY <1>5 DEF TellOther, Typed
  <2> QED
    BY <2>1, <2>2, <2>3, TellTyped
<1> QED
  <2>1. -MaxAmount \in Int /\ MaxAmount \in Int
    BY BoundsAssumption
  <2> QED
    BY <1>1, <1>2, <1>3, <1>4, <1>5, <2>1 DEF Venue

LEMMA ClientTyped == Typed /\ (DropFrame \/ Apply \/ Forward) => Typed'
<1>1. ASSUME Typed, DropFrame PROVE Typed'
  BY <1>1 DEF DropFrame, Typed
<1>2. ASSUME Typed, Apply PROVE Typed'
  <2>1. /\ Head(socket) \in Event /\ socket' \in Seq(Frame)
        /\ applying' = Head(socket) /\ account' = ApplyEvent(account, Head(socket))
    BY <1>2 DEF Apply, Typed, Dropped, Frame
  <2>2. account' \in AccountBook
    BY <1>2, <2>1, EventApplied DEF Typed
  <2> QED
    BY <1>2, <2>1, <2>2 DEF Apply, Typed
<1>3. ASSUME Typed, Forward PROVE Typed'
  BY <1>3 DEF Forward, Typed
<1> QED
  BY <1>1, <1>2, <1>3

LEMMA TypedStep == Typed /\ [Next]_vars => Typed'
<1>1. ASSUME Typed, UNCHANGED vars PROVE Typed'
  BY <1>1 DEF Typed, vars
<1> QED
  BY <1>1, VenueTyped, ClientTyped DEF Next

LEMMA AlwaysTyped == Spec => []Typed
BY TypedInit, TypedStep, PTL DEF Spec

(***************************************************************************)
(* Every amount that the account comes to hold is a text the code can read *)
(* back, and no ended order is kept open.                                  *)
(***************************************************************************)
THEOREM TypeCorrect == Spec => []TypeOK
BY AlwaysTyped, TypeIs, PTL

-----------------------------------------------------------------------------
(***************************************************************************)
(* The account after the frames of the socket.  The venue is compared with *)
(* what the account will be, and so a frame may be applied at any time.    *)
(***************************************************************************)

\* An account, and the assets whose position it has been told.
World == [book : AccountBook, told : SUBSET Asset]

\* A frame is dropped or applied.
Step(w, f) ==
  IF Dropped(f) THEN w
  ELSE [book |-> ApplyEvent(w.book, f),
        told |-> w.told \cup IF f.kind = "position" THEN DOMAIN f.balances ELSE {}]

Replayed(start, frames) ==
  LET w[n \in 0..Len(frames)] == IF n = 0 THEN start ELSE Step(w[n - 1], frames[n])
  IN  w

After(start, frames) == Replayed(start, frames)[Len(frames)]

Now == [book |-> account, told |-> {a \in Asset : Positions(Log, a) # {}}]

AssetAgrees(w, h, t, a) ==
  /\ a \in DOMAIN w.book.balances
  /\ Value(w.book.balances[a].free) = h.free[a] + t[a]
  /\ Value(w.book.balances[a].locked) = h.locked[a]

OrderAgrees(w, h, o) ==
  LET open == o \in DOMAIN h.orders /\ h.orders[o] \in OpenStatus IN
  /\ o \in DOMAIN w.book.open_orders <=> open
  /\ open => w.book.open_orders[o] = h.orders[o]

\* The account is the venue's, but for what has been told twice.
Agrees(w, h, t) ==
  /\ \A a \in w.told : AssetAgrees(w, h, t, a)
  /\ \A o \in Order : SymbolOf[o] \in Subscribed => OrderAgrees(w, h, o)

Delivery == Agrees(After(Now, socket), held, twice)

IInv == TypeOK /\ Delivery

LEMMA StepType ==
  ASSUME NEW w \in World, NEW f \in Frame
  PROVE  Step(w, f) \in World
<1>1. CASE Dropped(f)
  BY <1>1 DEF Step
<1>2. CASE ~ Dropped(f)
  <2>1. f \in Event
    BY <1>2 DEF Dropped, Frame
  <2>2. ApplyEvent(w.book, f) \in AccountBook
    BY <2>1, EventApplied DEF World
  <2>3. f.kind = "position" => DOMAIN f.balances \subseteq Asset
    BY <2>1, Kinds, BalancesAre DEF Position
  <2>4. w.told \cup (IF f.kind = "position" THEN DOMAIN f.balances ELSE {}) \in SUBSET Asset
    BY <2>3 DEF World
  <2> QED
    BY <1>2, <2>2, <2>4 DEF Step, World
<1> QED
  BY <1>1, <1>2

LEMMA Trajectory ==
  ASSUME NEW start \in World, NEW frames \in Seq(Frame)
  PROVE  /\ Replayed(start, frames)[0] = start
         /\ \A i \in 1..Len(frames) :
              Replayed(start, frames)[i] = Step(Replayed(start, frames)[i - 1], frames[i])
         /\ \A i \in 0..Len(frames) : Replayed(start, frames)[i] \in World
<1> DEFINE N == Len(frames)
           step == [x \in Nat \X World |-> IF x[1] \in 1..N THEN Step(x[2], frames[x[1]]) ELSE x[2]]
           Is(g) == g = [n \in 0..N |-> IF n = 0 THEN start ELSE Step(g[n - 1], frames[n])]
           w == Replayed(start, frames)
<1>0. N \in Nat /\ \A i \in 1..N : frames[i] \in Frame
  OBVIOUS
<1>1. step \in [Nat \X World -> World]
  <2>1. ASSUME NEW x \in Nat \X World
        PROVE  (IF x[1] \in 1..N THEN Step(x[2], frames[x[1]]) ELSE x[2]) \in World
    <3>1. x[2] \in World
      OBVIOUS
    <3>2. CASE x[1] \in 1..N
      <4>1. frames[x[1]] \in Frame
        BY <1>0, <3>2
      <4> QED
        BY <3>1, <3>2, <4>1, StepType
    <3> QED
      BY <3>1, <3>2
  <2> QED
    BY <2>1
<1>2. PICK f : Iterates(f, N, World, start, step)
  <2> HIDE DEF step, N
  <2> QED
    BY <1>0, <1>1, Iterated
<1>3. f \in [0..N -> World] /\ f[0] = start /\ \A i \in 1..N : f[i] = Step(f[i - 1], frames[i])
  <2>1. f \in [0..N -> World] /\ f[0] = start
    BY <1>2 DEF Iterates
  <2>2. ASSUME NEW i \in 1..N PROVE f[i] = Step(f[i - 1], frames[i])
    <3>1. i \in Nat /\ i - 1 \in 0..N
      BY <1>0
    <3>2. <<i, f[i - 1]>> \in Nat \X World
      BY <2>1, <3>1
    <3>3. f[i] = step[<<i, f[i - 1]>>]
      BY <1>2 DEF Iterates
    <3> QED
      BY <3>2, <3>3
  <2> QED
    BY <2>1, <2>2
<1>4. Is(f)
  <2>1. \A n \in 0..N : f[n] = IF n = 0 THEN start ELSE Step(f[n - 1], frames[n])
    <3>1. \A n \in 0..N : n = 0 \/ n \in 1..N
      BY <1>0
    <3> QED
      BY <1>3, <3>1
  <2>2. f = [n \in 0..N |-> f[n]]
    BY <1>3
  <2> QED
    BY <2>1, <2>2
<1>5. Is(w)
  <2>1. w = CHOOSE g : Is(g)
    BY DEF Replayed
  <2> HIDE DEF Is, w
  <2> QED
    BY <1>4, <2>1
<1>6. w[0] = start /\ \A i \in 1..N : w[i] = Step(w[i - 1], frames[i])
  <2>1. 0 \in 0..N /\ \A i \in 1..N : i \in 0..N /\ i # 0
    BY <1>0
  <2> HIDE DEF w
  <2> QED
    BY <1>5, <2>1
<1> HIDE DEF w, N, Is, step
<1>7. \A i \in 0..N : w[i] = f[i]
  <2>1. InStep(w, f, N)
    BY <1>3, <1>6 DEF InStep
  <2> QED
    BY <1>0, <2>1, SameSteps
<1>8. \A i \in 0..N : w[i] \in World
  BY <1>3, <1>7
<1> QED
  BY <1>6, <1>8 DEF w, N

LEMMA AfterType ==
  ASSUME NEW start \in World, NEW frames \in Seq(Frame)
  PROVE  /\ After(start, frames) \in World
         /\ frames = <<>> => After(start, frames) = start
<1>1. Len(frames) \in Nat /\ Len(frames) \in 0..Len(frames)
  OBVIOUS
<1>2. frames = <<>> => Len(frames) = 0
  OBVIOUS
<1> QED
  BY <1>1, <1>2, Trajectory DEF After

LEMMA AfterAppend ==
  ASSUME NEW start \in World, NEW frames \in Seq(Frame), NEW f \in Frame
  PROVE  After(start, Append(frames, f)) = Step(After(start, frames), f)
<1> DEFINE n == Len(frames)
           more == Append(frames, f)
           v == Replayed(start, frames)
           w == Replayed(start, more)
<1>1. /\ n \in Nat /\ more \in Seq(Frame) /\ Len(more) = n + 1 /\ more[n + 1] = f
      /\ \A i \in 1..n : more[i] = frames[i]
  OBVIOUS
<1>2. /\ v[0] = start /\ w[0] = start
      /\ \A i \in 1..n : v[i] = Step(v[i - 1], frames[i])
      /\ \A i \in 1..(n + 1) : w[i] = Step(w[i - 1], more[i])
  <2> HIDE DEF more
  <2> QED
    BY <1>1, Trajectory
<1> HIDE DEF n, more, v, w
<1>3. \A i \in 0..n : w[i] = v[i]
  <2>1. InStep(w, v, n)
    BY <1>1, <1>2 DEF InStep
  <2> QED
    BY <1>1, <2>1, SameSteps
<1>4. w[n + 1] = Step(w[n], f)
  <2>1. n + 1 \in 1..(n + 1) /\ (n + 1) - 1 = n
    BY <1>1
  <2> QED
    BY <1>1, <1>2, <2>1
<1>5. w[n] = v[n]
  BY <1>1, <1>3
<1> QED
  BY <1>1, <1>4, <1>5 DEF After, n, more, v, w

LEMMA AfterTail ==
  ASSUME NEW start \in World, NEW frames \in Seq(Frame), frames # <<>>
  PROVE  After(start, frames) = After(Step(start, Head(frames)), Tail(frames))
<1> DEFINE n == Len(Tail(frames))
           next == Step(start, Head(frames))
           v == Replayed(start, frames)
           w == Replayed(next, Tail(frames))
           u == [i \in 0..n |-> v[i + 1]]
<1>1. /\ n \in Nat /\ Len(frames) = n + 1 /\ Tail(frames) \in Seq(Frame)
      /\ Head(frames) = frames[1] /\ Head(frames) \in Frame
      /\ \A i \in 1..n : Tail(frames)[i] = frames[i + 1]
  OBVIOUS
<1>2. next \in World
  BY <1>1, StepType
<1>3. /\ v[0] = start /\ w[0] = next
      /\ \A i \in 1..(n + 1) : v[i] = Step(v[i - 1], frames[i])
      /\ \A i \in 1..n : w[i] = Step(w[i - 1], Tail(frames)[i])
  <2> HIDE DEF next
  <2>1. \A i \in 1..(n + 1) : i \in 1..Len(frames)
    BY <1>1
  <2>2. v[0] = start /\ \A i \in 1..(n + 1) : v[i] = Step(v[i - 1], frames[i])
    BY <2>1, Trajectory
  <2>3. w[0] = next /\ \A i \in 1..n : w[i] = Step(w[i - 1], Tail(frames)[i])
    BY <1>1, <1>2, Trajectory
  <2> QED
    BY <2>2, <2>3
<1> HIDE DEF n, v, w
<1>4. u[0] = w[0]
  <2>1. 1 \in 1..(n + 1) /\ 1 - 1 = 0 /\ 0 \in 0..n /\ 0 + 1 = 1
    BY <1>1
  <2>2. v[1] = Step(v[0], frames[1])
    BY <1>3, <2>1
  <2> QED
    BY <1>1, <1>3, <2>1, <2>2
<1>5. \A i \in 1..n : u[i - 1] = w[i - 1] => u[i] = w[i]
  <2>1. ASSUME NEW i \in 1..n, u[i - 1] = w[i - 1] PROVE u[i] = w[i]
    <3>1. i \in 0..n /\ i - 1 \in 0..n /\ i + 1 \in 1..(n + 1) /\ (i - 1) + 1 = i /\ (i + 1) - 1 = i
      BY <1>1
    <3>2. u[i] = v[i + 1] /\ u[i - 1] = v[i]
      BY <3>1
    <3>3. v[i + 1] = Step(v[i], frames[i + 1])
      BY <1>3, <3>1
    <3> QED
      BY <1>1, <1>3, <2>1, <3>2, <3>3
  <2> QED
    BY <2>1
<1>6. \A i \in 0..n : u[i] = w[i]
  <2> HIDE DEF u
  <2>1. InStep(u, w, n)
    BY <1>4, <1>5 DEF InStep
  <2> QED
    BY <1>1, <2>1, SameSteps
<1>7. v[n + 1] = w[n]
  BY <1>1, <1>6
<1> QED
  BY <1>1, <1>7 DEF After, n, v, w

\* What a step of each kind does.
LEMMA StepPosition ==
  ASSUME NEW w \in World, NEW p \in Position
  PROVE  LET v == Step(w, p) IN
         /\ v.told = w.told \cup DOMAIN p.balances
         /\ v.book.open_orders = w.book.open_orders
         /\ v.book.balances = ApplyPosition(w.book.balances, p)
<1>1. p.kind = "position" /\ p \notin Ignored
  BY DEF Position, Ignored
<1>2. ~ Dropped(p)
  BY <1>1 DEF Dropped, RouteId, Writers
<1>3. w.book = [balances |-> w.book.balances, open_orders |-> w.book.open_orders]
  BY DEF World, AccountBook
<1> QED
  BY <1>1, <1>2, <1>3 DEF Step, ApplyEvent

LEMMA StepChange ==
  ASSUME NEW w \in World, NEW e \in BalanceUpdate
  PROVE  LET v == Step(w, e) IN
         /\ v.told = w.told
         /\ v.book.open_orders = w.book.open_orders
         /\ v.book.balances = ApplyDelta(w.book.balances, e)
<1>1. e.kind \in {"free", "locked"} /\ e \notin Ignored
  BY DEF BalanceUpdate, Ignored
<1>2. ~ Dropped(e)
  BY <1>1 DEF Dropped, RouteId, Writers
<1>3. w.book = [balances |-> w.book.balances, open_orders |-> w.book.open_orders]
  BY DEF World, AccountBook
<1> QED
  BY <1>1, <1>2, <1>3 DEF Step, ApplyEvent

LEMMA StepReport ==
  ASSUME NEW w \in World, NEW e \in ExecutionReport
  PROVE  LET v == Step(w, e) IN
         /\ v.told = w.told
         /\ v.book.balances = w.book.balances
         /\ SymbolOf[e.order] \in Subscribed =>
              v.book.open_orders = ApplyReport(w.book.open_orders, e)
         /\ v.book.open_orders \in {w.book.open_orders, ApplyReport(w.book.open_orders, e)}
<1>1. e.kind = "report" /\ e \notin Ignored
  BY DEF ExecutionReport, Ignored
<1>2. SymbolOf[e.order] \in Subscribed => ~ Dropped(e)
  BY <1>1 DEF Dropped, RouteId, Writers
<1>3. w.book = [balances |-> w.book.balances, open_orders |-> w.book.open_orders]
  BY DEF World, AccountBook
<1> QED
  BY <1>1, <1>2, <1>3 DEF Step, ApplyEvent

LEMMA StepOther ==
  ASSUME NEW w \in World, NEW f \in Marker \cup Ignored
  PROVE  Step(w, f).told = w.told /\ Step(w, f).book = w.book
<1>1. f.kind \notin {"position", "free", "locked", "report"}
  BY DEF Marker, Ignored
<1> QED
  BY <1>1 DEF Step, ApplyEvent

\* The assets of a position are the venue's after it.
LEMMA PositionAgrees ==
  ASSUME NEW w \in World, NEW h \in Held, NEW t \in [Asset -> Int], NEW told \in SUBSET Asset,
         NEW p \in PositionsOf(told, h),
         \A a \in w.told \ told : AssetAgrees(w, h, t, a),
         \A a \in told : t[a] = 0
  PROVE  \A a \in Step(w, p).told : AssetAgrees(Step(w, p), h, t, a)
<1>1. h.free \in Amounts /\ h.locked \in Amounts
  BY DEF Held
<1>2. /\ p \in Position /\ DOMAIN p.balances = told
      /\ \A a \in told : /\ Value(p.balances[a].free) = h.free[a]
                         /\ Value(p.balances[a].locked) = h.locked[a]
  BY <1>1, PositionType
<1>3. w.book.balances \in Balances
  BY DEF World, AccountBook
<1> DEFINE b == Step(w, p).book.balances
<1>4. Step(w, p).told = w.told \cup told /\ b = ApplyPosition(w.book.balances, p)
  BY <1>2, StepPosition
<1>5. /\ DOMAIN b = DOMAIN w.book.balances \cup told
      /\ \A a \in told : b[a] = p.balances[a]
      /\ \A a \in DOMAIN w.book.balances \ told : b[a] = w.book.balances[a]
  BY <1>2, <1>3, <1>4, PositionApplied
<1> HIDE DEF b
<1>6. ASSUME NEW a \in told PROVE AssetAgrees(Step(w, p), h, t, a)
  <2>1. h.free[a] \in Int /\ t[a] = 0
    BY <1>1, BoundsAssumption DEF Amounts
  <2>2. a \in DOMAIN b /\ Value(b[a].free) = h.free[a] + t[a] /\ Value(b[a].locked) = h.locked[a]
    BY <1>2, <1>5, <2>1
  <2> QED
    BY <2>2 DEF AssetAgrees, b
<1>7. ASSUME NEW a \in w.told \ told PROVE AssetAgrees(Step(w, p), h, t, a)
  <2>1. /\ a \in DOMAIN w.book.balances
        /\ Value(w.book.balances[a].free) = h.free[a] + t[a]
        /\ Value(w.book.balances[a].locked) = h.locked[a]
    BY DEF AssetAgrees
  <2>2. a \in DOMAIN b /\ b[a] = w.book.balances[a]
    BY <1>5, <1>7, <2>1
  <2> QED
    BY <2>1, <2>2 DEF AssetAgrees, b
<1> QED
  BY <1>4, <1>6, <1>7

\* A change moves one amount by what it says.
LEMMA ChangeMoves ==
  ASSUME NEW w \in World, NEW e \in BalanceUpdate
  PROVE  LET b == w.book.balances
             c == Step(w, e).book.balances
         IN
         /\ DOMAIN b \subseteq DOMAIN c
         /\ \A a \in DOMAIN b \ {e.asset} : c[a] = b[a]
         /\ e.asset \in DOMAIN b =>
              /\ e.kind = "free" =>
                   /\ Value(c[e.asset].free) = Value(b[e.asset].free) + Value(e.delta)
                   /\ c[e.asset].locked = b[e.asset].locked
              /\ e.kind = "locked" =>
                   /\ Value(c[e.asset].locked) = Value(b[e.asset].locked) + Value(e.delta)
                   /\ c[e.asset].free = b[e.asset].free
<1> DEFINE b == w.book.balances
           c == Step(w, e).book.balances
<1>1. b \in Balances
  BY DEF World, AccountBook
<1>2. c = ApplyDelta(b, e)
  BY StepChange
<1>3. e.asset \in DOMAIN b => Entry(b, e.asset) = b[e.asset]
  BY DEF Entry
<1> HIDE DEF b, c
<1>4. /\ DOMAIN c = DOMAIN b \cup {e.asset}
      /\ \A a \in DOMAIN b \ {e.asset} : c[a] = b[a]
      /\ e.kind = "free" =>
           /\ Value(c[e.asset].free) = Value(Entry(b, e.asset).free) + Value(e.delta)
           /\ c[e.asset].locked = Entry(b, e.asset).locked
      /\ e.kind = "locked" =>
           /\ Value(c[e.asset].locked) = Value(Entry(b, e.asset).locked) + Value(e.delta)
           /\ c[e.asset].free = Entry(b, e.asset).free
  BY <1>1, <1>2, DeltaApplied
<1> QED
  BY <1>3, <1>4 DEF b, c

LEMMA ReportAgrees ==
  ASSUME Typed, NEW w \in World, Agrees(w, held, twice),
         NEW o \in Order, NEW s \in Status, TellOrder(o, s)
  PROVE  Agrees(Step(w, [kind |-> "report", order |-> o, status |-> s]), held', twice')
<1> DEFINE e == [kind |-> "report", order |-> o, status |-> s]
           v == Step(w, e)
<1>1. e \in ExecutionReport /\ e.order = o /\ e.status = s
  BY DEF ExecutionReport
<1> HIDE DEF e
<1>2. held' = [held EXCEPT !.orders = Insert(@, o, s)] /\ twice' = twice /\ held \in Held
  BY OrderTold DEF Typed
<1>3. /\ held'.free = held.free /\ held'.locked = held.locked
      /\ held'.orders = Insert(held.orders, o, s)
  BY <1>2 DEF Held
<1>4. /\ v.told = w.told /\ v.book.balances = w.book.balances
      /\ SymbolOf[o] \in Subscribed => v.book.open_orders = ApplyReport(w.book.open_orders, e)
      /\ v.book.open_orders \in {w.book.open_orders, ApplyReport(w.book.open_orders, e)}
  BY <1>1, StepReport
<1>5. w.book.open_orders \in MapsOf(Order, OpenStatus)
  BY DEF World, AccountBook
<1> HIDE DEF v
<1>6. \A a \in v.told : AssetAgrees(v, held', twice', a)
  BY <1>2, <1>3, <1>4 DEF Agrees, AssetAgrees
<1>7. ASSUME NEW x \in Order, SymbolOf[x] \in Subscribed PROVE OrderAgrees(v, held', x)
  <2>1. OrderAgrees(w, held, x)
    BY <1>7 DEF Agrees
  <2>2. CASE x = o
    <3>1. x \in DOMAIN held'.orders /\ held'.orders[x] = s
      BY <1>3, <2>2 DEF Insert
    <3>2. v.book.open_orders = ApplyReport(w.book.open_orders, e)
      BY <1>4, <1>7, <2>2
    <3>3. /\ x \in DOMAIN v.book.open_orders <=> s \in OpenStatus
          /\ s \in OpenStatus => v.book.open_orders[x] = s
      BY <1>1, <1>5, <2>2, <3>2, ReportApplied
    <3> QED
      BY <3>1, <3>3 DEF OrderAgrees
  <2>3. CASE x # o
    <3>1. /\ x \in DOMAIN held'.orders <=> x \in DOMAIN held.orders
          /\ x \in DOMAIN held.orders => held'.orders[x] = held.orders[x]
      BY <1>3, <2>3 DEF Insert
    <3>2. /\ x \in DOMAIN v.book.open_orders <=> x \in DOMAIN w.book.open_orders
          /\ x \in DOMAIN w.book.open_orders => v.book.open_orders[x] = w.book.open_orders[x]
      BY <1>1, <1>4, <1>5, <2>3, ReportApplied
    <3> QED
      BY <2>1, <3>1, <3>2 DEF OrderAgrees
  <2> QED
    BY <2>2, <2>3
<1> QED
  BY <1>6, <1>7 DEF Agrees, v, e

\* Orders do not depend on what is told of amounts.
LEMMA SameOrders ==
  ASSUME NEW w, NEW h, NEW t, Agrees(w, h, t), NEW v, NEW g, NEW u,
         v.book.open_orders = w.book.open_orders, g.orders = h.orders,
         \A a \in v.told : AssetAgrees(v, g, u, a)
  PROVE  Agrees(v, g, u)
BY DEF Agrees, OrderAgrees

LEMMA PositionDelivered ==
  ASSUME Typed, NEW w \in World, Agrees(w, held, twice),
         NEW told \in SUBSET Asset, NEW a \in told, TellPosition(a, told),
         NEW p \in PositionsOf(told, held')
  PROVE  Agrees(Step(w, p), held', twice')
<1>1. /\ held' \in Held /\ held'.orders = held.orders
      /\ \A x \in Asset \ {a} : held'.free[x] = held.free[x] /\ held'.locked[x] = held.locked[x]
      /\ twice' = [x \in Asset |-> IF x \in told THEN 0 ELSE twice[x]]
  BY PositionTold
<1>2. twice' \in [Asset -> Int] /\ \A x \in told : twice'[x] = 0
  BY <1>1 DEF Typed
<1>3. ASSUME NEW x \in w.told \ told PROVE AssetAgrees(w, held', twice', x)
  <2>1. x \in Asset /\ x # a
    BY <1>3 DEF World
  <2>2. held'.free[x] = held.free[x] /\ held'.locked[x] = held.locked[x] /\ twice'[x] = twice[x]
    BY <1>1, <1>3, <2>1
  <2>3. AssetAgrees(w, held, twice, x)
    BY <1>3 DEF Agrees
  <2> QED
    BY <2>2, <2>3 DEF AssetAgrees
<1>4. \A x \in Step(w, p).told : AssetAgrees(Step(w, p), held', twice', x)
  BY <1>1, <1>2, <1>3, PositionAgrees
<1>5. Step(w, p).book.open_orders = w.book.open_orders
  <2>1. held'.free \in Amounts /\ held'.locked \in Amounts
    BY <1>1 DEF Held
  <2> QED
    BY <2>1, PositionType, StepPosition
<1> QED
  BY <1>1, <1>4, <1>5, SameOrders

\* The change of a transfer or of a lock, where the venue holds h before and g after it,
\* and t and u is what is told twice.
LEMMA ChangeAgrees ==
  ASSUME NEW w \in World, NEW h \in Held, NEW g \in Held,
         NEW t \in [Asset -> Int], NEW u \in [Asset -> Int], NEW e \in BalanceUpdate,
         NEW a \in Asset, a = e.asset,
         \A x \in Asset \ {a} : g.free[x] + u[x] = h.free[x] + t[x] /\ g.locked[x] = h.locked[x],
         e.kind = "free" =>
           g.free[a] + u[a] = h.free[a] + t[a] + Value(e.delta) /\ g.locked[a] = h.locked[a],
         e.kind = "locked" =>
           g.free[a] + u[a] = h.free[a] + t[a] /\ g.locked[a] = h.locked[a] + Value(e.delta),
         \A x \in w.told : AssetAgrees(w, h, t, x)
  PROVE  \A x \in Step(w, e).told : AssetAgrees(Step(w, e), g, u, x)
<1> DEFINE b == w.book.balances
           c == Step(w, e).book.balances
<1>1. Step(w, e).told = w.told /\ w.told \subseteq Asset /\ e.kind \in {"free", "locked"}
  BY StepChange DEF World, BalanceUpdate
<1>2. /\ DOMAIN b \subseteq DOMAIN c
      /\ \A x \in DOMAIN b \ {a} : c[x] = b[x]
      /\ a \in DOMAIN b =>
           /\ e.kind = "free" =>
                Value(c[a].free) = Value(b[a].free) + Value(e.delta) /\ c[a].locked = b[a].locked
           /\ e.kind = "locked" =>
                Value(c[a].locked) = Value(b[a].locked) + Value(e.delta) /\ c[a].free = b[a].free
  BY ChangeMoves
<1>3. \A x \in w.told : /\ x \in DOMAIN b
                        /\ Value(b[x].free) = h.free[x] + t[x]
                        /\ Value(b[x].locked) = h.locked[x]
  BY DEF AssetAgrees
<1> HIDE DEF b, c
<1>4. ASSUME NEW x \in w.told
      PROVE  x \in DOMAIN c /\ Value(c[x].free) = g.free[x] + u[x] /\ Value(c[x].locked) = g.locked[x]
  <2>1. /\ x \in DOMAIN b /\ x \in DOMAIN c
        /\ Value(b[x].free) = h.free[x] + t[x] /\ Value(b[x].locked) = h.locked[x]
    BY <1>2, <1>3
  <2>2. CASE x # a
    BY <1>1, <1>2, <2>1, <2>2
  <2>3. CASE x = a /\ e.kind = "free"
    BY <1>2, <2>1, <2>3
  <2>4. CASE x = a /\ e.kind = "locked"
    BY <1>2, <2>1, <2>4
  <2> QED
    BY <1>1, <2>2, <2>3, <2>4
<1> QED
  BY <1>1, <1>4 DEF AssetAgrees, c

LEMMA LockDelivered ==
  ASSUME Typed, NEW w \in World, Agrees(w, held, twice),
         NEW a \in Asset, NEW delta \in Int, TellLock(a, delta), NEW text \in Texts(delta)
  PROVE  Agrees(Step(w, [kind |-> "locked", asset |-> a, delta |-> text]), held', twice')
<1> DEFINE e == [kind |-> "locked", asset |-> a, delta |-> text]
<1>1. e \in BalanceUpdate /\ e.kind = "locked" /\ e.asset = a /\ Value(e.delta) = delta
  BY TextsType DEF BalanceUpdate
<1> HIDE DEF e
<1>2. /\ held' \in Held /\ held'.orders = held.orders /\ held'.free = held.free
      /\ held'.locked = [held.locked EXCEPT ![a] = @ + delta]
      /\ twice' = twice /\ twice \in [Asset -> Int] /\ held \in Held
  BY LockTold DEF Typed
<1>3. held'.locked[a] = held.locked[a] + delta /\ \A x \in Asset \ {a} : held'.locked[x] = held.locked[x]
  BY <1>2 DEF Held, Amounts
<1>4. \A x \in w.told : AssetAgrees(w, held, twice, x)
  BY DEF Agrees
<1>5. \A x \in Step(w, e).told : AssetAgrees(Step(w, e), held', twice', x)
  BY <1>1, <1>2, <1>3, <1>4, ChangeAgrees, ZenonT(40)
<1>6. Step(w, e).book.open_orders = w.book.open_orders
  BY <1>1, StepChange
<1> QED
  BY <1>2, <1>5, <1>6, SameOrders DEF e

LEMMA TransferDelivered ==
  ASSUME Typed, NEW w \in World, Agrees(w, held, twice),
         NEW a \in Asset, NEW delta \in Int, NEW how, TellTransfer(a, delta, how),
         NEW text \in Texts(delta), NEW p \in PositionsOf({a}, held'),
         NEW e, e = [kind |-> "free", asset |-> a, delta |-> text]
  PROVE  /\ twice' = twice => Agrees(Step(w, e), held', twice')
         /\ twice' = [twice EXCEPT ![a] = 0] => Agrees(Step(Step(w, e), p), held', twice')
         /\ twice' = [twice EXCEPT ![a] = delta] => Agrees(Step(Step(w, p), e), held', twice')
<1>1. e \in BalanceUpdate /\ e.kind = "free" /\ e.asset = a /\ Value(e.delta) = delta
  BY TextsType DEF BalanceUpdate
<1>2. /\ held' \in Held /\ held'.orders = held.orders /\ held'.locked = held.locked
      /\ held'.free = [held.free EXCEPT ![a] = @ + delta]
      /\ twice \in [Asset -> Int] /\ held \in Held
  BY TransferTold DEF Typed
<1>3. /\ held'.free[a] = held.free[a] + delta
      /\ \A x \in Asset \ {a} : held'.free[x] = held.free[x]
      /\ \A x \in Asset : held.free[x] \in Int /\ held'.free[x] \in Int /\ twice[x] \in Int
  BY <1>2, BoundsAssumption DEF Held, Amounts
<1>4. \A x \in w.told : AssetAgrees(w, held, twice, x)
  BY DEF Agrees
<1>5. p \in Position /\ DOMAIN p.balances = {a}
  <2>1. held'.free \in Amounts /\ held'.locked \in Amounts
    BY <1>2 DEF Held
  <2> QED
    BY <2>1, PositionType
<1>6. e \in Frame /\ p \in Frame
  BY <1>1, <1>5 DEF Frame, Event
<1>7. \A v \in World : Step(v, e) \in World /\ Step(v, p) \in World
  BY <1>6, StepType
<1>8. \A v \in World : /\ Step(v, e).told = v.told
                       /\ Step(v, e).book.open_orders = v.book.open_orders
                       /\ Step(v, p).book.open_orders = v.book.open_orders
  BY <1>1, <1>5, StepChange, StepPosition
<1>9. \A x \in Step(w, e).told : AssetAgrees(Step(w, e), held', twice, x)
  <2>1. /\ \A x \in Asset \ {a} : /\ held'.free[x] + twice[x] = held.free[x] + twice[x]
                                  /\ held'.locked[x] = held.locked[x]
        /\ held'.free[a] + twice[a] = held.free[a] + twice[a] + Value(e.delta)
        /\ held'.locked[a] = held.locked[a]
    BY <1>1, <1>2, <1>3
  <2>2. e.kind # "locked"
    BY <1>1
  <2> QED
    BY <1>1, <1>2, <1>4, <2>1, <2>2, ChangeAgrees
<1>10. ASSUME twice' = twice PROVE Agrees(Step(w, e), held', twice')
  BY <1>2, <1>8, <1>9, <1>10, SameOrders
<1>11. ASSUME twice' = [twice EXCEPT ![a] = 0] PROVE Agrees(Step(Step(w, e), p), held', twice')
  <2> DEFINE v == Step(w, e)
  <2>1. v \in World /\ v.book.open_orders = w.book.open_orders
    BY <1>7, <1>8
  <2>2. /\ twice' \in [Asset -> Int] /\ \A x \in {a} : twice'[x] = 0
        /\ \A x \in Asset \ {a} : twice'[x] = twice[x]
    BY <1>2, <1>11
  <2>3. v.told \subseteq Asset /\ \A x \in v.told : AssetAgrees(v, held', twice, x)
    BY <1>9, <2>1 DEF World
  <2> HIDE DEF v
  <2>4. \A x \in v.told \ {a} : AssetAgrees(v, held', twice', x)
    BY <2>2, <2>3 DEF AssetAgrees
  <2>5. \A x \in Step(v, p).told : AssetAgrees(Step(v, p), held', twice', x)
    BY <1>2, <2>1, <2>2, <2>4, PositionAgrees
  <2>6. Step(v, p).book.open_orders = w.book.open_orders
    BY <1>8, <2>1
  <2> QED
    BY <1>2, <2>5, <2>6, SameOrders DEF v
<1>12. ASSUME twice' = [twice EXCEPT ![a] = delta] PROVE Agrees(Step(Step(w, p), e), held', twice')
  <2> DEFINE v == Step(w, p)
             t == [twice EXCEPT ![a] = 0]
  <2>1. v \in World /\ v.book.open_orders = w.book.open_orders
    BY <1>7, <1>8
  <2>2. /\ t \in [Asset -> Int] /\ t[a] = 0 /\ \A x \in {a} : t[x] = 0
        /\ \A x \in Asset \ {a} : t[x] = twice[x]
    BY <1>2
  <2>3. /\ twice' \in [Asset -> Int] /\ twice'[a] = delta
        /\ \A x \in Asset \ {a} : twice'[x] = twice[x]
    BY <1>2, <1>12
  <2> HIDE DEF t
  <2>4. ASSUME NEW x \in w.told \ {a} PROVE AssetAgrees(w, held', t, x)
    <3>1. x \in Asset /\ AssetAgrees(w, held, twice, x)
      BY <1>4 DEF World
    <3>2. held'.free[x] = held.free[x] /\ held'.locked[x] = held.locked[x] /\ t[x] = twice[x]
      BY <1>2, <1>3, <2>2, <2>4, <3>1
    <3> QED
      BY <3>1, <3>2 DEF AssetAgrees
  <2>5. \A x \in v.told : AssetAgrees(v, held', t, x)
    BY <1>2, <2>2, <2>4, PositionAgrees
  <2> HIDE DEF v
  <2>6. /\ \A x \in Asset \ {a} : held'.free[x] + twice'[x] = held'.free[x] + t[x]
        /\ held'.free[a] + twice'[a] = held'.free[a] + t[a] + Value(e.delta)
    <3>1. held'.free[a] + delta = held'.free[a] + 0 + delta
      BY <1>3
    <3> QED
      BY <1>1, <2>2, <2>3, <3>1
  <2>7. \A x \in Step(v, e).told : AssetAgrees(Step(v, e), held', twice', x)
    <3>1. e.kind # "locked" /\ \A x \in Asset : held'.locked[x] = held'.locked[x]
      BY <1>1
    <3> QED
      BY <1>1, <1>2, <2>1, <2>2, <2>3, <2>5, <2>6, <3>1, ChangeAgrees, ZenonT(40)
  <2>8. Step(v, e).book.open_orders = w.book.open_orders
    BY <1>8, <2>1
  <2> QED
    BY <1>2, <2>7, <2>8, SameOrders DEF v
<1> QED
  BY <1>10, <1>11, <1>12

-----------------------------------------------------------------------------
\* Where the account stands, and that it ends at the same place.

LEMMA NowType == Typed => Now \in World
<1> SUFFICES ASSUME Typed PROVE Now \in World
  OBVIOUS
<1> DEFINE told == {a \in Asset : Positions(Log, a) # {}}
<1>1. told \in SUBSET Asset /\ Now = [book |-> account, told |-> told] /\ account \in AccountBook
  BY DEF Now, Typed
<1> HIDE DEF told
<1> QED
  BY <1>1 DEF World

LEMMA OneMore ==
  ASSUME Typed, NEW f \in Frame, Tell(<<f>>)
  PROVE  After(Now, socket)' = Step(After(Now, socket), f)
<1>1. socket' = Append(socket, f) /\ socket \in Seq(Frame)
  BY DEF Tell, Typed
<1>2. Now' = Now
  BY DEF Tell, Now, Log
<1>3. Now \in World
  BY NowType
<1>4. After(Now, Append(socket, f)) = Step(After(Now, socket), f)
  BY <1>1, <1>3, AfterAppend
<1> QED
  BY <1>1, <1>2, <1>4 DEF After, Replayed

LEMMA TwoMore ==
  ASSUME Typed, NEW f \in Frame, NEW g \in Frame, Tell(<<f, g>>)
  PROVE  After(Now, socket)' = Step(Step(After(Now, socket), f), g)
<1>1. /\ socket' = Append(Append(socket, f), g)
      /\ socket \in Seq(Frame) /\ Append(socket, f) \in Seq(Frame)
  BY DEF Tell, Typed
<1>2. Now' = Now
  BY DEF Tell, Now, Log
<1>3. Now \in World
  BY NowType
<1>4. /\ After(Now, Append(socket, f)) = Step(After(Now, socket), f)
      /\ After(Now, Append(Append(socket, f), g)) = Step(After(Now, Append(socket, f)), g)
  BY <1>1, <1>3, AfterAppend
<1> QED
  BY <1>1, <1>2, <1>4 DEF After, Replayed

LEMMA VenueDelivers == Typed /\ Delivery /\ Venue => Delivery'
<1> SUFFICES ASSUME Typed, Delivery, Venue PROVE Delivery'
  OBVIOUS
<1> DEFINE w == After(Now, socket)
<1>1. w \in World /\ Agrees(w, held, twice)
  BY NowType, AfterType DEF Delivery, Typed
<1>2. ASSUME NEW x, After(Now, socket)' = x, Agrees(x, held', twice') PROVE Delivery'
  BY <1>2 DEF Delivery
<1> HIDE DEF w
<1>3. ASSUME NEW o \in Order, NEW s \in Status, TellOrder(o, s) PROVE Delivery'
  <2> DEFINE e == [kind |-> "report", order |-> o, status |-> s]
  <2>1. e \in Frame /\ Tell(<<e>>)
    BY <1>3, OrderTold, ReportType DEF Frame
  <2>2. Agrees(Step(w, e), held', twice')
    BY <1>1, <1>3, ReportAgrees
  <2> HIDE DEF e
  <2> QED
    BY <1>2, <2>1, <2>2, OneMore DEF w
<1>4. ASSUME NEW a \in Asset, NEW told \in SUBSET Asset, a \in told, TellPosition(a, told)
      PROVE  Delivery'
  <2>1. PICK p \in PositionsOf(told, held') : Tell(<<p>>)
    BY <1>4, PositionTold
  <2>2. p \in Frame
    <3>1. held'.free \in Amounts /\ held'.locked \in Amounts
      BY <1>4, PositionTold DEF Held
    <3> QED
      BY <3>1, PositionType DEF Frame, Event
  <2>3. Agrees(Step(w, p), held', twice')
    BY <1>1, <1>4, PositionDelivered
  <2> QED
    BY <1>2, <2>1, <2>2, <2>3, OneMore DEF w
<1>5. ASSUME NEW a \in Asset, NEW delta \in Int, NEW how, TellTransfer(a, delta, how) PROVE Delivery'
  <2>1. PICK text \in Texts(delta), p \in PositionsOf({a}, held') :
          LET update == [kind |-> "free", asset |-> a, delta |-> text] IN
          \/ Tell(<<update>>) /\ twice' = twice
          \/ Tell(<<update, p>>) /\ twice' = [twice EXCEPT ![a] = 0]
          \/ Tell(<<p, update>>) /\ twice' = [twice EXCEPT ![a] = delta]
    BY <1>5, TransferTold
  <2> DEFINE e == [kind |-> "free", asset |-> a, delta |-> text]
  <2>2. e \in Frame
    BY ChangeType, TextsType DEF Frame
  <2>3. p \in Frame
    <3>1. held'.free \in Amounts /\ held'.locked \in Amounts
      BY <1>5, TransferTold DEF Held
    <3> QED
      BY <3>1, PositionType DEF Frame, Event
  <2>4. /\ twice' = twice => Agrees(Step(w, e), held', twice')
        /\ twice' = [twice EXCEPT ![a] = 0] => Agrees(Step(Step(w, e), p), held', twice')
        /\ twice' = [twice EXCEPT ![a] = delta] => Agrees(Step(Step(w, p), e), held', twice')
    BY <1>1, <1>5, TransferDelivered
  <2>5. \/ Tell(<<e>>) /\ twice' = twice
        \/ Tell(<<e, p>>) /\ twice' = [twice EXCEPT ![a] = 0]
        \/ Tell(<<p, e>>) /\ twice' = [twice EXCEPT ![a] = delta]
    BY <2>1
  <2> HIDE DEF e
  <2>6. CASE Tell(<<e>>) /\ twice' = twice
    BY <1>2, <2>2, <2>4, <2>6, OneMore DEF w
  <2>7. CASE Tell(<<e, p>>) /\ twice' = [twice EXCEPT ![a] = 0]
    BY <1>2, <2>2, <2>3, <2>4, <2>7, TwoMore DEF w
  <2>8. CASE Tell(<<p, e>>) /\ twice' = [twice EXCEPT ![a] = delta]
    BY <1>2, <2>2, <2>3, <2>4, <2>8, TwoMore DEF w
  <2> QED
    BY <2>5, <2>6, <2>7, <2>8
<1>6. ASSUME NEW a \in Asset, NEW delta \in Int, TellLock(a, delta) PROVE Delivery'
  <2>1. PICK text \in Texts(delta) : Tell(<<[kind |-> "locked", asset |-> a, delta |-> text]>>)
    BY <1>6, LockTold
  <2> DEFINE e == [kind |-> "locked", asset |-> a, delta |-> text]
  <2>2. e \in Frame
    BY ChangeType, TextsType DEF Frame
  <2>3. Agrees(Step(w, e), held', twice')
    BY <1>1, <1>6, LockDelivered
  <2>4. Tell(<<e>>)
    BY <2>1
  <2> HIDE DEF e
  <2> QED
    BY <1>2, <2>2, <2>3, <2>4, OneMore DEF w
<1>7. ASSUME TellOther PROVE Delivery'
  <2>1. PICK f \in Marker \cup Ignored : Tell(<<f>>)
    BY <1>7 DEF TellOther
  <2>2. f \in Frame
    BY DEF Frame, Event
  <2>3. held' = held /\ twice' = twice
    BY <1>7 DEF TellOther
  <2>4. Step(w, f).told = w.told /\ Step(w, f).book = w.book
    BY <1>1, StepOther
  <2>5. Agrees(Step(w, f), held', twice')
    BY <1>1, <2>3, <2>4 DEF Agrees, AssetAgrees, OrderAgrees
  <2> QED
    BY <1>2, <2>1, <2>2, <2>5, OneMore DEF w
<1> QED
  <2>1. -MaxAmount \in Int /\ MaxAmount \in Int
    BY BoundsAssumption
  <2> QED
    BY <1>3, <1>4, <1>5, <1>6, <1>7, <2>1 DEF Venue

\* What was on the socket is in the account.
LEMMA Consumed ==
  ASSUME Typed, socket # <<>>, socket' = Tail(socket), Now' = Step(Now, Head(socket))
  PROVE  After(Now, socket)' = After(Now, socket)
<1>1. After(Now, socket) = After(Step(Now, Head(socket)), Tail(socket))
  BY NowType, AfterTail DEF Typed
<1> QED
  BY <1>1 DEF After, Replayed

LEMMA ClientDelivers == Typed /\ Delivery /\ (DropFrame \/ Apply \/ Forward) => Delivery'
<1> SUFFICES ASSUME Typed, Delivery, DropFrame \/ Apply \/ Forward PROVE Delivery'
  OBVIOUS
<1>1. held' = held /\ twice' = twice
  BY DEF DropFrame, Apply, Forward
<1>2. CASE DropFrame
  <2>1. Now' = Now
    BY <1>2 DEF DropFrame, Now, Log
  <2>2. Step(Now, Head(socket)) = Now
    BY <1>2 DEF DropFrame, Step
  <2>3. After(Now, socket)' = After(Now, socket)
    BY <1>2, <2>1, <2>2, Consumed DEF DropFrame
  <2> QED
    BY <1>1, <2>3 DEF Delivery
<1>3. CASE Apply
  <2> DEFINE e == Head(socket)
  <2>1. /\ applying = Nothing /\ applying' = e /\ e \in Event
        /\ outbound' = outbound /\ outbound \in Seq(Event)
        /\ account' = ApplyEvent(account, e) /\ ~ Dropped(e)
    BY <1>3 DEF Apply, Typed, Dropped, Frame
  <2> HIDE DEF e
  <2>2. Log = outbound /\ Log' = Append(outbound, e)
    <3>1. e # Nothing
      BY <2>1, Kinds
    <3> QED
      BY <2>1, <3>1 DEF Log
  <2>3. ASSUME NEW a \in Asset
        PROVE  Positions(Append(outbound, e), a) # {} <=>
                 Positions(outbound, a) # {} \/ (e.kind = "position" /\ a \in DOMAIN e.balances)
    <3>1. /\ Len(outbound) \in Nat /\ DOMAIN outbound = 1..Len(outbound)
          /\ DOMAIN Append(outbound, e) = 1..(Len(outbound) + 1)
          /\ Append(outbound, e)[Len(outbound) + 1] = e
          /\ \A i \in 1..Len(outbound) : Append(outbound, e)[i] = outbound[i]
      BY <2>1
    <3> HIDE DEF e
    <3>2. Positions(Append(outbound, e), a) =
            Positions(outbound, a)
              \cup {i \in {Len(outbound) + 1} : e.kind = "position" /\ a \in DOMAIN e.balances}
      BY <3>1 DEF Positions
    <3> QED
      BY <3>2
  <2>4. e.kind = "position" => DOMAIN e.balances \subseteq Asset
    BY <2>1, Kinds, BalancesAre DEF Position
  <2>5. Now' = Step(Now, e)
    <3>1. {a \in Asset : Positions(Append(outbound, e), a) # {}} =
            {a \in Asset : Positions(outbound, a) # {}}
              \cup IF e.kind = "position" THEN DOMAIN e.balances ELSE {}
      BY <2>3, <2>4
    <3>2. Now' = [book |-> account', told |-> {a \in Asset : Positions(Append(outbound, e), a) # {}}]
      BY <2>2 DEF Now, Positions
    <3>3. Now = [book |-> account, told |-> {a \in Asset : Positions(outbound, a) # {}}]
      BY <2>2 DEF Now
    <3> QED
      BY <2>1, <3>1, <3>2, <3>3 DEF Step
  <2>6. After(Now, socket)' = After(Now, socket)
    BY <1>3, <2>5, Consumed DEF Apply, e
  <2> QED
    BY <1>1, <2>6 DEF Delivery
<1>4. CASE Forward
  <2>1. Log' = Log
    BY <1>4 DEF Forward, Log
  <2>2. Now' = Now /\ socket' = socket
    BY <1>4, <2>1 DEF Forward, Now, Positions
  <2> QED
    BY <1>1, <2>2 DEF Delivery, After, Replayed
<1> QED
  BY <1>2, <1>3, <1>4

LEMMA DeliveryInit == Init => Delivery
<1> SUFFICES ASSUME Init PROVE Delivery
  OBVIOUS
<1>1. socket = <<>> /\ Typed
  BY TypedInit DEF Init
<1>2. After(Now, socket) = Now
  BY <1>1, NowType, AfterType DEF Typed
<1>3. Log = <<>>
  BY DEF Init, Log
<1>4. Now.told = {}
  BY <1>3 DEF Now, Positions
<1>5. Now.book.open_orders = Empty /\ held.orders = Empty
  BY DEF Now, Init
<1> QED
  BY <1>2, <1>4, <1>5 DEF Delivery, Agrees, OrderAgrees, Empty

LEMMA DeliveryStep == Typed /\ Delivery /\ [Next]_vars => Delivery'
<1>1. ASSUME Typed, Delivery, UNCHANGED vars PROVE Delivery'
  <2>1. UNCHANGED <<held, twice, socket, applying, account, outbound>>
    BY <1>1 DEF vars
  <2>2. Log' = Log
    BY <2>1 DEF Log
  <2>3. Now' = Now
    BY <2>1, <2>2 DEF Now, Positions
  <2> QED
    BY <1>1, <2>1, <2>3 DEF Delivery, After, Replayed
<1> QED
  BY <1>1, VenueDelivers, ClientDelivers DEF Next

(***************************************************************************)
(* The inductive invariant: the types, and that the account will be the    *)
(* venue's once the frames of the socket have been applied.                *)
(***************************************************************************)
THEOREM Invariance == Spec => []IInv
<1>1. Typed /\ Delivery /\ [Next]_vars => (Typed /\ Delivery)'
  BY TypedStep, DeliveryStep
<1>2. Typed /\ Delivery <=> IInv
  BY TypeIs DEF IInv
<1> QED
  BY <1>1, <1>2, TypedInit, DeliveryInit, PTL DEF Spec

(***************************************************************************)
(* What has been ingested is what the venue holds, but for transfers that  *)
(* were told twice: DrainedIsVenue in every reachable state.               *)
(***************************************************************************)
THEOREM IngestedIsVenue == Spec => []DrainedIsVenue
<1>1. IInv => DrainedIsVenue
  <2> SUFFICES ASSUME IInv, socket = <<>> PROVE DrainedIsVenue
    BY DEF DrainedIsVenue
  <2>1. After(Now, socket) = Now
    BY TypeIs, NowType, AfterType DEF IInv, Typed
  <2>2. Agrees(Now, held, twice)
    BY <2>1 DEF IInv, Delivery
  <2>3. Now.book = account /\ Now.told = {x \in Asset : Positions(Log, x) # {}}
    BY DEF Now
  <2> QED
    BY <2>2, <2>3 DEF DrainedIsVenue, Agrees, AssetAgrees, OrderAgrees
<1> QED
  BY <1>1, Invariance, PTL

-----------------------------------------------------------------------------
(***************************************************************************)
(* The log and what it tells: the last position, the sum of the changes    *)
(* and the last report of each key, when one more event is appended.       *)
(***************************************************************************)

LEMMA LastIndex ==
  ASSUME NEW n \in Nat, NEW S \in SUBSET (1..n)
  PROVE  /\ S = {} => LastOf(S) = 0
         /\ S # {} => LastOf(S) \in S /\ \A i \in S : i <= LastOf(S)
         /\ LastOf(S) \in 0..n
<1> DEFINE all == S \cup {0}
           M == {m \in Nat : n - m \in all}
<1>1. M # {}
  <2>1. n \in Nat /\ n - n = 0
    OBVIOUS
  <2> QED
    BY <2>1
<1>2. PICK m \in M : \A k \in M : m <= k
  <2> HIDE DEF M
  <2>1. M \subseteq Nat
    BY DEF M
  <2> QED
    BY <1>1, <2>1, Least
<1>3. \A i \in all : n - m >= i
  <2>1. ASSUME NEW i \in all PROVE n - m >= i
    <3>1. i \in 0..n /\ n - i \in Nat /\ n - (n - i) = i
      OBVIOUS
    <3>2. n - i \in M
      BY <3>1
    <3>3. m \in Nat /\ m <= n - i
      BY <1>2, <3>2
    <3> QED
      BY <3>1, <3>3
  <2> QED
    BY <2>1
<1>4. \E x \in all : \A y \in all : x >= y
  BY <1>2, <1>3
<1>5. LastOf(S) \in all /\ \A y \in all : LastOf(S) >= y
  BY <1>4 DEF LastOf, Max
<1>6. all \subseteq 0..n /\ 0 \in all
  OBVIOUS
<1>7. \A i \in S : i \in all /\ i \in Nat /\ i >= 1
  OBVIOUS
<1>8. LastOf(S) \in 0..n
  BY <1>5, <1>6
<1>9. S = {} => LastOf(S) = 0
  BY <1>5
<1>10. ASSUME S # {} PROVE LastOf(S) \in S /\ \A i \in S : i <= LastOf(S)
  <2>1. \A i \in S : LastOf(S) >= i
    BY <1>5
  <2>2. LastOf(S) \in S \/ LastOf(S) = 0
    BY <1>5
  <2>3. PICK k \in S : TRUE
    BY <1>10
  <2>4. LastOf(S) # 0
    <3>1. k \in Nat /\ k >= 1 /\ LastOf(S) >= k
      BY <1>7, <2>1
    <3> QED
      BY <3>1
  <2>5. \A i \in S : i <= LastOf(S)
    <3> SUFFICES ASSUME NEW i \in S PROVE i <= LastOf(S)
      OBVIOUS
    <3>1. i \in Nat /\ LastOf(S) >= i /\ LastOf(S) \in 0..n
      BY <1>7, <1>8, <2>1
    <3> QED
      BY <3>1
  <2> QED
    BY <2>2, <2>4, <2>5
<1> QED
  BY <1>8, <1>9, <1>10

LEMMA LastAdded ==
  ASSUME NEW n \in Nat, NEW S \in SUBSET (1..n)
  PROVE  LastOf(S \cup {n + 1}) = n + 1
<1>1. S \cup {n + 1} \in SUBSET (1..(n + 1)) /\ n + 1 \in Nat
  OBVIOUS
<1>2. n + 1 <= LastOf(S \cup {n + 1}) /\ LastOf(S \cup {n + 1}) \in 0..(n + 1)
  BY <1>1, LastIndex
<1> QED
  BY <1>2

LEMMA Appended ==
  ASSUME NEW log \in Seq(Event), NEW e \in Event
  PROVE  LET more == Append(log, e)
             n == Len(log)
         IN
         /\ n \in Nat /\ DOMAIN log = 1..n /\ DOMAIN more = 1..(n + 1) /\ Len(more) = n + 1
         /\ more \in Seq(Event) /\ more[n + 1] = e
         /\ \A i \in 1..n : more[i] = log[i] /\ log[i] \in Event
OBVIOUS

LEMMA MorePositions ==
  ASSUME NEW log \in Seq(Event), NEW e \in Event, NEW a
  PROVE  /\ Positions(log, a) \in SUBSET (1..Len(log))
         /\ IF e.kind = "position" /\ a \in DOMAIN e.balances
            THEN Positions(Append(log, e), a) = Positions(log, a) \cup {Len(log) + 1}
            ELSE Positions(Append(log, e), a) = Positions(log, a)
<1> DEFINE more == Append(log, e)
<1>1. /\ Len(log) \in Nat /\ DOMAIN log = 1..Len(log) /\ DOMAIN more = 1..(Len(log) + 1)
      /\ more[Len(log) + 1] = e /\ \A i \in 1..Len(log) : more[i] = log[i]
  BY Appended
<1> HIDE DEF more
<1>2. Positions(more, a) = Positions(log, a)
        \cup {i \in {Len(log) + 1} : e.kind = "position" /\ a \in DOMAIN e.balances}
  BY <1>1 DEF Positions
<1> QED
  BY <1>1, <1>2 DEF Positions, more

LEMMA MoreDeltas ==
  ASSUME NEW log \in Seq(Event), NEW e \in Event, NEW a, NEW field
  PROVE  Deltas(Append(log, e), a, field) =
           Deltas(log, a, field) \cup {i \in {Len(log) + 1} : IsDelta(e, a, field)}
<1> DEFINE more == Append(log, e)
<1>1. /\ Len(log) \in Nat /\ DOMAIN log = 1..Len(log) /\ DOMAIN more = 1..(Len(log) + 1)
      /\ more[Len(log) + 1] = e /\ \A i \in 1..Len(log) : more[i] = log[i]
  BY Appended
<1> HIDE DEF more
<1>2. Deltas(more, a, field) =
        Deltas(log, a, field) \cup {i \in {Len(log) + 1} : IsDelta(e, a, field)}
  BY <1>1 DEF Deltas
<1> QED
  BY <1>2 DEF more

LEMMA MoreReports ==
  ASSUME NEW log \in Seq(Event), NEW e \in Event, NEW o
  PROVE  /\ Reports(log, o) \in SUBSET (1..Len(log))
         /\ IF e.kind = "report" /\ e.order = o
            THEN Reports(Append(log, e), o) = Reports(log, o) \cup {Len(log) + 1}
            ELSE Reports(Append(log, e), o) = Reports(log, o)
<1> DEFINE more == Append(log, e)
<1>1. /\ Len(log) \in Nat /\ DOMAIN log = 1..Len(log) /\ DOMAIN more = 1..(Len(log) + 1)
      /\ more[Len(log) + 1] = e /\ \A i \in 1..Len(log) : more[i] = log[i]
  BY Appended
<1> HIDE DEF more
<1>2. Reports(more, o) = Reports(log, o)
        \cup {i \in {Len(log) + 1} : e.kind = "report" /\ e.order = o}
  BY <1>1 DEF Reports
<1> QED
  BY <1>1, <1>2 DEF Reports, more

\* What an event adds to a sum of changes.
Added(e, a, field) == IF IsDelta(e, a, field) THEN Value(e.delta) ELSE 0

LEMMA AddedType ==
  ASSUME NEW e \in Event, NEW a, NEW field \in {"free", "locked"}
  PROVE  Added(e, a, field) \in Int
<1>1. IsDelta(e, a, field) => e.delta \in Decimal
  BY Kinds DEF IsDelta, BalanceUpdate
<1> QED
  BY <1>1, ValueType DEF Added

LEMMA Summed ==
  ASSUME NEW log \in Seq(Event), NEW a, NEW field \in {"free", "locked"}
  PROVE  /\ Totals(log, a, field)[0] = 0
         /\ \A i \in 1..Len(log) :
              Totals(log, a, field)[i] = Totals(log, a, field)[i - 1] + Added(log[i], a, field)
         /\ \A i \in 0..Len(log) : Totals(log, a, field)[i] \in Int
<1> DEFINE N == Len(log)
           add(i) == Added(log[i], a, field)
           step == [x \in Nat \X Int |-> IF x[1] \in 1..N THEN x[2] + add(x[1]) ELSE x[2]]
           Is(g) == g = [n \in 0..N |-> IF n = 0 THEN 0 ELSE g[n - 1] + add(n)]
           t == Totals(log, a, field)
<1>0. N \in Nat /\ \A i \in 1..N : add(i) \in Int
  <2>1. \A i \in 1..N : log[i] \in Event
    OBVIOUS
  <2> QED
    BY <2>1, AddedType
<1> HIDE DEF add
<1>1. step \in [Nat \X Int -> Int]
  BY <1>0
<1>2. PICK f : Iterates(f, N, Int, 0, step)
  <2>1. 0 \in Int
    OBVIOUS
  <2> HIDE DEF step, N
  <2> QED
    BY <1>0, <1>1, <2>1, Iterated
<1>3. f \in [0..N -> Int] /\ f[0] = 0 /\ \A i \in 1..N : f[i] = f[i - 1] + add(i)
  <2>1. f \in [0..N -> Int] /\ f[0] = 0
    BY <1>2 DEF Iterates
  <2>2. ASSUME NEW i \in 1..N PROVE f[i] = f[i - 1] + add(i)
    <3>1. i \in Nat /\ i - 1 \in 0..N
      BY <1>0
    <3>2. <<i, f[i - 1]>> \in Nat \X Int
      BY <2>1, <3>1
    <3>3. f[i] = step[<<i, f[i - 1]>>]
      BY <1>2 DEF Iterates
    <3> QED
      BY <3>2, <3>3
  <2> QED
    BY <2>1, <2>2
<1>4. Is(f)
  <2>1. \A n \in 0..N : f[n] = IF n = 0 THEN 0 ELSE f[n - 1] + add(n)
    <3>1. \A n \in 0..N : n = 0 \/ n \in 1..N
      BY <1>0
    <3> QED
      BY <1>3, <3>1
  <2>2. f = [n \in 0..N |-> f[n]]
    BY <1>3
  <2> QED
    BY <2>1, <2>2
<1>5. Is(t)
  <2>1. t = CHOOSE g : Is(g)
    BY DEF Totals, Added, add
  <2> HIDE DEF Is, t
  <2> QED
    BY <1>4, <2>1
<1>6. t[0] = 0 /\ \A i \in 1..N : t[i] = t[i - 1] + add(i)
  <2>1. 0 \in 0..N /\ \A i \in 1..N : i \in 0..N /\ i # 0
    BY <1>0
  <2> HIDE DEF t
  <2> QED
    BY <1>5, <2>1
<1> HIDE DEF t, N, Is, step
<1>7. \A i \in 0..N : t[i] = f[i]
  <2>1. InStep(t, f, N)
    BY <1>3, <1>6 DEF InStep
  <2> QED
    BY <1>0, <2>1, SameSteps
<1>8. \A i \in 0..N : t[i] \in Int
  BY <1>3, <1>7
<1> QED
  BY <1>6, <1>8 DEF t, N, add

LEMMA MoreSummed ==
  ASSUME NEW log \in Seq(Event), NEW e \in Event, NEW a, NEW field \in {"free", "locked"}
  PROVE  LET t == Totals(log, a, field)
             u == Totals(Append(log, e), a, field)
         IN
         /\ \A i \in 0..Len(log) : u[i] = t[i]
         /\ u[Len(log) + 1] = t[Len(log)] + Added(e, a, field)
<1> DEFINE n == Len(log)
           more == Append(log, e)
           t == Totals(log, a, field)
           u == Totals(more, a, field)
<1>1. /\ n \in Nat /\ more \in Seq(Event) /\ Len(more) = n + 1 /\ more[n + 1] = e
      /\ \A i \in 1..n : more[i] = log[i]
  BY Appended
<1>2. /\ t[0] = 0 /\ u[0] = 0
      /\ \A i \in 1..n : t[i] = t[i - 1] + Added(log[i], a, field)
      /\ \A i \in 1..(n + 1) : u[i] = u[i - 1] + Added(more[i], a, field)
  <2> HIDE DEF more
  <2> QED
    BY <1>1, Summed
<1> HIDE DEF n, more, t, u
<1>3. \A i \in 0..n : u[i] = t[i]
  <2>1. InStep(u, t, n)
    BY <1>1, <1>2 DEF InStep
  <2> QED
    BY <1>1, <2>1, SameSteps
<1>4. u[n + 1] = u[n] + Added(e, a, field)
  <2>1. n + 1 \in 1..(n + 1) /\ (n + 1) - 1 = n
    BY <1>1
  <2>2. u[n + 1] = u[(n + 1) - 1] + Added(more[n + 1], a, field)
    BY <1>2, <2>1
  <2> QED
    BY <1>1, <2>1, <2>2
<1>5. u[n] = t[n]
  BY <1>1, <1>3
<1> QED
  BY <1>3, <1>4, <1>5 DEF n, more, t, u

\* A log without changes of an amount sums to nothing.
LEMMA NothingSummed ==
  ASSUME NEW log \in Seq(Event), NEW a, NEW field \in {"free", "locked"}, Deltas(log, a, field) = {}
  PROVE  \A i \in 0..Len(log) : Totals(log, a, field)[i] = 0
<1> DEFINE n == Len(log)
           t == Totals(log, a, field)
           z == [i \in 0..n |-> 0]
<1>1. n \in Nat /\ DOMAIN log = 1..n
  OBVIOUS
<1>2. \A i \in 1..n : Added(log[i], a, field) = 0
  BY <1>1 DEF Added, Deltas
<1>3. t[0] = 0 /\ \A i \in 1..n : t[i] = t[i - 1] + Added(log[i], a, field)
  BY Summed
<1> HIDE DEF n, t
<1>4. InStep(t, z, n)
  <2>1. \A i \in 1..n : i \in 0..n /\ i - 1 \in 0..n
    BY <1>1
  <2>2. 0 \in 0..n
    BY <1>1
  <2> QED
    BY <1>2, <1>3, <2>1, <2>2 DEF InStep
<1>5. \A i \in 0..n : t[i] = z[i]
  <2> HIDE DEF z
  <2> QED
    BY <1>1, <1>4, SameSteps
<1> QED
  BY <1>5 DEF n, t

\* What an amount comes to, with one event more.
LEMMA MoreTold ==
  ASSUME NEW log \in Seq(Event), NEW e \in Event, NEW a, NEW field \in {"free", "locked"}
  PROVE  LET more == Append(log, e) IN
         /\ ToldAmount(log, a, field) \in Int
         /\ e.kind = "position" /\ a \in DOMAIN e.balances =>
              ToldAmount(more, a, field) = Value(e.balances[a][field])
         /\ ~ (e.kind = "position" /\ a \in DOMAIN e.balances) =>
              ToldAmount(more, a, field) = ToldAmount(log, a, field) + Added(e, a, field)
<1> DEFINE n == Len(log)
           more == Append(log, e)
           t == Totals(log, a, field)
           u == Totals(more, a, field)
           base == LastOf(Positions(log, a))
           last == LastOf(Positions(more, a))
           start == IF base = 0 THEN 0 ELSE Value(log[base].balances[a][field])
<1>1. /\ n \in Nat /\ Len(more) = n + 1 /\ more[n + 1] = e /\ DOMAIN log = 1..n
      /\ \A i \in 1..n : more[i] = log[i] /\ log[i] \in Event
  BY Appended
<1>2. /\ \A i \in 0..n : t[i] \in Int /\ u[i] = t[i]
      /\ u[n + 1] = t[n] + Added(e, a, field)
  BY Summed, MoreSummed
<1>3. Positions(log, a) \in SUBSET (1..n) /\ base \in 0..n
  BY <1>1, MorePositions, LastIndex
<1>4. \A x \in Event : x.kind = "position" /\ a \in DOMAIN x.balances =>
        Value(x.balances[a][field]) \in Int
  <2>1. ASSUME NEW x \in Event, x.kind = "position", a \in DOMAIN x.balances
        PROVE  Value(x.balances[a][field]) \in Int
    <3>1. x.balances[a] \in AssetBalance
      BY <2>1, Kinds, BalancesAre DEF Position
    <3>2. x.balances[a][field] \in Decimal
      BY <3>1 DEF AssetBalance
    <3> QED
      BY <3>2, ValueType
  <2> QED
    BY <2>1
<1>5. start \in Int
  <2>1. CASE base = 0
    BY <2>1
  <2>2. CASE base # 0
    <3>1. base \in Positions(log, a)
      BY <1>1, <1>3, <2>2, LastIndex
    <3>2. base \in 1..n /\ log[base].kind = "position" /\ a \in DOMAIN log[base].balances
      BY <1>1, <3>1 DEF Positions
    <3> HIDE DEF base
    <3> QED
      BY <1>1, <1>4, <2>2, <3>2
  <2> QED
    BY <2>1, <2>2
<1>6. ToldAmount(log, a, field) = start + t[n] - t[base]
  BY DEF ToldAmount
<1>7. ToldAmount(more, a, field) =
        (IF last = 0 THEN 0 ELSE Value(more[last].balances[a][field])) + u[Len(more)] - u[last]
  BY DEF ToldAmount
<1>8. Added(e, a, field) \in Int
  BY AddedType
<1>9. CASE e.kind = "position" /\ a \in DOMAIN e.balances
  <2>1. last = n + 1
    <3>1. Positions(more, a) = Positions(log, a) \cup {n + 1}
      BY <1>9, MorePositions
    <3> QED
      BY <1>1, <1>3, <3>1, LastAdded
  <2>2. Value(e.balances[a][field]) \in Int /\ u[n + 1] \in Int
    BY <1>1, <1>2, <1>4, <1>8, <1>9
  <2>3. last # 0 /\ more[last] = e
    BY <1>1, <2>1
  <2>4. ToldAmount(log, a, field) \in Int
    BY <1>1, <1>2, <1>3, <1>5, <1>6
  <2> HIDE DEF last, more, u
  <2>5. ToldAmount(more, a, field) = Value(e.balances[a][field])
    BY <1>1, <1>7, <2>1, <2>2, <2>3
  <2> QED
    BY <1>9, <2>4, <2>5 DEF more
<1>10. CASE ~ (e.kind = "position" /\ a \in DOMAIN e.balances)
  <2>1. last = base
    BY <1>10, MorePositions
  <2>2. base # 0 => more[base] = log[base]
    BY <1>1, <1>3
  <2>3. (IF last = 0 THEN 0 ELSE Value(more[last].balances[a][field])) = start
    BY <2>1, <2>2
  <2>4. u[last] = t[base] /\ t[base] \in Int /\ t[n] \in Int /\ n \in 0..n
    BY <1>1, <1>2, <1>3, <2>1
  <2> HIDE DEF last, more, u, t, base, start
  <2>5. ToldAmount(more, a, field) = start + (t[n] + Added(e, a, field)) - t[base]
    BY <1>1, <1>2, <1>7, <2>3, <2>4
  <2>6. start + (t[n] + Added(e, a, field)) - t[base] = (start + t[n] - t[base]) + Added(e, a, field)
    BY <1>5, <1>8, <2>4
  <2> QED
    BY <1>5, <1>6, <1>10, <2>4, <2>5, <2>6 DEF more
<1> QED
  BY <1>9, <1>10

\* An asset of which nothing has been told has nothing.
LEMMA NothingTold ==
  ASSUME NEW log \in Seq(Event), NEW a, NEW field \in {"free", "locked"},
         Positions(log, a) = {}, Deltas(log, a, field) = {}
  PROVE  ToldAmount(log, a, field) = 0
<1> DEFINE t == Totals(log, a, field)
<1>1. Len(log) \in Nat /\ 0 \in 0..Len(log) /\ Len(log) \in 0..Len(log)
  OBVIOUS
<1>2. LastOf(Positions(log, a)) = 0
  BY <1>1, LastIndex
<1>3. t[Len(log)] = 0 /\ t[0] = 0
  BY <1>1, NothingSummed
<1>4. ToldAmount(log, a, field) = 0 + t[Len(log)] - t[0]
  BY <1>2 DEF ToldAmount
<1> HIDE DEF t
<1> QED
  BY <1>3, <1>4

-----------------------------------------------------------------------------
\* The outbound channel replays.

IsTold(log, a) == Positions(log, a) \cup Deltas(log, a, "free") \cup Deltas(log, a, "locked") # {}

\* The two parts of OutboundReplays, of any balances and orders and of any log.
BalancesReplayed(balances, log) ==
  /\ DOMAIN balances = {a \in Asset : IsTold(log, a)}
  /\ \A a \in DOMAIN balances : /\ Value(balances[a].free) = ToldAmount(log, a, "free")
                                /\ Value(balances[a].locked) = ToldAmount(log, a, "locked")

OrdersReplayed(open, log) ==
  open = [o \in {x \in Order : /\ Reports(log, x) # {}
                               /\ log[LastOf(Reports(log, x))].status \in OpenStatus} |->
            log[LastOf(Reports(log, o))].status]

LEMMA ReplaysIs ==
  OutboundReplays <=> /\ BalancesReplayed(account.balances, Log)
                      /\ OrdersReplayed(account.open_orders, Log)
BY DEF OutboundReplays, BalancesReplayed, OrdersReplayed, IsTold

LEMMA MoreIsTold ==
  ASSUME NEW log \in Seq(Event), NEW e \in Event, NEW a
  PROVE  IsTold(Append(log, e), a) <=> \/ IsTold(log, a)
                                       \/ e.kind = "position" /\ a \in DOMAIN e.balances
                                       \/ e.kind \in {"free", "locked"} /\ e.asset = a
<1>1. Positions(Append(log, e), a) # {} <=>
        Positions(log, a) # {} \/ (e.kind = "position" /\ a \in DOMAIN e.balances)
  BY MorePositions
<1>2. ASSUME NEW field
      PROVE  Deltas(Append(log, e), a, field) # {} <=>
               Deltas(log, a, field) # {} \/ IsDelta(e, a, field)
  <2>1. Deltas(Append(log, e), a, field) =
          Deltas(log, a, field) \cup {i \in {Len(log) + 1} : IsDelta(e, a, field)}
    BY MoreDeltas
  <2> QED
    BY <2>1
<1> QED
  BY <1>1, <1>2 DEF IsTold, IsDelta

LEMMA PositionReplayed ==
  ASSUME NEW b \in Balances, NEW log \in Seq(Event), NEW e \in Position, BalancesReplayed(b, log)
  PROVE  BalancesReplayed(ApplyPosition(b, e), Append(log, e))
<1> DEFINE c == ApplyPosition(b, e)
           more == Append(log, e)
<1>1. e \in Event /\ e.kind = "position"
  BY DEF Event, Position
<1>2. /\ DOMAIN c = DOMAIN b \cup DOMAIN e.balances
      /\ \A a \in DOMAIN e.balances : c[a] = e.balances[a]
      /\ \A a \in DOMAIN b \ DOMAIN e.balances : c[a] = b[a]
  BY PositionApplied
<1>3. DOMAIN e.balances \subseteq Asset
  BY BalancesAre DEF Position
<1>4. \A a : Added(e, a, "free") = 0 /\ Added(e, a, "locked") = 0
  BY <1>1 DEF Added, IsDelta
<1> HIDE DEF c
<1>5. DOMAIN c = {a \in Asset : IsTold(more, a)}
  <2>1. \A a : IsTold(more, a) <=> IsTold(log, a) \/ a \in DOMAIN e.balances
    BY <1>1, MoreIsTold
  <2> HIDE DEF more
  <2> QED
    BY <1>2, <1>3, <2>1 DEF BalancesReplayed
<1>6. ASSUME NEW a \in DOMAIN c
      PROVE  /\ Value(c[a].free) = ToldAmount(more, a, "free")
             /\ Value(c[a].locked) = ToldAmount(more, a, "locked")
  <2>1. CASE a \in DOMAIN e.balances
    <3>1. /\ ToldAmount(more, a, "free") = Value(e.balances[a].free)
          /\ ToldAmount(more, a, "locked") = Value(e.balances[a].locked)
      BY <1>1, <2>1, MoreTold
    <3> QED
      BY <1>2, <2>1, <3>1
  <2>2. CASE a \notin DOMAIN e.balances
    <3>1. /\ ToldAmount(more, a, "free") = ToldAmount(log, a, "free") + Added(e, a, "free")
          /\ ToldAmount(more, a, "locked") = ToldAmount(log, a, "locked") + Added(e, a, "locked")
          /\ ToldAmount(log, a, "free") \in Int /\ ToldAmount(log, a, "locked") \in Int
      BY <1>1, <2>2, MoreTold
    <3>2. c[a] = b[a] /\ a \in DOMAIN b
      BY <1>2, <1>6, <2>2
    <3>3. Value(b[a].free) = ToldAmount(log, a, "free") /\ Value(b[a].locked) = ToldAmount(log, a, "locked")
      BY <3>2 DEF BalancesReplayed
    <3> HIDE DEF more
    <3> QED
      BY <1>4, <3>1, <3>2, <3>3
  <2> QED
    BY <2>1, <2>2
<1> QED
  BY <1>5, <1>6 DEF BalancesReplayed, c

LEMMA ChangeReplayed ==
  ASSUME NEW b \in Balances, NEW log \in Seq(Event), NEW e \in BalanceUpdate, BalancesReplayed(b, log)
  PROVE  BalancesReplayed(ApplyDelta(b, e), Append(log, e))
<1> DEFINE c == ApplyDelta(b, e)
           more == Append(log, e)
<1>1. e \in Event /\ e.kind \in {"free", "locked"} /\ e.asset \in Asset
  BY DEF Event, BalanceUpdate
<1>2. /\ DOMAIN c = DOMAIN b \cup {e.asset}
      /\ \A a \in DOMAIN b \ {e.asset} : c[a] = b[a]
      /\ e.kind = "free" =>
           /\ Value(c[e.asset].free) = Value(Entry(b, e.asset).free) + Value(e.delta)
           /\ c[e.asset].locked = Entry(b, e.asset).locked
      /\ e.kind = "locked" =>
           /\ Value(c[e.asset].locked) = Value(Entry(b, e.asset).locked) + Value(e.delta)
           /\ c[e.asset].free = Entry(b, e.asset).free
  BY DeltaApplied
<1> HIDE DEF c
<1>3. DOMAIN c = {a \in Asset : IsTold(more, a)}
  <2>1. \A a : IsTold(more, a) <=> IsTold(log, a) \/ e.asset = a
    BY <1>1, MoreIsTold
  <2> HIDE DEF more
  <2> QED
    BY <1>1, <1>2, <2>1 DEF BalancesReplayed
<1>4. ASSUME NEW a
      PROVE  /\ ToldAmount(more, a, "free") = ToldAmount(log, a, "free") + Added(e, a, "free")
             /\ ToldAmount(more, a, "locked") = ToldAmount(log, a, "locked") + Added(e, a, "locked")
             /\ ToldAmount(log, a, "free") \in Int /\ ToldAmount(log, a, "locked") \in Int
  <2>1. e.kind # "position"
    BY <1>1
  <2> QED
    BY <1>1, <2>1, MoreTold
<1>5. /\ Value(Entry(b, e.asset).free) = ToldAmount(log, e.asset, "free")
      /\ Value(Entry(b, e.asset).locked) = ToldAmount(log, e.asset, "locked")
  <2>1. CASE e.asset \in DOMAIN b
    BY <2>1 DEF Entry, BalancesReplayed
  <2>2. CASE e.asset \notin DOMAIN b
    <3>1. ~ IsTold(log, e.asset)
      BY <1>1, <2>2 DEF BalancesReplayed
    <3>2. ToldAmount(log, e.asset, "free") = 0 /\ ToldAmount(log, e.asset, "locked") = 0
      BY <3>1, NothingTold DEF IsTold
    <3> QED
      BY <2>2, <3>2, ZeroText DEF Entry
  <2> QED
    BY <2>1, <2>2
<1> HIDE DEF more
<1>6. ASSUME NEW a \in DOMAIN c
      PROVE  /\ Value(c[a].free) = ToldAmount(more, a, "free")
             /\ Value(c[a].locked) = ToldAmount(more, a, "locked")
  <2>1. CASE a # e.asset
    <3>1. Added(e, a, "free") = 0 /\ Added(e, a, "locked") = 0
      BY <2>1 DEF Added, IsDelta
    <3>2. c[a] = b[a] /\ a \in DOMAIN b
      BY <1>2, <1>6, <2>1
    <3>3. Value(b[a].free) = ToldAmount(log, a, "free") /\ Value(b[a].locked) = ToldAmount(log, a, "locked")
      BY <3>2 DEF BalancesReplayed
    <3> QED
      BY <1>4, <3>1, <3>2, <3>3
  <2>2. CASE a = e.asset /\ e.kind = "free"
    <3>1. Added(e, a, "free") = Value(e.delta) /\ Added(e, a, "locked") = 0
      BY <2>2 DEF Added, IsDelta
    <3> QED
      BY <1>2, <1>4, <1>5, <2>2, <3>1
  <2>3. CASE a = e.asset /\ e.kind = "locked"
    <3>1. Added(e, a, "locked") = Value(e.delta) /\ Added(e, a, "free") = 0
      BY <2>3 DEF Added, IsDelta
    <3> QED
      BY <1>2, <1>4, <1>5, <2>3, <3>1
  <2> QED
    BY <1>1, <2>1, <2>2, <2>3
<1> QED
  BY <1>3, <1>6 DEF BalancesReplayed, c, more

LEMMA SameReplayed ==
  ASSUME NEW b \in Balances, NEW log \in Seq(Event), NEW e \in Event, BalancesReplayed(b, log),
         e.kind \notin {"position", "free", "locked"}
  PROVE  BalancesReplayed(b, Append(log, e))
<1> DEFINE more == Append(log, e)
<1>1. \A a : IsTold(more, a) <=> IsTold(log, a)
  BY MoreIsTold
<1>2. ASSUME NEW a
      PROVE  /\ ToldAmount(more, a, "free") = ToldAmount(log, a, "free")
             /\ ToldAmount(more, a, "locked") = ToldAmount(log, a, "locked")
  <2>1. /\ ToldAmount(more, a, "free") = ToldAmount(log, a, "free") + Added(e, a, "free")
        /\ ToldAmount(more, a, "locked") = ToldAmount(log, a, "locked") + Added(e, a, "locked")
        /\ ToldAmount(log, a, "free") \in Int /\ ToldAmount(log, a, "locked") \in Int
    BY MoreTold
  <2>2. Added(e, a, "free") = 0 /\ Added(e, a, "locked") = 0
    BY DEF Added, IsDelta
  <2> HIDE DEF more
  <2> QED
    BY <2>1, <2>2
<1> HIDE DEF more
<1> QED
  BY <1>1, <1>2 DEF BalancesReplayed, more

\* The last report of an order in a log, and in the log with one event more.
LastReports(log, e, more, o) ==
  /\ e.kind = "report" /\ e.order = o =>
       Reports(more, o) # {} /\ more[LastOf(Reports(more, o))] = e
  /\ ~ (e.kind = "report" /\ e.order = o) =>
       /\ Reports(more, o) = Reports(log, o)
       /\ Reports(log, o) # {} => more[LastOf(Reports(more, o))] = log[LastOf(Reports(log, o))]

LEMMA LastReport ==
  ASSUME NEW log \in Seq(Event), NEW e \in Event, NEW o
  PROVE  LastReports(log, e, Append(log, e), o)
<1> DEFINE more == Append(log, e)
           n == Len(log)
<1>1. n \in Nat /\ more[n + 1] = e /\ \A i \in 1..n : more[i] = log[i]
  BY Appended
<1>2. Reports(log, o) \in SUBSET (1..n)
  BY MoreReports
<1>3. CASE e.kind = "report" /\ e.order = o
  <2>1. Reports(more, o) = Reports(log, o) \cup {n + 1}
    BY <1>3, MoreReports
  <2>2. LastOf(Reports(more, o)) = n + 1
    BY <1>1, <1>2, <2>1, LastAdded
  <2> HIDE DEF more
  <2> QED
    BY <1>1, <1>3, <2>1, <2>2 DEF LastReports, more
<1>4. CASE ~ (e.kind = "report" /\ e.order = o)
  <2>1. Reports(more, o) = Reports(log, o)
    BY <1>4, MoreReports
  <2>2. Reports(log, o) # {} => LastOf(Reports(log, o)) \in 1..n
    BY <1>1, <1>2, LastIndex
  <2> HIDE DEF more
  <2>3. LastReports(log, e, more, o)
    BY <1>1, <1>4, <2>1, <2>2 DEF LastReports
  <2> QED
    BY <2>3 DEF more
<1> QED
  BY <1>3, <1>4

\* OrdersReplayed, order by order.
OpenIn(log, o) == Reports(log, o) # {} /\ log[LastOf(Reports(log, o))].status \in OpenStatus

LEMMA OrdersAre ==
  ASSUME NEW open \in MapsOf(Order, OpenStatus), NEW log
  PROVE  OrdersReplayed(open, log) <=>
           \A o \in Order : /\ o \in DOMAIN open <=> OpenIn(log, o)
                            /\ o \in DOMAIN open => open[o] = log[LastOf(Reports(log, o))].status
<1> DEFINE last(o) == log[LastOf(Reports(log, o))].status
           S == {x \in Order : OpenIn(log, x)}
<1>1. DOMAIN open \subseteq Order /\ open = [o \in DOMAIN open |-> open[o]]
  BY DEF MapsOf
<1>2. OrdersReplayed(open, log) <=> open = [o \in S |-> last(o)]
  BY DEF OrdersReplayed, OpenIn
<1> HIDE DEF last
<1>3. open = [o \in S |-> last(o)] <=> DOMAIN open = S /\ \A o \in S : open[o] = last(o)
  BY <1>1
<1>4. DOMAIN open = S <=> \A o \in Order : o \in DOMAIN open <=> OpenIn(log, o)
  BY <1>1
<1> QED
  BY <1>1, <1>2, <1>3, <1>4 DEF last

LEMMA ReportReplayed ==
  ASSUME NEW open \in MapsOf(Order, OpenStatus), NEW log \in Seq(Event), NEW e \in ExecutionReport,
         OrdersReplayed(open, log)
  PROVE  OrdersReplayed(ApplyReport(open, e), Append(log, e))
<1> DEFINE more == Append(log, e)
           new == ApplyReport(open, e)
<1>1. e \in Event /\ e.kind = "report"
  BY DEF Event, ExecutionReport
<1>2. new \in MapsOf(Order, OpenStatus)
  BY ReportApplied
<1> HIDE DEF new
<1>3. ASSUME NEW o
      PROVE  /\ o = e.order => Reports(more, o) # {} /\ more[LastOf(Reports(more, o))] = e
             /\ o # e.order =>
                  /\ Reports(more, o) = Reports(log, o)
                  /\ Reports(log, o) # {} =>
                       more[LastOf(Reports(more, o))] = log[LastOf(Reports(log, o))]
  <2>1. LastReports(log, e, more, o)
    BY <1>1, LastReport
  <2> HIDE DEF more
  <2> QED
    BY <1>1, <2>1 DEF LastReports
<1>4. ASSUME NEW o \in Order
      PROVE  /\ o # e.order => /\ o \in DOMAIN new <=> o \in DOMAIN open
                               /\ o \in DOMAIN open => new[o] = open[o]
             /\ e.order \in DOMAIN new <=> e.status \in OpenStatus
             /\ e.status \in OpenStatus => new[e.order] = e.status
  BY ReportApplied DEF new
<1>5. ASSUME NEW o \in Order
      PROVE  /\ o \in DOMAIN new <=> OpenIn(more, o)
             /\ o \in DOMAIN new => new[o] = more[LastOf(Reports(more, o))].status
  <2>1. /\ o \in DOMAIN open <=> OpenIn(log, o)
        /\ o \in DOMAIN open => open[o] = log[LastOf(Reports(log, o))].status
    BY OrdersAre
  <2> HIDE DEF more
  <2>2. CASE o = e.order
    BY <1>3, <1>4, <2>2 DEF OpenIn
  <2>3. CASE o # e.order
    BY <1>3, <1>4, <2>1, <2>3 DEF OpenIn
  <2> QED
    BY <2>2, <2>3
<1> HIDE DEF more, new
<1>6. OrdersReplayed(new, more)
  BY <1>2, <1>5, OrdersAre
<1> QED
  BY <1>6 DEF more, new

LEMMA SameOrdersReplayed ==
  ASSUME NEW open \in MapsOf(Order, OpenStatus), NEW log \in Seq(Event), NEW e \in Event,
         OrdersReplayed(open, log), e.kind # "report"
  PROVE  OrdersReplayed(open, Append(log, e))
<1> DEFINE more == Append(log, e)
<1>1. ASSUME NEW o \in Order
      PROVE  /\ o \in DOMAIN open <=> OpenIn(more, o)
             /\ o \in DOMAIN open => open[o] = more[LastOf(Reports(more, o))].status
  <2>1. /\ o \in DOMAIN open <=> OpenIn(log, o)
        /\ o \in DOMAIN open => open[o] = log[LastOf(Reports(log, o))].status
    BY OrdersAre
  <2>2. /\ Reports(more, o) = Reports(log, o)
        /\ Reports(log, o) # {} => more[LastOf(Reports(more, o))] = log[LastOf(Reports(log, o))]
    <3>1. LastReports(log, e, more, o)
      BY LastReport
    <3> HIDE DEF more
    <3> QED
      BY <3>1 DEF LastReports
  <2> HIDE DEF more
  <2> QED
    BY <2>1, <2>2 DEF OpenIn
<1> HIDE DEF more
<1>2. OrdersReplayed(open, more)
  BY <1>1, OrdersAre
<1> QED
  BY <1>2 DEF more

\* An event that is applied and logged.
LEMMA EventReplayed ==
  ASSUME NEW book \in AccountBook, NEW log \in Seq(Event), NEW e \in Event,
         BalancesReplayed(book.balances, log), OrdersReplayed(book.open_orders, log)
  PROVE  /\ BalancesReplayed(ApplyEvent(book, e).balances, Append(log, e))
         /\ OrdersReplayed(ApplyEvent(book, e).open_orders, Append(log, e))
<1>1. /\ book.balances \in Balances /\ book.open_orders \in MapsOf(Order, OpenStatus)
      /\ book = [balances |-> book.balances, open_orders |-> book.open_orders]
  BY DEF AccountBook
<1>2. CASE e.kind = "position"
  <2>1. /\ ApplyEvent(book, e).balances = ApplyPosition(book.balances, e)
        /\ ApplyEvent(book, e).open_orders = book.open_orders
    BY <1>1, <1>2 DEF ApplyEvent
  <2>2. e \in Position
    BY <1>2, Kinds
  <2> QED
    BY <1>1, <1>2, <2>1, <2>2, PositionReplayed, SameOrdersReplayed
<1>3. CASE e.kind \in {"free", "locked"}
  <2>1. /\ ApplyEvent(book, e).balances = ApplyDelta(book.balances, e)
        /\ ApplyEvent(book, e).open_orders = book.open_orders
    BY <1>1, <1>3 DEF ApplyEvent
  <2>2. e \in BalanceUpdate /\ e.kind # "report"
    BY <1>3, Kinds
  <2> QED
    BY <1>1, <2>1, <2>2, ChangeReplayed, SameOrdersReplayed
<1>4. CASE e.kind = "report"
  <2>1. /\ ApplyEvent(book, e).balances = book.balances
        /\ ApplyEvent(book, e).open_orders = ApplyReport(book.open_orders, e)
    BY <1>1, <1>4 DEF ApplyEvent
  <2>2. e \in ExecutionReport /\ e.kind \notin {"position", "free", "locked"}
    BY <1>4, Kinds
  <2> QED
    BY <1>1, <2>1, <2>2, SameReplayed, ReportReplayed
<1>5. CASE e.kind \notin {"position", "free", "locked", "report"}
  <2>1. ApplyEvent(book, e) = book
    BY <1>5 DEF ApplyEvent
  <2> QED
    BY <1>1, <1>5, <2>1, SameReplayed, SameOrdersReplayed
<1> QED
  BY <1>2, <1>3, <1>4, <1>5

LEMMA LogStep ==
  ASSUME Typed, [Next]_vars
  PROVE  \/ Log' = Log /\ account' = account
         \/ \E e \in Event : Log' = Append(Log, e) /\ account' = ApplyEvent(account, e)
<1>1. CASE Venue
  <2>1. UNCHANGED <<applying, account, outbound>>
    <3>1. \E frames : Tell(frames)
      <4>1. ASSUME NEW o, NEW s, TellOrder(o, s) PROVE \E frames : Tell(frames)
        BY <4>1 DEF TellOrder
      <4>2. ASSUME NEW a, NEW told, TellPosition(a, told) PROVE \E frames : Tell(frames)
        BY <4>2 DEF TellPosition
      <4>3. ASSUME NEW a, NEW delta, NEW how, TellTransfer(a, delta, how) PROVE \E frames : Tell(frames)
        BY <4>3 DEF TellTransfer
      <4>4. ASSUME NEW a, NEW delta, TellLock(a, delta) PROVE \E frames : Tell(frames)
        BY <4>4 DEF TellLock
      <4>5. ASSUME TellOther PROVE \E frames : Tell(frames)
        BY <4>5 DEF TellOther
      <4> QED
        BY <1>1, <4>1, <4>2, <4>3, <4>4, <4>5 DEF Venue
    <3> QED
      BY <3>1 DEF Tell
  <2> QED
    BY <2>1 DEF Log
<1>2. CASE DropFrame
  BY <1>2 DEF DropFrame, Log
<1>3. CASE Apply
  <2> DEFINE e == Head(socket)
  <2>1. /\ applying = Nothing /\ applying' = e /\ e \in Event
        /\ outbound' = outbound /\ account' = ApplyEvent(account, e)
    BY <1>3 DEF Apply, Typed, Dropped, Frame
  <2>2. e # Nothing
    BY <2>1, Kinds
  <2> HIDE DEF e
  <2> QED
    BY <2>1, <2>2 DEF Log
<1>4. CASE Forward
  BY <1>4 DEF Forward, Log
<1>5. CASE UNCHANGED vars
  BY <1>5 DEF vars, Log
<1> QED
  BY <1>1, <1>2, <1>3, <1>4, <1>5 DEF Next

LEMMA LogType == Typed => Log \in Seq(Event)
BY DEF Typed, Log

LEMMA ReplaysStep == Typed /\ OutboundReplays /\ [Next]_vars => OutboundReplays'
<1> SUFFICES ASSUME Typed, OutboundReplays, [Next]_vars PROVE OutboundReplays'
  OBVIOUS
<1>1. BalancesReplayed(account.balances, Log) /\ OrdersReplayed(account.open_orders, Log)
  BY ReplaysIs
<1>2. BalancesReplayed(account'.balances, Log') /\ OrdersReplayed(account'.open_orders, Log')
  <2>1. Log \in Seq(Event) /\ account \in AccountBook
    BY LogType DEF Typed
  <2>2. CASE Log' = Log /\ account' = account
    BY <1>1, <2>2
  <2>3. ASSUME NEW e \in Event, Log' = Append(Log, e), account' = ApplyEvent(account, e)
        PROVE  BalancesReplayed(account'.balances, Log') /\ OrdersReplayed(account'.open_orders, Log')
    BY <1>1, <2>1, <2>3, EventReplayed
  <2> QED
    BY <2>2, <2>3, LogStep
<1> QED
  BY <1>2 DEF OutboundReplays, BalancesReplayed, OrdersReplayed, IsTold, ToldAmount, Totals,
              Reports, Positions, Deltas

LEMMA ReplaysInit == Init => OutboundReplays
<1> SUFFICES ASSUME Init PROVE OutboundReplays
  OBVIOUS
<1>1. Log = <<>> /\ account.balances = Empty /\ account.open_orders = Empty
  BY DEF Init, Log
<1>2. \A a, o, field : Positions(Log, a) = {} /\ Reports(Log, o) = {} /\ Deltas(Log, a, field) = {}
  BY <1>1 DEF Positions, Reports, Deltas
<1> QED
  BY <1>1, <1>2 DEF OutboundReplays, Empty

(***************************************************************************)
(* A consumer of the outbound channel can rebuild the account:             *)
(* OutboundReplays in every reachable state.                               *)
(***************************************************************************)
THEOREM ChannelReplays == Spec => []OutboundReplays
BY TypedInit, TypedStep, ReplaysInit, ReplaysStep, PTL DEF Spec

=============================================================================

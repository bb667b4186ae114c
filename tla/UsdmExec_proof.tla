--------------------------- MODULE UsdmExec_proof ---------------------------
(***************************************************************************)
(* Proofs about UsdmExec for every set of symbols, sides, assets and       *)
(* orders: its types; that the two copies of the positions and of the      *)
(* margin call agree; that the outbound channel replays into the account   *)
(* and the handlers; and that what has been ingested is what the venue     *)
(* holds.                                                                  *)
(***************************************************************************)
EXTENDS UsdmExec, FiniteSetTheorems, SequenceTheorems, WellFoundedInduction, TLAPS

-----------------------------------------------------------------------------
\* Hash maps.

LEMMA EmptyMap ==
  ASSUME NEW K, NEW V
  PROVE  Empty \in MapsOf(K, V)
  <1>1. Empty \in [{} -> V]
    BY DEF Empty
  <1>2. QED
    BY <1>1 DEF MapsOf

LEMMA InsertMap ==
  ASSUME NEW K, NEW V, NEW m \in MapsOf(K, V), NEW k \in K, NEW v \in V
  PROVE  Insert(m, k, v) \in MapsOf(K, V)
  <1>1. PICK D \in SUBSET K : m \in [D -> V]
    BY DEF MapsOf
  <1>2. Insert(m, k, v) \in [D \cup {k} -> V]
    BY <1>1 DEF Insert
  <1>3. QED
    BY <1>2 DEF MapsOf

LEMMA DeleteMap ==
  ASSUME NEW K, NEW V, NEW m \in MapsOf(K, V), NEW k
  PROVE  Delete(m, k) \in MapsOf(K, V)
  <1>1. PICK D \in SUBSET K : m \in [D -> V]
    BY DEF MapsOf
  <1>2. Delete(m, k) \in [D \ {k} -> V]
    BY <1>1 DEF Delete
  <1>3. QED
    BY <1>2 DEF MapsOf

LEMMA PositionMap ==
  ASSUME NEW m \in MapsOf(Leg, Amount \ Flat), NEW row \in PositionChange
  PROVE  ApplyPosition(m, row) \in MapsOf(Leg, Amount \ Flat)
  <1>1. CASE row.amount \in Flat
    BY <1>1, DeleteMap DEF ApplyPosition
  <1>2. CASE row.amount \notin Flat
    <2>1. row.key \in Leg /\ row.amount \in Amount \ Flat
      BY <1>2 DEF PositionChange
    <2>2. QED
      BY <1>2, <2>1, InsertMap DEF ApplyPosition
  <1>3. QED
    BY <1>1, <1>2

LEMMA OrderMap ==
  ASSUME NEW m \in MapsOf(Order, OpenStatus), NEW row \in OrderTrade
  PROVE  ApplyOrder(m, row) \in MapsOf(Order, OpenStatus)
  <1>1. CASE row.status \in OpenStatus
    <2>1. row.key \in Order
      BY DEF OrderTrade
    <2>2. QED
      BY <1>1, <2>1, InsertMap DEF ApplyOrder
  <1>2. CASE row.status \notin OpenStatus
    BY <1>2, DeleteMap DEF ApplyOrder
  <1>3. QED
    BY <1>1, <1>2

\* What an ACCOUNT_UPDATE does to the venue's own maps.
LEMMA OverwriteMap ==
  ASSUME NEW K, NEW m \in MapsOf(K, Amount), NEW R, NEW rows \in Seq(R),
         \A r \in R : r.key \in K /\ r.amount \in Amount
  PROVE  Overwrite(m, rows) \in MapsOf(K, Amount)
  <1>1. PICK D \in SUBSET K : m \in [D -> Amount]
    BY DEF MapsOf
  <1>2. \A i \in DOMAIN rows : rows[i] \in R
    OBVIOUS
  <1>3. Keys(rows) \subseteq K
    BY <1>2 DEF Keys
  <1>4. ASSUME NEW k \in Keys(rows)
        PROVE  (CHOOSE r \in Range(rows) : r.key = k).amount \in Amount
    <2>1. \E r \in Range(rows) : r.key = k
      BY DEF Keys, Range
    <2>2. \A r \in Range(rows) : r.amount \in Amount
      BY <1>2 DEF Range
    <2>3. QED
      BY <2>1, <2>2
  <1>5. Overwrite(m, rows) \in [D \cup Keys(rows) -> Amount]
    BY <1>1, <1>4 DEF Overwrite
  <1>6. QED
    BY <1>3, <1>5 DEF MapsOf

\* Applying a row of a symbol changes that symbol's positions in the same way.
LEMMA ApplyOf ==
  ASSUME NEW m, NEW row, NEW s
  PROVE  /\ row.key[1] = s => Of(ApplyPosition(m, row), s) = ApplyPosition(Of(m, s), row)
         /\ row.key[1] # s => Of(ApplyPosition(m, row), s) = Of(m, s)
  <1>1. CASE row.amount \in Flat
    BY <1>1 DEF ApplyPosition, Of, Delete
  <1>2. CASE row.amount \notin Flat
    BY <1>2 DEF ApplyPosition, Of, Insert
  <1>3. QED
    BY <1>1, <1>2

-----------------------------------------------------------------------------
\* Rows.

LEMMA Kinds ==
  ASSUME NEW row \in Row
  PROVE  /\ row.kind \in {"order", "position", "balance", "margin", "expired"}
         /\ row.kind = "order" => row \in OrderTrade
         /\ row.kind = "position" => row \in PositionChange
         /\ row.kind = "balance" => row \in BalanceChange
         /\ row.kind = "margin" => row \in MarginCall
  BY DEF Row, OrderTrade, PositionChange, BalanceChange, MarginCall, ListenKeyExpired

\* A handler only receives the rows that it accepts.
LEMMA Routed ==
  ASSUME NEW row \in Row, RoutingId(row) \in Subscribed \cup {Account}
  PROVE  /\ row.kind = "order" => RoutingId(row) \in Subscribed
         /\ row.kind = "position" => RoutingId(row) \in Subscribed /\ RoutingId(row) = row.key[1]
         /\ row.kind \in {"balance", "margin", "expired"} => RoutingId(row) = Account
  <1>1. CASE row.kind = "order"
    <2>1. SymbolOf[row.key] \in Symbol
      BY <1>1, Kinds, OrderAssumption DEF OrderTrade
    <2>2. QED
      BY <1>1, <2>1, AccountAssumption DEF RoutingId
  <1>2. CASE row.kind = "position"
    <2>1. row.key[1] \in Symbol
      BY <1>2, Kinds DEF PositionChange, Leg
    <2>2. QED
      BY <1>2, <2>1, AccountAssumption DEF RoutingId
  <1>3. QED
    BY <1>1, <1>2, Kinds DEF RoutingId

LEMMA HeadTail ==
  ASSUME NEW S, NEW s \in Seq(S), s # <<>>
  PROVE  Head(s) \in S /\ Tail(s) \in Seq(S)
  OBVIOUS

LEMMA ParseType ==
  ASSUME NEW p \in [rows : Seq(Row), valid : BOOLEAN]
  PROVE  Parse(p) \in Seq(Row)
  BY DEF Parse

LEMMA RowSeqsType ==
  ASSUME NEW R, NEW s \in RowSeqs(R)
  PROVE  s \in Seq(R)
  <1>1. PICK n \in 0..MaxRows : s \in [1..n -> R]
    BY DEF RowSeqs, BoundedSeq, SeqOf
  <1>2. QED
    BY <1>1, BoundsAssumption

-----------------------------------------------------------------------------
\* Types.

LEMMA TypeInit == Init => TypeOK
  <1>1. ASSUME Init PROVE TypeOK
    <2>1. Empty \in MapsOf(Order, OpenStatus) /\ Empty \in MapsOf(Leg, Amount \ Flat)
      BY EmptyMap
    <2>2. Empty \in MapsOf(Order, Status) /\ Empty \in MapsOf(Leg, Amount)
          /\ Empty \in MapsOf(Asset, Amount)
      BY EmptyMap
    <2>3. held \in [orders : MapsOf(Order, Status), positions : MapsOf(Leg, Amount),
                    balances : MapsOf(Asset, Amount)]
      BY <1>1, <2>2 DEF Init
    <2>4. writers \in [Subscribed \cup {Account} -> SymbolBookkeeping]
      BY <1>1, <2>1 DEF Init, SymbolBookkeeping
    <2>5. account \in AccountBookkeeping
      BY <1>1, <2>1, <2>2 DEF Init, AccountBookkeeping
    <2>6. socket \in Seq([rows : Seq(Row), valid : BOOLEAN]) /\ pending \in Seq(Row)
          /\ outbound \in Seq(Row)
      BY <1>1 DEF Init
    <2>7. sent \in 0..MaxPayloads
      BY <1>1, BoundsAssumption DEF Init
    <2>8. skipped = {} /\ applied = FALSE
      BY <1>1 DEF Init
    <2>9. QED
      BY <2>3, <2>4, <2>5, <2>6, <2>7, <2>8 DEF TypeOK
  <1>2. QED
    BY <1>1

LEMMA TellType ==
  ASSUME TypeOK, NEW rows \in Seq(Row), NEW valid \in BOOLEAN, Tell(rows, valid),
         held' \in [orders : MapsOf(Order, Status), positions : MapsOf(Leg, Amount),
                    balances : MapsOf(Asset, Amount)]
  PROVE  TypeOK'
  <1>1. socket' \in Seq([rows : Seq(Row), valid : BOOLEAN])
    BY DEF Tell, TypeOK
  <1>2. sent' \in 0..MaxPayloads
    BY BoundsAssumption DEF Tell, TypeOK
  <1>3. QED
    BY <1>1, <1>2 DEF Tell, TypeOK, clientVars

LEMMA VenueType == TypeOK /\ Venue => TypeOK'
  <1> SUFFICES ASSUME TypeOK, Venue PROVE TypeOK'
    OBVIOUS
  <1>1. ASSUME NEW o \in Order, NEW s \in Status, TellOrder(o, s)
        PROVE  TypeOK'
    <2>1. Insert(held.orders, o, s) \in MapsOf(Order, Status)
      BY InsertMap DEF TypeOK
    <2>2. <<[kind |-> "order", key |-> o, status |-> s]>> \in Seq(Row)
      BY DEF Row, OrderTrade
    <2>3. held' \in [orders : MapsOf(Order, Status), positions : MapsOf(Leg, Amount),
                     balances : MapsOf(Asset, Amount)]
      BY <1>1, <2>1 DEF TellOrder, TypeOK
    <2>4. QED
      BY <1>1, <2>2, <2>3, TellType DEF TellOrder
  <1>2. ASSUME NEW b \in RowSeqs(BalanceChange), NEW p \in RowSeqs(PositionChange),
               TellAccount(b, p)
        PROVE  TypeOK'
    <2>1. b \in Seq(BalanceChange) /\ p \in Seq(PositionChange)
      BY RowSeqsType
    <2>2. b \in Seq(Row) /\ p \in Seq(Row)
      BY <2>1 DEF Row
    <2>3. \A r \in BalanceChange : r.key \in Asset /\ r.amount \in Amount
      BY DEF BalanceChange
    <2>4. \A r \in PositionChange : r.key \in Leg /\ r.amount \in Amount
      BY DEF PositionChange
    <2>5. Overwrite(held.balances, b) \in MapsOf(Asset, Amount)
      BY <2>1, <2>3, OverwriteMap DEF TypeOK
    <2>6. Overwrite(held.positions, p) \in MapsOf(Leg, Amount)
      BY <2>1, <2>4, OverwriteMap DEF TypeOK
    <2>7. held' \in [orders : MapsOf(Order, Status), positions : MapsOf(Leg, Amount),
                     balances : MapsOf(Asset, Amount)]
      BY <1>2, <2>5, <2>6 DEF TellAccount, TypeOK
    <2>8. b \o p \in Seq(Row)
      BY <2>2
    <2>9. QED
      BY <1>2, <2>7, <2>8, TellType DEF TellAccount
  <1>3. ASSUME TellOther
        PROVE  TypeOK'
    <2>1. <<>> \in Seq(Row) /\ <<[kind |-> "expired"]>> \in Seq(Row)
      BY DEF Row, ListenKeyExpired
    <2>2. \A m \in MarginCall : <<m>> \in Seq(Row)
      BY DEF Row
    <2>3. held' \in [orders : MapsOf(Order, Status), positions : MapsOf(Leg, Amount),
                     balances : MapsOf(Asset, Amount)]
      BY <1>3 DEF TellOther, TypeOK
    <2>4. QED
      BY <1>3, <2>1, <2>2, <2>3, TellType DEF TellOther
  <1>4. QED
    BY <1>1, <1>2, <1>3 DEF Venue

LEMMA ClientType == TypeOK /\ (IngestUserData \/ IngestMessage \/ Unroutable \/ Apply \/ Forward) => TypeOK'
  <1> SUFFICES ASSUME TypeOK, IngestUserData \/ IngestMessage \/ Unroutable \/ Apply \/ Forward
               PROVE  TypeOK'
    OBVIOUS
  <1>1. ASSUME socket # <<>>
        PROVE  /\ Parse(Head(socket)) \in Seq(Row)
               /\ Tail(socket) \in Seq([rows : Seq(Row), valid : BOOLEAN])
    <2>1. socket \in Seq([rows : Seq(Row), valid : BOOLEAN])
      BY DEF TypeOK
    <2>2. QED
      BY <1>1, <2>1, HeadTail, ParseType
  <1>2. ASSUME NEW rows \in Seq(Row)
        PROVE  \A k \in KeysOf(rows) : k[1] \in {"order", "position", "balance"}
    BY DEF KeysOf
  <1>3. CASE IngestUserData
    <2>1. pending' \in Seq(Row) /\ socket' \in Seq([rows : Seq(Row), valid : BOOLEAN])
      BY <1>1, <1>3 DEF IngestUserData
    <2>2. applied = FALSE /\ skipped' \subseteq skipped
      BY <1>3 DEF IngestUserData, TypeOK
    <2>3. QED
      BY <1>3, <2>1, <2>2 DEF IngestUserData, TypeOK
  <1>4. CASE IngestMessage
    <2> DEFINE rows == Parse(Head(socket))
    <2>1. rows \in Seq(Row) /\ rows # <<>>
      BY <1>1, <1>4 DEF IngestMessage
    <2>2. Tail(rows) \in Seq(Row) /\ <<Head(rows)>> \in Seq(Row)
      BY <2>1
    <2>3. skipped' \subseteq skipped \cup KeysOf(Tail(rows))
      BY <1>4 DEF IngestMessage
    <2>4. \A k \in skipped' : k[1] \in {"order", "position", "balance"}
      BY <1>2, <2>2, <2>3 DEF TypeOK
    <2>5. pending' \in Seq(Row) /\ socket' \in Seq([rows : Seq(Row), valid : BOOLEAN])
      BY <1>1, <1>4, <2>2 DEF IngestMessage
    <2>6. applied = FALSE
      BY <1>4 DEF IngestMessage, TypeOK
    <2>7. QED
      BY <1>4, <2>4, <2>5, <2>6 DEF IngestMessage, TypeOK
  <1>5. CASE Unroutable
    <2>1. pending' \in Seq(Row) /\ applied = FALSE
      BY <1>5, HeadTail DEF Unroutable, TypeOK
    <2>2. QED
      BY <1>5, <2>1 DEF Unroutable, TypeOK
  <1>6. CASE Apply
    <2> DEFINE row == Head(pending)
               id == RoutingId(row)
    <2>1. pending # <<>> /\ row \in Row /\ id \in Subscribed \cup {Account}
      BY <1>6 DEF Apply, TypeOK
    <2>2. /\ writers[id] \in SymbolBookkeeping
          /\ writers[id].open_orders \in MapsOf(Order, OpenStatus)
          /\ writers[id].positions \in MapsOf(Leg, Amount \ Flat)
      BY <2>1 DEF TypeOK, SymbolBookkeeping
    <2>3. /\ account.balances \in MapsOf(Asset, Amount)
          /\ account.positions \in MapsOf(Leg, Amount \ Flat)
      BY DEF TypeOK, AccountBookkeeping
    <2>4. /\ writers' \in [Subscribed \cup {Account} -> SymbolBookkeeping]
          /\ account' \in AccountBookkeeping
      <3>1. CASE row.kind = "order"
        <4>1. ApplyOrder(writers[id].open_orders, row) \in MapsOf(Order, OpenStatus)
          BY <2>1, <2>2, <3>1, Kinds, OrderMap
        <4>2. /\ writers' = [writers EXCEPT ![id].open_orders = ApplyOrder(@, row)]
              /\ account' = account
          BY <1>6, <3>1 DEF Apply
        <4>3. QED
          BY <2>1, <2>2, <4>1, <4>2 DEF TypeOK, SymbolBookkeeping
      <3>2. CASE row.kind = "position"
        <4>1. /\ ApplyPosition(writers[id].positions, row) \in MapsOf(Leg, Amount \ Flat)
              /\ ApplyPosition(account.positions, row) \in MapsOf(Leg, Amount \ Flat)
          BY <2>1, <2>2, <2>3, <3>2, Kinds, PositionMap
        <4>2. /\ writers' = [writers EXCEPT ![id].positions = ApplyPosition(@, row)]
              /\ account' = [account EXCEPT !.positions = ApplyPosition(@, row)]
          BY <1>6, <3>2 DEF Apply
        <4>3. account' \in AccountBookkeeping
          BY <4>1, <4>2 DEF TypeOK, AccountBookkeeping
        <4>4. QED
          BY <2>1, <2>2, <4>1, <4>2, <4>3 DEF TypeOK, SymbolBookkeeping
      <3>3. CASE row.kind = "balance"
        <4>1. row.key \in Asset /\ row.amount \in Amount
          BY <2>1, <3>3, Kinds DEF BalanceChange
        <4>2. Insert(account.balances, row.key, row.amount) \in MapsOf(Asset, Amount)
          BY <2>3, <4>1, InsertMap
        <4>3. /\ writers' = writers
              /\ account' = [account EXCEPT !.balances = Insert(@, row.key, row.amount)]
          BY <1>6, <3>3 DEF Apply
        <4>4. QED
          BY <4>2, <4>3 DEF TypeOK, AccountBookkeeping
      <3>4. CASE row.kind = "margin"
        <4>1. row \in MarginCall /\ ApplyMargin(row)
          BY <1>6, <2>1, <3>4, Kinds DEF Apply
        <4>2. CASE Supersedes(row)
          <5>1. /\ writers' = [writers EXCEPT ![Account].call = row]
                /\ account' = [account EXCEPT !.call = row]
            BY <4>1, <4>2 DEF ApplyMargin
          <5>2. account' \in AccountBookkeeping
            BY <4>1, <5>1 DEF TypeOK, AccountBookkeeping
          <5>3. writers[Account] \in SymbolBookkeeping
            BY DEF TypeOK
          <5>4. [writers[Account] EXCEPT !.call = row] \in SymbolBookkeeping
            BY <4>1, <5>3 DEF SymbolBookkeeping
          <5>5. QED
            BY <5>1, <5>2, <5>4 DEF TypeOK
        <4>3. CASE ~ Supersedes(row)
          BY <4>1, <4>3 DEF ApplyMargin, TypeOK
        <4>4. QED
          BY <4>2, <4>3
      <3>5. CASE row.kind = "expired"
        BY <1>6, <3>5 DEF Apply, TypeOK
      <3>6. QED
        BY <2>1, <3>1, <3>2, <3>3, <3>4, <3>5, Kinds
    <2>5. QED
      BY <1>6, <2>1, <2>4 DEF Apply, TypeOK
  <1>7. CASE Forward
    <2>1. pending # <<>> /\ Head(pending) \in Row
      BY <1>7 DEF Forward, TypeOK
    <2>2. pending' \in Seq(Row) /\ outbound' \in Seq(Row)
      BY <1>7, <2>1 DEF Forward, TypeOK
    <2>3. QED
      BY <1>7, <2>2 DEF Forward, TypeOK
  <1>8. QED
    BY <1>3, <1>4, <1>5, <1>6, <1>7

(***************************************************************************)
(* Every reachable state is well typed: maps only hold keys and values of  *)
(* their kind, no handler or account keeps a flat position or a closed     *)
(* order, and an update is forwarded only after it has been applied.       *)
(***************************************************************************)
THEOREM TypeCorrect == Spec => []TypeOK
  <1>1. Init => TypeOK
    BY TypeInit
  <1>2. TypeOK /\ [Next]_vars => TypeOK'
    <2>1. TypeOK /\ UNCHANGED vars => TypeOK'
      BY DEF TypeOK, vars
    <2>2. QED
      BY <2>1, VenueType, ClientType DEF Next
  <1>3. QED
    BY <1>1, <1>2, PTL DEF Spec

-----------------------------------------------------------------------------
\* The two copies.

\* A symbol's handler and the account see the same rows of that symbol.
LEMMA PositionsAgree ==
  ASSUME TypeOK, HandlersMatchAccount, Apply, Head(pending).kind = "position"
  PROVE  HandlersMatchAccount'
  <1> DEFINE row == Head(pending)
             id == RoutingId(row)
  <1>1. row \in Row /\ id \in Subscribed \cup {Account}
    BY HeadTail DEF Apply, TypeOK
  <1>2. id = row.key[1] /\ id \in Subscribed /\ id # Account
    BY <1>1, Routed, SubscribedAssumption, AccountAssumption
  <1>3. /\ writers' = [writers EXCEPT ![id].positions = ApplyPosition(@, row)]
        /\ account' = [account EXCEPT !.positions = ApplyPosition(@, row)]
    BY DEF Apply
  <1>4. writers[id] \in SymbolBookkeeping /\ account \in AccountBookkeeping
    BY <1>1 DEF TypeOK
  <1>5. /\ writers'[id].positions = ApplyPosition(writers[id].positions, row)
        /\ \A s \in Subscribed \cup {Account} : s # id => writers'[s] = writers[s]
        /\ account'.positions = ApplyPosition(account.positions, row)
        /\ account'.call = account.call
    BY <1>1, <1>3, <1>4 DEF TypeOK, SymbolBookkeeping, AccountBookkeeping
  <1>6. ASSUME NEW s \in Subscribed
        PROVE  writers'[s].positions = Of(account'.positions, s)
    <2>1. CASE s = id
      BY <1>2, <1>5, <2>1, ApplyOf DEF HandlersMatchAccount
    <2>2. CASE s # id
      BY <1>2, <1>5, <2>2, ApplyOf DEF HandlersMatchAccount
    <2>3. QED
      BY <2>1, <2>2
  <1>7. writers'[Account] = writers[Account]
    BY <1>2, <1>5
  <1>8. QED
    BY <1>5, <1>6, <1>7 DEF HandlersMatchAccount

\* A step that leaves positions and calls alone keeps the copies equal.
LEMMA SameCopies ==
  ASSUME HandlersMatchAccount,
         \A s \in Subscribed \cup {Account} :
           writers'[s].positions = writers[s].positions,
         account'.positions = account.positions,
         writers'[Account].call = account'.call
  PROVE  HandlersMatchAccount'
  BY DEF HandlersMatchAccount

LEMMA CopiesStep == TypeOK /\ HandlersMatchAccount /\ [Next]_vars => HandlersMatchAccount'
  <1> SUFFICES ASSUME TypeOK, HandlersMatchAccount, [Next]_vars
               PROVE  HandlersMatchAccount'
    OBVIOUS
  <1>1. CASE UNCHANGED <<writers, account>>
    BY <1>1 DEF HandlersMatchAccount
  <1>2. CASE Apply
    <2> DEFINE row == Head(pending)
               id == RoutingId(row)
    <2>1. row \in Row /\ id \in Subscribed \cup {Account}
      BY <1>2, HeadTail DEF Apply, TypeOK
    <2>2. CASE row.kind = "order"
      <3>1. id \in Subscribed /\ id # Account
        BY <2>1, <2>2, Routed, SubscribedAssumption, AccountAssumption
      <3>2. /\ writers' = [writers EXCEPT ![id].open_orders = ApplyOrder(@, row)]
            /\ account' = account
        BY <1>2, <2>2 DEF Apply
      <3>3. \A s \in Subscribed \cup {Account} : writers[s] \in SymbolBookkeeping
        BY DEF TypeOK
      <3>4. \A s \in Subscribed \cup {Account} :
              writers'[s].positions = writers[s].positions /\ writers'[s].call = writers[s].call
        BY <3>2, <3>3 DEF TypeOK, SymbolBookkeeping
      <3>5. QED
        BY <3>2, <3>4, SameCopies DEF HandlersMatchAccount
    <2>3. CASE row.kind = "position"
      BY <1>2, <2>3, PositionsAgree
    <2>4. CASE row.kind = "balance"
      <3>1. /\ writers' = writers
            /\ account' = [account EXCEPT !.balances = Insert(@, row.key, row.amount)]
        BY <1>2, <2>4 DEF Apply
      <3>2. account'.positions = account.positions /\ account'.call = account.call
        BY <3>1 DEF TypeOK, AccountBookkeeping
      <3>3. QED
        BY <3>1, <3>2 DEF HandlersMatchAccount
    <2>5. CASE row.kind = "margin"
      <3>1. ApplyMargin(row)
        BY <1>2, <2>5 DEF Apply
      <3>2. CASE Supersedes(row)
        <4>1. /\ writers' = [writers EXCEPT ![Account].call = row]
              /\ account' = [account EXCEPT !.call = row]
          BY <3>1, <3>2 DEF ApplyMargin
        <4>2. \A s \in Subscribed \cup {Account} : writers[s] \in SymbolBookkeeping
          BY DEF TypeOK
        <4>3. \A s \in Subscribed \cup {Account} :
                writers'[s].positions = writers[s].positions
          BY <4>1, <4>2 DEF TypeOK, SymbolBookkeeping
        <4>4. writers'[Account].call = row
          BY <4>1, <4>2 DEF TypeOK, SymbolBookkeeping
        <4>5. account'.call = row /\ account'.positions = account.positions
          BY <4>1 DEF TypeOK, AccountBookkeeping
        <4>6. QED
          BY <4>3, <4>4, <4>5, SameCopies
      <3>3. CASE ~ Supersedes(row)
        BY <1>1, <3>1, <3>3 DEF ApplyMargin
      <3>4. QED
        BY <3>2, <3>3
    <2>6. CASE row.kind = "expired"
      BY <1>1, <1>2, <2>6 DEF Apply
    <2>7. QED
      BY <2>1, <2>2, <2>3, <2>4, <2>5, <2>6, Kinds
  <1>3. CASE UNCHANGED vars
    BY <1>1, <1>3 DEF vars
  <1>4. CASE Venue
    BY <1>1, <1>4 DEF Venue, TellOrder, TellAccount, TellOther, Tell, clientVars
  <1>5. CASE IngestUserData \/ IngestMessage \/ Unroutable \/ Forward
    BY <1>1, <1>5 DEF IngestUserData, IngestMessage, Unroutable, Forward
  <1>6. QED
    BY <1>2, <1>3, <1>4, <1>5 DEF Next

(***************************************************************************)
(* The positions of every symbol's handler are the account's positions of  *)
(* that symbol, and the account handler's margin call is the account's.    *)
(***************************************************************************)
THEOREM CopiesAgree == Spec => []HandlersMatchAccount
  <1>1. Init => HandlersMatchAccount
    BY DEF Init, HandlersMatchAccount, Of, Empty
  <1>2. QED
    BY <1>1, CopiesStep, TypeCorrect, PTL DEF Spec

-----------------------------------------------------------------------------
\* The last row of a key in a log.

Rows(L, kind, key) == {i \in DOMAIN L : L[i].kind = kind /\ L[i].key = key}
LastRow(L, kind, key) ==
  L[CHOOSE i \in Rows(L, kind, key) : \A j \in Rows(L, kind, key) : j <= i]

Below == {x \in Nat \X Nat : x[1] < x[2]}

LEMMA BelowIsWellFounded == IsWellFoundedOn(Below, Nat)
  <1>1. OpToRel(<, Nat) = Below
    BY DEF OpToRel, Below
  <1>2. QED
    BY <1>1, NatLessThanWellFounded

\* A non-empty set of indices has a last one.
LEMMA LastIndex ==
  ASSUME NEW n \in Nat, NEW S \in SUBSET (1..n), S # {}
  PROVE  \E i \in S : \A j \in S : j <= i
  <1> DEFINE T == {m \in Nat : n - m \in S}
  <1>1. T # {}
    <2>1. PICK x \in S : TRUE
      OBVIOUS
    <2>2. n - x \in Nat /\ n - (n - x) = x
      BY <2>1
    <2>3. QED
      BY <2>1, <2>2
  <1>2. PICK m \in T : \A y \in T : ~ (<<y, m>> \in Below)
    BY <1>1, BelowIsWellFounded, WFMin, Zenon
  <1>3. ASSUME NEW j \in S
        PROVE  j <= n - m
    <2>1. n - j \in Nat /\ n - (n - j) = j
      OBVIOUS
    <2>2. n - j \in T
      BY <2>1
    <2>3. <<n - j, m>> \notin Below
      BY <1>2, <2>2
    <2>4. QED
      BY <2>1, <2>3 DEF Below
  <1>4. QED
    BY <1>3

\* What one more row does to the last rows of the keys.
LEMMA AppendRow ==
  ASSUME NEW L \in Seq(Row), NEW row \in Row, NEW kind, NEW key
  PROVE  LET M == Append(L, row) IN
         /\ row.kind = kind /\ row.key = key =>
              Rows(M, kind, key) # {} /\ LastRow(M, kind, key) = row
         /\ ~ (row.kind = kind /\ row.key = key) =>
              /\ Rows(M, kind, key) = Rows(L, kind, key)
              /\ Rows(L, kind, key) # {} => LastRow(M, kind, key) = LastRow(L, kind, key)
  <1> DEFINE M == Append(L, row)
             n == Len(L)
  <1>1. /\ n \in Nat /\ DOMAIN L = 1..n /\ DOMAIN M = 1..(n + 1)
        /\ M[n + 1] = row /\ \A i \in 1..n : M[i] = L[i]
    OBVIOUS
  <1>2. Rows(L, kind, key) \subseteq 1..n /\ Rows(M, kind, key) \subseteq 1..(n + 1)
    BY <1>1 DEF Rows
  <1> HIDE DEF M, n
  <1>3. CASE row.kind = kind /\ row.key = key
    <2>1. n + 1 \in Rows(M, kind, key)
      BY <1>1, <1>3 DEF Rows
    <2>2. (CHOOSE i \in Rows(M, kind, key) : \A j \in Rows(M, kind, key) : j <= i) = n + 1
      <3> DEFINE i == CHOOSE i \in Rows(M, kind, key) : \A j \in Rows(M, kind, key) : j <= i
      <3>1. \A j \in Rows(M, kind, key) : j <= n + 1
        BY <1>1, <1>2
      <3>2. i \in Rows(M, kind, key) /\ n + 1 <= i
        BY <2>1, <3>1
      <3>3. QED
        BY <1>1, <1>2, <3>1, <3>2
    <2>3. QED
      BY <1>1, <1>3, <2>1, <2>2 DEF LastRow, M
  <1>4. CASE ~ (row.kind = kind /\ row.key = key)
    <2>1. Rows(M, kind, key) = Rows(L, kind, key)
      BY <1>1, <1>4 DEF Rows
    <2>2. ASSUME Rows(L, kind, key) # {}
          PROVE  LastRow(M, kind, key) = LastRow(L, kind, key)
      <3> DEFINE i == CHOOSE i \in Rows(L, kind, key) : \A j \in Rows(L, kind, key) : j <= i
      <3>1. i \in Rows(L, kind, key)
        BY <1>1, <1>2, <2>2, LastIndex
      <3>2. M[i] = L[i]
        BY <1>1, <1>2, <3>1
      <3>3. QED
        BY <2>1, <3>2 DEF LastRow
    <2>3. QED
      BY <1>4, <2>1, <2>2 DEF M
  <1>5. QED
    BY <1>3, <1>4

-----------------------------------------------------------------------------
\* The outbound channel replays.

\* Only a row that is applied changes the log, the handlers or the account.
LEMMA LogStep ==
  ASSUME TypeOK, [Next]_vars
  PROVE  \/ UNCHANGED <<Log, writers, account>>
         \/ Apply /\ Log \in Seq(Row) /\ Head(pending) \in Row
            /\ Log' = Append(Log, Head(pending))
  <1>1. CASE Apply
    <2>1. Head(pending) \in Row /\ Log = outbound /\ outbound \in Seq(Row)
      BY <1>1, HeadTail DEF Apply, TypeOK, Log
    <2>2. Log' = Append(outbound, Head(pending))
      BY <1>1 DEF Apply, Log
    <2>3. QED
      BY <1>1, <2>1, <2>2
  <1>2. CASE Forward
    BY <1>2 DEF Forward, Log
  <1>3. CASE IngestUserData \/ IngestMessage \/ Unroutable
    BY <1>3 DEF IngestUserData, IngestMessage, Unroutable, Log, TypeOK
  <1>4. CASE Venue
    <2>1. UNCHANGED clientVars
      BY <1>4 DEF Venue, TellOrder, TellAccount, TellOther, Tell
    <2>2. QED
      BY <2>1 DEF clientVars, Log
  <1>5. CASE UNCHANGED vars
    BY <1>5 DEF vars, Log
  <1>6. QED
    BY <1>1, <1>2, <1>3, <1>4, <1>5 DEF Next

\* The four parts of OutboundReplays, in terms of the log.
BalancesReplayed(L, balances) ==
  balances = [a \in {k \in Asset : Rows(L, "balance", k) # {}} |->
                LastRow(L, "balance", a).amount]

PositionsReplayed(L, positions) ==
  positions =
    [l \in {k \in Leg : Rows(L, "position", k) # {} /\ LastRow(L, "position", k).amount \notin Flat}
       |-> LastRow(L, "position", l).amount]

OrdersReplayed(L, s, open) ==
  open =
    [o \in {k \in Order : /\ Rows(L, "order", k) # {}
                          /\ SymbolOf[k] = s
                          /\ LastRow(L, "order", k).status \in OpenStatus}
       |-> LastRow(L, "order", o).status]

MarginRows(L) == {i \in DOMAIN L : L[i].kind = "margin"}
CallReplayed(L, call) ==
  IF MarginRows(L) = {}
  THEN call = NoCall
  ELSE \E i \in MarginRows(L) :
         /\ call = L[i]
         /\ \A j \in MarginRows(L) : \/ L[j].time < L[i].time
                                     \/ L[j].time = L[i].time /\ j <= i

ReplayOf(L) ==
  /\ BalancesReplayed(L, account.balances)
  /\ PositionsReplayed(L, account.positions)
  /\ \A s \in Subscribed : OrdersReplayed(L, s, writers[s].open_orders)
  /\ CallReplayed(L, account.call)

LEMMA ReplaysLog == OutboundReplays <=> ReplayOf(Log)
  <1>1. \A kind, key : At(kind, key) = Rows(Log, kind, key)
    BY DEF At, Rows
  <1>2. \A kind, key : Latest(kind, key) = LastRow(Log, kind, key)
    BY <1>1 DEF Latest, LastRow
  <1>3. Calls = MarginRows(Log)
    BY DEF Calls, MarginRows
  <1>4. \A kind, keys : Told(kind, keys) = {k \in keys : Rows(Log, kind, k) # {}}
    BY <1>1 DEF Told
  <1>5. (account.balances = [a \in Told("balance", Asset) |-> Latest("balance", a).amount])
          <=> BalancesReplayed(Log, account.balances)
    BY <1>2, <1>4 DEF BalancesReplayed
  <1>6. (account.positions =
           [l \in {k \in Told("position", Leg) : Latest("position", k).amount \notin Flat} |->
              Latest("position", l).amount])
          <=> PositionsReplayed(Log, account.positions)
    BY <1>2, <1>4 DEF PositionsReplayed
  <1>7. ASSUME NEW s \in Subscribed
        PROVE  (writers[s].open_orders =
                  [o \in {k \in Told("order", Order) :
                            SymbolOf[k] = s /\ Latest("order", k).status \in OpenStatus} |->
                     Latest("order", o).status])
                 <=> OrdersReplayed(Log, s, writers[s].open_orders)
    BY <1>2, <1>4 DEF OrdersReplayed
  <1>8. QED
    BY <1>3, <1>5, <1>6, <1>7 DEF OutboundReplays, ReplayOf, CallReplayed

\* A row of another kind changes nothing.
LEMMA OtherRow ==
  ASSUME NEW L \in Seq(Row), NEW row \in Row
  PROVE  LET M == Append(L, row) IN
         /\ row.kind # "balance" =>
              \A m : BalancesReplayed(L, m) => BalancesReplayed(M, m)
         /\ row.kind # "position" =>
              \A m : PositionsReplayed(L, m) => PositionsReplayed(M, m)
         /\ \A s : (row.kind = "order" => SymbolOf[row.key] # s) =>
              \A m : OrdersReplayed(L, s, m) => OrdersReplayed(M, s, m)
         /\ row.kind # "margin" => \A c : CallReplayed(L, c) => CallReplayed(M, c)
  <1> DEFINE M == Append(L, row)
  <1>1. \A kind, key : ~ (row.kind = kind /\ row.key = key) =>
          /\ Rows(M, kind, key) = Rows(L, kind, key)
          /\ Rows(L, kind, key) # {} => LastRow(M, kind, key) = LastRow(L, kind, key)
    BY AppendRow
  <1>2. ASSUME row.kind # "margin", NEW c, CallReplayed(L, c)
        PROVE  CallReplayed(M, c)
    <2>1. /\ Len(L) \in Nat /\ DOMAIN L = 1..Len(L) /\ DOMAIN M = 1..(Len(L) + 1)
          /\ M[Len(L) + 1] = row /\ \A i \in 1..Len(L) : M[i] = L[i]
      OBVIOUS
    <2> HIDE DEF M
    <2>2. MarginRows(M) = MarginRows(L) /\ MarginRows(L) \subseteq 1..Len(L)
      BY <1>2, <2>1 DEF MarginRows
    <2>3. QED
      BY <1>2, <2>1, <2>2 DEF CallReplayed
  <1> HIDE DEF M
  <1>3. ASSUME row.kind # "balance", NEW m, BalancesReplayed(L, m)
        PROVE  BalancesReplayed(M, m)
    BY <1>1, <1>3 DEF BalancesReplayed
  <1>4. ASSUME row.kind # "position", NEW m, PositionsReplayed(L, m)
        PROVE  PositionsReplayed(M, m)
    BY <1>1, <1>4 DEF PositionsReplayed
  <1>5. ASSUME NEW s, row.kind = "order" => SymbolOf[row.key] # s, NEW m, OrdersReplayed(L, s, m)
        PROVE  OrdersReplayed(M, s, m)
    <2>1. \A k \in Order : SymbolOf[k] = s => ~ (row.kind = "order" /\ row.key = k)
      BY <1>5
    <2>2. QED
      BY <1>1, <1>5, <2>1 DEF OrdersReplayed
  <1>6. QED
    BY <1>2, <1>3, <1>4, <1>5 DEF M

LEMMA BalanceRow ==
  ASSUME NEW L \in Seq(Row), NEW row \in BalanceChange, NEW m, BalancesReplayed(L, m)
  PROVE  BalancesReplayed(Append(L, row), Insert(m, row.key, row.amount))
  <1> DEFINE M == Append(L, row)
  <1>1. row \in Row /\ row.kind = "balance" /\ row.key \in Asset
    BY DEF Row, BalanceChange
  <1>2. \A k : k # row.key =>
          /\ Rows(M, "balance", k) = Rows(L, "balance", k)
          /\ Rows(L, "balance", k) # {} => LastRow(M, "balance", k) = LastRow(L, "balance", k)
    BY <1>1, AppendRow
  <1>3. Rows(M, "balance", row.key) # {} /\ LastRow(M, "balance", row.key) = row
    BY <1>1, AppendRow
  <1> HIDE DEF M
  <1>4. {k \in Asset : Rows(M, "balance", k) # {}}
          = {k \in Asset : Rows(L, "balance", k) # {}} \cup {row.key}
    BY <1>1, <1>2, <1>3
  <1>5. DOMAIN m = {k \in Asset : Rows(L, "balance", k) # {}}
        /\ \A k \in DOMAIN m : m[k] = LastRow(L, "balance", k).amount
    BY DEF BalancesReplayed
  <1>6. BalancesReplayed(M, Insert(m, row.key, row.amount))
    BY <1>2, <1>3, <1>4, <1>5 DEF BalancesReplayed, Insert
  <1>7. QED
    BY <1>6 DEF M

LEMMA PositionRow ==
  ASSUME NEW L \in Seq(Row), NEW row \in PositionChange, NEW m, PositionsReplayed(L, m)
  PROVE  PositionsReplayed(Append(L, row), ApplyPosition(m, row))
  <1> DEFINE M == Append(L, row)
             Open(N) == {k \in Leg : Rows(N, "position", k) # {}
                                     /\ LastRow(N, "position", k).amount \notin Flat}
  <1>1. row \in Row /\ row.kind = "position" /\ row.key \in Leg
    BY DEF Row, PositionChange
  <1>2. \A k : k # row.key =>
          /\ Rows(M, "position", k) = Rows(L, "position", k)
          /\ Rows(L, "position", k) # {} => LastRow(M, "position", k) = LastRow(L, "position", k)
    BY <1>1, AppendRow
  <1>3. Rows(M, "position", row.key) # {} /\ LastRow(M, "position", row.key) = row
    BY <1>1, AppendRow
  <1> HIDE DEF M
  <1>4. DOMAIN m = Open(L) /\ \A k \in DOMAIN m : m[k] = LastRow(L, "position", k).amount
    BY DEF PositionsReplayed
  <1>5. CASE row.amount \in Flat
    <2>1. Open(M) = Open(L) \ {row.key}
      BY <1>1, <1>2, <1>3, <1>5
    <2>2. PositionsReplayed(M, Delete(m, row.key))
      BY <1>2, <1>3, <1>4, <2>1 DEF PositionsReplayed, Delete
    <2>3. QED
      BY <1>5, <2>2 DEF M, ApplyPosition
  <1>6. CASE row.amount \notin Flat
    <2>1. Open(M) = Open(L) \cup {row.key}
      BY <1>1, <1>2, <1>3, <1>6
    <2>2. PositionsReplayed(M, Insert(m, row.key, row.amount))
      BY <1>2, <1>3, <1>4, <2>1 DEF PositionsReplayed, Insert
    <2>3. QED
      BY <1>6, <2>2 DEF M, ApplyPosition
  <1>7. QED
    BY <1>5, <1>6

LEMMA OrderRow ==
  ASSUME NEW L \in Seq(Row), NEW row \in OrderTrade, NEW m,
         OrdersReplayed(L, SymbolOf[row.key], m)
  PROVE  OrdersReplayed(Append(L, row), SymbolOf[row.key], ApplyOrder(m, row))
  <1> DEFINE M == Append(L, row)
             s == SymbolOf[row.key]
             Open(N) == {k \in Order : Rows(N, "order", k) # {} /\ SymbolOf[k] = s
                                       /\ LastRow(N, "order", k).status \in OpenStatus}
  <1>1. row \in Row /\ row.kind = "order" /\ row.key \in Order
    BY DEF Row, OrderTrade
  <1>2. \A k : k # row.key =>
          /\ Rows(M, "order", k) = Rows(L, "order", k)
          /\ Rows(L, "order", k) # {} => LastRow(M, "order", k) = LastRow(L, "order", k)
    BY <1>1, AppendRow
  <1>3. Rows(M, "order", row.key) # {} /\ LastRow(M, "order", row.key) = row
    BY <1>1, AppendRow
  <1> HIDE DEF M
  <1>4. DOMAIN m = Open(L) /\ \A k \in DOMAIN m : m[k] = LastRow(L, "order", k).status
    BY DEF OrdersReplayed
  <1>5. CASE row.status \notin OpenStatus
    <2>1. Open(M) = Open(L) \ {row.key}
      BY <1>1, <1>2, <1>3, <1>5
    <2>2. OrdersReplayed(M, s, Delete(m, row.key))
      BY <1>2, <1>3, <1>4, <2>1 DEF OrdersReplayed, Delete
    <2>3. QED
      BY <1>5, <2>2 DEF M, ApplyOrder
  <1>6. CASE row.status \in OpenStatus
    <2>1. Open(M) = Open(L) \cup {row.key}
      BY <1>1, <1>2, <1>3, <1>6
    <2>2. OrdersReplayed(M, s, Insert(m, row.key, row.status))
      BY <1>2, <1>3, <1>4, <2>1 DEF OrdersReplayed, Insert
    <2>3. QED
      BY <1>6, <2>2 DEF M, ApplyOrder
  <1>7. QED
    BY <1>5, <1>6

\* The newest margin call, the later of two of the same time.
LEMMA MarginRow ==
  ASSUME NEW L \in Seq(Row), NEW row \in MarginCall, NEW call, CallReplayed(L, call)
  PROVE  CallReplayed(Append(L, row), IF row.time >= call.time THEN row ELSE call)
  <1> DEFINE M == Append(L, row)
             n == Len(L)
  <1>1. /\ n \in Nat /\ DOMAIN L = 1..n /\ DOMAIN M = 1..(n + 1)
        /\ M[n + 1] = row /\ \A i \in 1..n : M[i] = L[i]
    OBVIOUS
  <1>2. \A i \in DOMAIN L : L[i] \in Row
    OBVIOUS
  <1> HIDE DEF M, n
  <1>3. row.kind = "margin" /\ row.time \in Nat
    BY DEF MarginCall
  <1>4. MarginRows(M) = MarginRows(L) \cup {n + 1} /\ MarginRows(L) \subseteq 1..n
    BY <1>1, <1>3 DEF MarginRows
  <1>5. \A j \in MarginRows(L) : L[j].time \in Nat
    <2>1. \A r \in MarginCall : r.time \in Nat
      BY DEF MarginCall
    <2>2. QED
      BY <1>2, <2>1, Kinds DEF MarginRows
  <1>6. CASE MarginRows(L) = {}
    <2>1. row.time >= call.time
      BY <1>3, <1>6 DEF CallReplayed, NoCall
    <2>2. MarginRows(M) = {n + 1}
      BY <1>4, <1>6
    <2>3. QED
      BY <1>1, <2>1, <2>2 DEF CallReplayed, M
  <1>7. CASE MarginRows(L) # {}
    <2>1. PICK i \in MarginRows(L) :
            /\ call = L[i]
            /\ \A j \in MarginRows(L) : \/ L[j].time < L[i].time
                                        \/ L[j].time = L[i].time /\ j <= i
      BY <1>7 DEF CallReplayed
    <2>2. \A j \in MarginRows(L) : M[j] = L[j] /\ j \in 1..n
      BY <1>1, <1>4
    <2>3. CASE row.time >= call.time
      <3>1. \A j \in MarginRows(M) : \/ M[j].time < M[n + 1].time
                                     \/ M[j].time = M[n + 1].time /\ j <= n + 1
        BY <1>1, <1>3, <1>4, <1>5, <2>1, <2>2, <2>3
      <3>2. CallReplayed(M, row)
        BY <1>1, <1>4, <3>1 DEF CallReplayed
      <3>3. QED
        BY <2>3, <3>2 DEF M
    <2>4. CASE ~ (row.time >= call.time)
      <3>1. \A j \in MarginRows(M) : \/ M[j].time < M[i].time
                                     \/ M[j].time = M[i].time /\ j <= i
        BY <1>1, <1>3, <1>4, <1>5, <2>1, <2>2, <2>4
      <3>2. CallReplayed(M, call)
        BY <1>4, <2>1, <2>2, <3>1 DEF CallReplayed
      <3>3. QED
        BY <2>4, <3>2 DEF M
    <2>5. QED
      BY <2>3, <2>4
  <1>8. QED
    BY <1>6, <1>7

LEMMA ReplaysStep == TypeOK /\ OutboundReplays /\ [Next]_vars => OutboundReplays'
  <1> SUFFICES ASSUME TypeOK, OutboundReplays, [Next]_vars
               PROVE  OutboundReplays'
    OBVIOUS
  <1>1. ReplayOf(Log)
    BY ReplaysLog
  <1>2. OutboundReplays' <=> ReplayOf(Log)'
    BY ReplaysLog, PTL
  <1>3. CASE UNCHANGED <<Log, writers, account>>
    BY <1>1, <1>2, <1>3 DEF ReplayOf
  <1>4. CASE /\ Apply /\ Log \in Seq(Row) /\ Head(pending) \in Row
             /\ Log' = Append(Log, Head(pending))
    <2> DEFINE row == Head(pending)
               id == RoutingId(row)
    <2>1. row \in Row /\ id \in Subscribed \cup {Account}
      BY <1>4 DEF Apply, TypeOK
    <2>2. /\ \A s \in Subscribed \cup {Account} : writers[s] \in SymbolBookkeeping
          /\ account \in AccountBookkeeping
          /\ writers \in [Subscribed \cup {Account} -> SymbolBookkeeping]
      BY DEF TypeOK
    <2>3. CASE row.kind = "order"
      <3>1. id \in Subscribed /\ row \in OrderTrade /\ id = SymbolOf[row.key]
        BY <2>1, <2>3, Routed, Kinds DEF RoutingId
      <3>2. /\ writers' = [writers EXCEPT ![id].open_orders = ApplyOrder(@, row)]
            /\ account' = account
        BY <1>4, <2>3 DEF Apply
      <3>3. ASSUME NEW s \in Subscribed
            PROVE  OrdersReplayed(Append(Log, row), s, writers'[s].open_orders)
        <4>1. CASE s = id
          <5>1. writers'[s].open_orders = ApplyOrder(writers[s].open_orders, row)
            BY <2>2, <3>2, <4>1 DEF SymbolBookkeeping
          <5>2. QED
            BY <1>1, <1>4, <3>1, <4>1, <5>1, OrderRow DEF ReplayOf
        <4>2. CASE s # id
          <5>1. writers'[s].open_orders = writers[s].open_orders
            BY <2>2, <3>2, <4>2
          <5>2. QED
            BY <1>1, <1>4, <2>1, <3>1, <4>2, <5>1, OtherRow DEF ReplayOf
        <4>3. QED
          BY <4>1, <4>2
      <3>4. QED
        BY <1>1, <1>2, <1>4, <2>1, <2>3, <3>2, <3>3, OtherRow DEF ReplayOf
    <2>4. CASE row.kind = "position"
      <3>1. id \in Subscribed /\ row \in PositionChange
        BY <2>1, <2>4, Routed, Kinds
      <3>2. /\ writers' = [writers EXCEPT ![id].positions = ApplyPosition(@, row)]
            /\ account' = [account EXCEPT !.positions = ApplyPosition(@, row)]
        BY <1>4, <2>4 DEF Apply
      <3>3. \A s \in Subscribed : writers'[s].open_orders = writers[s].open_orders
        BY <2>2, <3>2 DEF SymbolBookkeeping
      <3>4. /\ account'.positions = ApplyPosition(account.positions, row)
            /\ account'.balances = account.balances
            /\ account'.call = account.call
        BY <2>2, <3>2 DEF AccountBookkeeping
      <3>5. PositionsReplayed(Append(Log, row), account'.positions)
        BY <1>1, <1>4, <3>1, <3>4, PositionRow DEF ReplayOf
      <3>6. QED
        BY <1>1, <1>2, <1>4, <2>1, <2>4, <3>3, <3>4, <3>5, OtherRow DEF ReplayOf
    <2>5. CASE row.kind = "balance"
      <3>1. row \in BalanceChange
        BY <2>1, <2>5, Kinds
      <3>2. /\ writers' = writers
            /\ account' = [account EXCEPT !.balances = Insert(@, row.key, row.amount)]
        BY <1>4, <2>5 DEF Apply
      <3>3. /\ account'.balances = Insert(account.balances, row.key, row.amount)
            /\ account'.positions = account.positions
            /\ account'.call = account.call
        BY <2>2, <3>2 DEF AccountBookkeeping
      <3>4. BalancesReplayed(Append(Log, row), account'.balances)
        BY <1>1, <1>4, <3>1, <3>3, BalanceRow DEF ReplayOf
      <3>5. QED
        BY <1>1, <1>2, <1>4, <2>1, <2>5, <3>2, <3>3, <3>4, OtherRow DEF ReplayOf
    <2>6. CASE row.kind = "margin"
      <3>1. row \in MarginCall /\ ApplyMargin(row)
        BY <1>4, <2>1, <2>6, Kinds DEF Apply
      <3>2. account'.call = IF row.time >= account.call.time THEN row ELSE account.call
        BY <2>2, <3>1 DEF ApplyMargin, Supersedes, AccountBookkeeping
      <3>3. account'.balances = account.balances /\ account'.positions = account.positions
        BY <2>2, <3>1 DEF ApplyMargin, AccountBookkeeping
      <3>4. \A s \in Subscribed : writers'[s].open_orders = writers[s].open_orders
        BY <2>2, <3>1 DEF ApplyMargin, SymbolBookkeeping
      <3>5. CallReplayed(Append(Log, row), account'.call)
        BY <1>1, <1>4, <3>1, <3>2, MarginRow DEF ReplayOf
      <3>6. QED
        BY <1>1, <1>2, <1>4, <2>1, <2>6, <3>3, <3>4, <3>5, OtherRow DEF ReplayOf
    <2>7. CASE row.kind = "expired"
      <3>1. UNCHANGED <<writers, account>>
        BY <1>4, <2>7 DEF Apply
      <3>2. QED
        BY <1>1, <1>2, <1>4, <2>1, <2>7, <3>1, OtherRow DEF ReplayOf
    <2>8. QED
      BY <2>1, <2>3, <2>4, <2>5, <2>6, <2>7, Kinds
  <1>5. QED
    BY <1>3, <1>4, LogStep

LEMMA ReplaysInit == Init => OutboundReplays
  <1> SUFFICES ASSUME Init PROVE OutboundReplays
    OBVIOUS
  <1>1. Log = <<>> /\ DOMAIN Log = {}
    BY DEF Init, Log
  <1>2. MarginRows(Log) = {} /\ \A kind, key : Rows(Log, kind, key) = {}
    BY <1>1 DEF MarginRows, Rows
  <1>3. account.balances = Empty /\ account.positions = Empty /\ account.call = NoCall
    BY DEF Init
  <1>4. \A s \in Subscribed : writers[s].open_orders = Empty
    BY DEF Init
  <1>5. BalancesReplayed(Log, Empty) /\ PositionsReplayed(Log, Empty)
    BY <1>2 DEF BalancesReplayed, PositionsReplayed, Empty
  <1>6. \A s \in Subscribed : OrdersReplayed(Log, s, Empty)
    BY <1>2 DEF OrdersReplayed, Empty
  <1>7. QED
    BY <1>2, <1>3, <1>4, <1>5, <1>6, ReplaysLog DEF ReplayOf, CallReplayed

(***************************************************************************)
(* A consumer of the outbound channel misses nothing: the account and the  *)
(* handlers are what the last forwarded row of each asset, leg and order   *)
(* and the newest margin call say.                                         *)
(***************************************************************************)
THEOREM ChannelReplays == Spec => []OutboundReplays
  <1>1. QED
    BY ReplaysInit, ReplaysStep, TypeCorrect, PTL DEF Spec

-----------------------------------------------------------------------------
\* The payloads in flight.

Keyed(row) == row.kind \in {"order", "position", "balance"}

Carries(rows, kind, key) == \E i \in DOMAIN rows : rows[i].kind = kind /\ rows[i].key = key

\* A payload behind the f-th of the socket has a row of the key.
Later(f, kind, key) ==
  \E g \in DOMAIN socket : g > f /\ Carries(Parse(socket[g]), kind, key)

\* The rows of the payload being ingested that no state has seen yet.
Unapplied == IF applied THEN Tail(pending) ELSE pending

\* The row says what the venue holds now.
Says(row, h) ==
  CASE row.kind = "order" -> row.key \in DOMAIN h.orders /\ row.status = h.orders[row.key]
    [] row.kind = "position" -> row.key \in DOMAIN h.positions /\ row.amount = h.positions[row.key]
    [] OTHER -> row.key \in DOMAIN h.balances /\ row.amount = h.balances[row.key]
AsHeld(row) == Says(row, held)

\* The state of a key is the venue's.
BalanceSettled(a) ==
  /\ a \in DOMAIN account.balances <=> a \in DOMAIN held.balances
  /\ a \in DOMAIN held.balances => account.balances[a] = held.balances[a]

PositionSettled(l) ==
  LET open == l \in DOMAIN held.positions /\ held.positions[l] \notin Flat IN
  /\ l \in DOMAIN account.positions <=> open
  /\ open => account.positions[l] = held.positions[l]

OrderSettled(o) ==
  LET open == o \in DOMAIN held.orders /\ held.orders[o] \in OpenStatus
      mine == writers[SymbolOf[o]].open_orders
  IN
  /\ o \in DOMAIN mine <=> open
  /\ open => mine[o] = held.orders[o]

\* No row of the key is on its way, and the last one was not left out.
Quiet(kind, key) ==
  /\ Fresh(kind, key)
  /\ ~ Later(0, kind, key)
  /\ ~ Carries(Unapplied, kind, key)

\* An order comes alone in its payload, so ingest_message never leaves it out.
Alone ==
  /\ \A f \in DOMAIN socket : \A i \in DOMAIN Parse(socket[f]) :
       Parse(socket[f])[i].kind = "order" => Len(Parse(socket[f])) = 1
  /\ \A o \in Order : Fresh("order", o)

\* The last payload that has a row of a key says what the venue holds.
LastIsHeld ==
  /\ \A f \in DOMAIN socket : \A i \in DOMAIN Parse(socket[f]) :
       LET row == Parse(socket[f])[i] IN
         Keyed(row) /\ ~ Later(f, row.kind, row.key) => AsHeld(row)
  /\ \A i \in DOMAIN Unapplied :
       LET row == Unapplied[i] IN
         Keyed(row) /\ Fresh(row.kind, row.key) /\ ~ Later(0, row.kind, row.key) => AsHeld(row)

\* And when there is no such payload, the state does.
QuietIsSettled ==
  /\ \A a \in Asset : Quiet("balance", a) => BalanceSettled(a)
  /\ \A l \in Subscribed \X Side : Quiet("position", l) => PositionSettled(l)
  /\ \A o \in Order : SymbolOf[o] \in Subscribed /\ Quiet("order", o) => OrderSettled(o)

Delivery == Alone /\ LastIsHeld /\ QuietIsSettled

IInv == TypeOK /\ Delivery

LEMMA CarriesHead ==
  ASSUME NEW rows \in Seq(Row), rows # <<>>, NEW kind, NEW key
  PROVE  Carries(rows, kind, key) <=>
           (Head(rows).kind = kind /\ Head(rows).key = key) \/ Carries(Tail(rows), kind, key)
  <1>1. /\ Len(rows) \in Nat \ {0} /\ DOMAIN rows = 1..Len(rows) /\ Head(rows) = rows[1]
        /\ DOMAIN Tail(rows) = 1..(Len(rows) - 1)
        /\ \A i \in 1..(Len(rows) - 1) : Tail(rows)[i] = rows[i + 1]
    OBVIOUS
  <1>2. ASSUME Carries(rows, kind, key)
        PROVE  (Head(rows).kind = kind /\ Head(rows).key = key) \/ Carries(Tail(rows), kind, key)
    <2>1. PICK i \in 1..Len(rows) : rows[i].kind = kind /\ rows[i].key = key
      BY <1>1, <1>2 DEF Carries
    <2>2. CASE i # 1
      <3>1. i - 1 \in 1..(Len(rows) - 1) /\ Tail(rows)[i - 1] = rows[i]
        BY <1>1, <2>2
      <3>2. QED
        BY <1>1, <2>1, <3>1 DEF Carries
    <2>3. QED
      BY <1>1, <2>1, <2>2
  <1>3. ASSUME Carries(Tail(rows), kind, key)
        PROVE  Carries(rows, kind, key)
    <2>1. PICK i \in 1..(Len(rows) - 1) : Tail(rows)[i].kind = kind /\ Tail(rows)[i].key = key
      BY <1>1, <1>3 DEF Carries
    <2>2. i + 1 \in 1..Len(rows) /\ rows[i + 1] = Tail(rows)[i]
      BY <1>1
    <2>3. QED
      BY <1>1, <2>1, <2>2 DEF Carries
  <1>4. ASSUME Head(rows).kind = kind, Head(rows).key = key
        PROVE  Carries(rows, kind, key)
    BY <1>1, <1>4 DEF Carries
  <1>5. QED
    BY <1>2, <1>3, <1>4

\* KeysOf(rows) are the keys that the rows carry.
LEMMA CarriedKeys ==
  ASSUME NEW rows, NEW kind \in {"order", "position", "balance"}, NEW key
  PROVE  <<kind, key>> \in KeysOf(rows) <=> Carries(rows, kind, key)
  BY DEF KeysOf, Carries

\* What the socket carries behind a payload, as payloads come and go.
LEMMA TellLater ==
  ASSUME TypeOK, NEW p, p \in [rows : Seq(Row), valid : BOOLEAN], socket' = Append(socket, p)
  PROVE  /\ DOMAIN socket' = DOMAIN socket \cup {Len(socket) + 1}
         /\ \A f \in DOMAIN socket : socket'[f] = socket[f]
         /\ socket'[Len(socket) + 1] = p
         /\ \A f \in DOMAIN socket \cup {0} : \A kind, key :
              Later(f, kind, key)' <=> Later(f, kind, key) \/ Carries(Parse(p), kind, key)
  <1>1. socket \in Seq([rows : Seq(Row), valid : BOOLEAN])
    BY DEF TypeOK
  <1>2. /\ Len(socket) \in Nat /\ DOMAIN socket = 1..Len(socket)
        /\ DOMAIN socket' = 1..(Len(socket) + 1) /\ socket'[Len(socket) + 1] = p
        /\ \A f \in 1..Len(socket) : socket'[f] = socket[f]
    BY <1>1
  <1>3. ASSUME NEW f \in DOMAIN socket \cup {0}, NEW kind, NEW key
        PROVE  Later(f, kind, key)' <=> Later(f, kind, key) \/ Carries(Parse(p), kind, key)
    <2>1. Later(f, kind, key)' <=>
            \E g \in DOMAIN socket' : g > f /\ Carries(Parse(socket'[g]), kind, key)
      BY DEF Later, Carries, Parse
    <2>2. Len(socket) + 1 > f
      BY <1>2
    <2>3. QED
      BY <1>2, <2>1, <2>2 DEF Later
  <1>4. QED
    BY <1>2, <1>3

LEMMA TailLater ==
  ASSUME TypeOK, socket # <<>>, socket' = Tail(socket)
  PROVE  /\ 1 \in DOMAIN socket /\ Head(socket) = socket[1]
         /\ \A f \in DOMAIN socket' : f + 1 \in DOMAIN socket /\ socket'[f] = socket[f + 1]
         /\ \A f \in DOMAIN socket' \cup {0} : \A kind, key :
              Later(f, kind, key)' <=> Later(f + 1, kind, key)
         /\ \A kind, key :
              Later(0, kind, key) <=> Carries(Parse(Head(socket)), kind, key) \/ Later(1, kind, key)
  <1>1. socket \in Seq([rows : Seq(Row), valid : BOOLEAN])
    BY DEF TypeOK
  <1>2. /\ Len(socket) \in Nat \ {0} /\ DOMAIN socket = 1..Len(socket) /\ Head(socket) = socket[1]
        /\ DOMAIN socket' = 1..(Len(socket) - 1)
        /\ \A f \in 1..(Len(socket) - 1) : socket'[f] = socket[f + 1]
    BY <1>1
  <1>3. ASSUME NEW f \in DOMAIN socket' \cup {0}, NEW kind, NEW key
        PROVE  Later(f, kind, key)' <=> Later(f + 1, kind, key)
    <2>1. Later(f, kind, key)' <=>
            \E g \in DOMAIN socket' : g > f /\ Carries(Parse(socket'[g]), kind, key)
      BY DEF Later, Carries, Parse
    <2>2. ASSUME NEW g \in DOMAIN socket', g > f, Carries(Parse(socket'[g]), kind, key)
          PROVE  Later(f + 1, kind, key)
      <3>1. g + 1 \in DOMAIN socket /\ g + 1 > f + 1 /\ socket[g + 1] = socket'[g]
        BY <1>2, <2>2
      <3>2. QED
        BY <2>2, <3>1 DEF Later
    <2>3. ASSUME NEW g \in DOMAIN socket, g > f + 1, Carries(Parse(socket[g]), kind, key)
          PROVE  \E h \in DOMAIN socket' : h > f /\ Carries(Parse(socket'[h]), kind, key)
      <3>1. g - 1 \in DOMAIN socket' /\ g - 1 > f /\ socket'[g - 1] = socket[g]
        BY <1>2, <2>3
      <3>2. QED
        BY <2>3, <3>1
    <2>4. QED
      BY <2>1, <2>2, <2>3 DEF Later
  <1>4. ASSUME NEW kind, NEW key
        PROVE  Later(0, kind, key) <=>
                 Carries(Parse(Head(socket)), kind, key) \/ Later(1, kind, key)
    BY <1>2 DEF Later
  <1>5. QED
    BY <1>2, <1>3, <1>4

-----------------------------------------------------------------------------
\* The venue tells what it holds.

\* The rows of a new payload are what the venue holds now, and it holds what it did
\* under every other key.
SaysHeld(new, h) ==
  \A i \in DOMAIN new : /\ Keyed(new[i]) => Says(new[i], h)
                        /\ new[i].kind = "order" => Len(new) = 1
SameBut(new, kind, m1, m2) ==
  \A k : ~ Carries(new, kind, k) =>
    /\ k \in DOMAIN m2 <=> k \in DOMAIN m1
    /\ k \in DOMAIN m1 => m2[k] = m1[k]

LEMMA TellDelivery ==
  ASSUME TypeOK, Delivery, NEW rows \in Seq(Row), NEW valid \in BOOLEAN, Tell(rows, valid),
         NEW new, new = Parse([rows |-> rows, valid |-> valid]),
         SaysHeld(new, held'),
         SameBut(new, "order", held.orders, held'.orders),
         SameBut(new, "position", held.positions, held'.positions),
         SameBut(new, "balance", held.balances, held'.balances)
  PROVE  Delivery'
  <1> DEFINE p == [rows |-> rows, valid |-> valid]
             n == Len(socket)
  <1>0. /\ \A i \in DOMAIN new : Keyed(new[i]) => Says(new[i], held')
        /\ \A i \in DOMAIN new : new[i].kind = "order" => Len(new) = 1
        /\ \A k : ~ Carries(new, "order", k) =>
             /\ k \in DOMAIN held'.orders <=> k \in DOMAIN held.orders
             /\ k \in DOMAIN held.orders => held'.orders[k] = held.orders[k]
        /\ \A k : ~ Carries(new, "position", k) =>
             /\ k \in DOMAIN held'.positions <=> k \in DOMAIN held.positions
             /\ k \in DOMAIN held.positions => held'.positions[k] = held.positions[k]
        /\ \A k : ~ Carries(new, "balance", k) =>
             /\ k \in DOMAIN held'.balances <=> k \in DOMAIN held.balances
             /\ k \in DOMAIN held.balances => held'.balances[k] = held.balances[k]
    BY DEF SaysHeld, SameBut
  <1>1. /\ p \in [rows : Seq(Row), valid : BOOLEAN] /\ socket' = Append(socket, p)
        /\ UNCHANGED <<pending, applied, writers, account, outbound, skipped>>
    BY DEF Tell, clientVars
  <1>2. /\ DOMAIN socket' = DOMAIN socket \cup {n + 1}
        /\ \A f \in DOMAIN socket : socket'[f] = socket[f]
        /\ socket'[n + 1] = p
        /\ \A f \in DOMAIN socket \cup {0} : \A kind, key :
              Later(f, kind, key)' <=> Later(f, kind, key) \/ Carries(new, kind, key)
    BY <1>1, TellLater
  <1>3. ASSUME NEW row, Keyed(row), ~ Carries(new, row.kind, row.key), AsHeld(row)
        PROVE  Says(row, held')
    <2>1. CASE row.kind = "order"
      BY <1>0, <1>3, <2>1 DEF Says, AsHeld
    <2>2. CASE row.kind = "position"
      BY <1>0, <1>3, <2>2 DEF Says, AsHeld
    <2>3. CASE row.kind = "balance"
      BY <1>0, <1>3, <2>3 DEF Says, AsHeld
    <2>4. QED
      BY <1>3, <2>1, <2>2, <2>3 DEF Keyed
  <1>4. Parse(p) = new
    OBVIOUS
  <1> HIDE DEF p
  <1>5. Alone'
    <2>1. \A kind, key : Fresh(kind, key)' <=> Fresh(kind, key)
      BY <1>1 DEF Fresh
    <2>2. \A f \in DOMAIN socket' : \A i \in DOMAIN Parse(socket'[f]) :
            Parse(socket'[f])[i].kind = "order" => Len(Parse(socket'[f])) = 1
      BY <1>0, <1>2, <1>4 DEF Delivery, Alone
    <2>3. QED
      BY <2>1, <2>2 DEF Delivery, Alone, Parse
  <1>6. LastIsHeld'
    <2>1. ASSUME NEW f \in DOMAIN socket', NEW i \in DOMAIN Parse(socket'[f]), NEW row,
                 row = Parse(socket'[f])[i], Keyed(row), ~ Later(f, row.kind, row.key)'
          PROVE  Says(row, held')
      <3>1. CASE f = n + 1
        BY <1>0, <1>2, <1>4, <2>1, <3>1
      <3>2. CASE f \in DOMAIN socket
        <4>1. ~ Later(f, row.kind, row.key) /\ ~ Carries(new, row.kind, row.key)
          BY <1>2, <2>1, <3>2
        <4>2. row = Parse(socket[f])[i] /\ i \in DOMAIN Parse(socket[f])
          BY <1>2, <2>1, <3>2
        <4>3. AsHeld(row)
          BY <2>1, <3>2, <4>1, <4>2 DEF Delivery, LastIsHeld
        <4>4. QED
          BY <1>3, <2>1, <4>1, <4>3
      <3>3. QED
        BY <1>2, <3>1, <3>2
    <2>2. Unapplied' = Unapplied
      BY <1>1 DEF Unapplied
    <2>3. ASSUME NEW i \in DOMAIN Unapplied, NEW row, row = Unapplied[i], Keyed(row),
                 Fresh(row.kind, row.key)', ~ Later(0, row.kind, row.key)'
          PROVE  Says(row, held')
      <3>1. ~ Later(0, row.kind, row.key) /\ ~ Carries(new, row.kind, row.key)
        BY <1>2, <2>3
      <3>2. Fresh(row.kind, row.key)
        BY <1>1, <2>3 DEF Fresh
      <3>3. AsHeld(row)
        BY <2>3, <3>1, <3>2 DEF Delivery, LastIsHeld
      <3>4. QED
        BY <1>3, <2>3, <3>1, <3>3
    <2>4. QED
      BY <2>1, <2>2, <2>3 DEF LastIsHeld, Parse, Keyed, AsHeld
  <1>7. ASSUME NEW kind, NEW key, Quiet(kind, key)'
        PROVE  Quiet(kind, key) /\ ~ Carries(new, kind, key)
    <2>1. Unapplied' = Unapplied /\ Fresh(kind, key)' = Fresh(kind, key)
      BY <1>1 DEF Unapplied, Fresh
    <2>2. QED
      BY <1>2, <1>7, <2>1 DEF Quiet, Carries
  <1>8. QuietIsSettled'
    <2>1. ASSUME NEW a \in Asset, Quiet("balance", a)'
          PROVE  BalanceSettled(a)'
      <3>1. BalanceSettled(a) /\ ~ Carries(new, "balance", a)
        BY <1>7, <2>1 DEF Delivery, QuietIsSettled
      <3>2. QED
        BY <1>0, <1>1, <3>1 DEF BalanceSettled
    <2>2. ASSUME NEW l \in Subscribed \X Side, Quiet("position", l)'
          PROVE  PositionSettled(l)'
      <3>1. PositionSettled(l) /\ ~ Carries(new, "position", l)
        BY <1>7, <2>2 DEF Delivery, QuietIsSettled
      <3>2. QED
        BY <1>0, <1>1, <3>1 DEF PositionSettled
    <2>3. ASSUME NEW o \in Order, SymbolOf[o] \in Subscribed, Quiet("order", o)'
          PROVE  OrderSettled(o)'
      <3>1. OrderSettled(o) /\ ~ Carries(new, "order", o)
        BY <1>7, <2>3 DEF Delivery, QuietIsSettled
      <3>2. QED
        BY <1>0, <1>1, <3>1 DEF OrderSettled
    <2>4. QED
      BY <2>1, <2>2, <2>3 DEF QuietIsSettled
  <1>9. QED
    BY <1>5, <1>6, <1>8 DEF Delivery

LEMMA OrderDelivery ==
  ASSUME TypeOK, Delivery, NEW o \in Order, NEW s \in Status, TellOrder(o, s)
  PROVE  Delivery'
  <1> DEFINE row == [kind |-> "order", key |-> o, status |-> s]
             new == <<row>>
  <1>1. new \in Seq(Row) /\ new = Parse([rows |-> new, valid |-> TRUE])
    BY DEF Parse, Row, OrderTrade
  <1>2. held' = [held EXCEPT !.orders = Insert(@, o, s)] /\ Tell(new, TRUE)
    BY DEF TellOrder
  <1>3. /\ held'.orders = Insert(held.orders, o, s)
        /\ held'.positions = held.positions /\ held'.balances = held.balances
    BY <1>2 DEF TypeOK
  <1>4. \A i \in DOMAIN new : new[i] = row
    OBVIOUS
  <1>5. Says(row, held')
    BY <1>3 DEF Says, Insert
  <1>6. \A k : ~ Carries(new, "order", k) => k # o
    BY DEF Carries
  <1>7. \A k : k # o =>
          /\ k \in DOMAIN held'.orders <=> k \in DOMAIN held.orders
          /\ k \in DOMAIN held.orders => held'.orders[k] = held.orders[k]
    BY <1>3 DEF Insert
  <1>8. \A i \in DOMAIN new : Len(new) = 1
    OBVIOUS
  <1>9. \A i \in DOMAIN new : Says(new[i], held')
    BY <1>4, <1>5
  <1> HIDE DEF new
  <1>10. /\ SaysHeld(new, held') /\ SameBut(new, "order", held.orders, held'.orders)
         /\ SameBut(new, "position", held.positions, held'.positions)
         /\ SameBut(new, "balance", held.balances, held'.balances)
    <2>1. SaysHeld(new, held')
      BY <1>8, <1>9 DEF SaysHeld
    <2>2. SameBut(new, "order", held.orders, held'.orders)
      BY <1>6, <1>7 DEF SameBut
    <2>3. QED
      BY <1>3, <2>1, <2>2 DEF SameBut
  <1>11. QED
    BY <1>1, <1>2, <1>10, TellDelivery

\* The rows of an ACCOUNT_UPDATE have keys of their own.
LEMMA KeysAreDistinct ==
  ASSUME NEW R, NEW rows \in RowSeqs(R), NEW i \in DOMAIN rows, NEW j \in DOMAIN rows,
         rows[i].key = rows[j].key
  PROVE  i = j
  <1> DEFINE n == Len(rows)
             f == [x \in 1..n |-> rows[x].key]
  <1>1. rows \in Seq(R) /\ Cardinality(Keys(rows)) = n
    BY RowSeqsType DEF RowSeqs
  <1>2. n \in Nat /\ DOMAIN rows = 1..n
    BY <1>1
  <1>3. f \in Surjection(1..n, Keys(rows))
    BY <1>2 DEF Surjection, Keys
  <1>4. IsFiniteSet(1..n) /\ Cardinality(1..n) = n
    <2>1. 1 \in Int /\ n \in Int
      BY <1>2
    <2> HIDE DEF n
    <2>2. IsFiniteSet(1..n) /\ Cardinality(1..n) = IF 1 > n THEN 0 ELSE n - 1 + 1
      BY <2>1, FS_Interval
    <2>3. QED
      BY <1>2, <2>2
  <1>5. f \in Injection(1..n, Keys(rows))
    BY <1>1, <1>3, <1>4, FS_Surjection
  <1>6. \A a, b \in 1..n : f[a] = f[b] => a = b
    BY <1>5 DEF Injection, IsInjective
  <1>7. f[i] = f[j]
    BY <1>2
  <1>8. QED
    BY <1>2, <1>6, <1>7

LEMMA Overwritten ==
  ASSUME NEW m, NEW R, NEW rows \in RowSeqs(R)
  PROVE  /\ \A i \in DOMAIN rows :
              /\ rows[i].key \in DOMAIN Overwrite(m, rows)
              /\ Overwrite(m, rows)[rows[i].key] = rows[i].amount
         /\ \A k : k \notin Keys(rows) =>
              /\ k \in DOMAIN Overwrite(m, rows) <=> k \in DOMAIN m
              /\ k \in DOMAIN m => Overwrite(m, rows)[k] = m[k]
  <1>1. ASSUME NEW i \in DOMAIN rows
        PROVE  (CHOOSE r \in Range(rows) : r.key = rows[i].key) = rows[i]
    <2>1. rows[i] \in Range(rows)
      BY DEF Range
    <2>2. \A r \in Range(rows) : r.key = rows[i].key => r = rows[i]
      BY KeysAreDistinct DEF Range
    <2>3. QED
      BY <2>1, <2>2
  <1>2. \A i \in DOMAIN rows : rows[i].key \in Keys(rows)
    BY DEF Keys
  <1>3. QED
    BY <1>1, <1>2 DEF Overwrite

LEMMA AccountDelivery ==
  ASSUME TypeOK, Delivery, NEW b \in RowSeqs(BalanceChange), NEW p \in RowSeqs(PositionChange),
         TellAccount(b, p)
  PROVE  Delivery'
  <1> DEFINE new == b \o p
  <1>1. b \in Seq(BalanceChange) /\ p \in Seq(PositionChange)
    BY RowSeqsType
  <1>2. new \in Seq(Row) /\ new = Parse([rows |-> new, valid |-> TRUE])
    BY <1>1 DEF Row, Parse
  <1>3. /\ held' = [held EXCEPT !.balances = Overwrite(@, b), !.positions = Overwrite(@, p)]
        /\ Tell(new, TRUE)
    BY DEF TellAccount
  <1>4. /\ held'.orders = held.orders
        /\ held'.positions = Overwrite(held.positions, p)
        /\ held'.balances = Overwrite(held.balances, b)
    BY <1>3 DEF TypeOK
  <1>5. /\ Len(b) \in Nat /\ Len(p) \in Nat /\ DOMAIN b = 1..Len(b) /\ DOMAIN p = 1..Len(p)
        /\ DOMAIN new = 1..(Len(b) + Len(p))
        /\ \A i \in DOMAIN b : new[i] = b[i]
        /\ \A i \in DOMAIN p : new[Len(b) + i] = p[i]
    BY <1>1
  <1> HIDE DEF new
  <1>6. \A i \in DOMAIN new :
          (\E j \in DOMAIN b : new[i] = b[j]) \/ (\E j \in DOMAIN p : new[i] = p[j])
    <2>1. ASSUME NEW i \in DOMAIN new, i \notin DOMAIN b
          PROVE  \E j \in DOMAIN p : new[i] = p[j]
      <3>1. i - Len(b) \in DOMAIN p /\ Len(b) + (i - Len(b)) = i
        BY <1>5, <2>1
      <3>2. QED
        BY <1>5, <3>1
    <2>2. QED
      BY <1>5, <2>1
  <1>7. /\ \A j \in DOMAIN b : b[j].kind = "balance"
        /\ \A j \in DOMAIN p : p[j].kind = "position"
    <2>1. (\A j \in DOMAIN b : b[j] \in BalanceChange) /\ (\A j \in DOMAIN p : p[j] \in PositionChange)
      BY <1>1
    <2>2. QED
      BY <2>1 DEF BalanceChange, PositionChange
  <1>8. ASSUME NEW i \in DOMAIN new, NEW row, row = new[i]
        PROVE  Says(row, held') /\ row.kind # "order"
    <2>1. CASE \E j \in DOMAIN b : row = b[j]
      BY <1>4, <1>7, <2>1, Overwritten DEF Says, AsHeld
    <2>2. CASE \E j \in DOMAIN p : row = p[j]
      BY <1>4, <1>7, <2>2, Overwritten DEF Says, AsHeld
    <2>3. QED
      BY <1>6, <1>8, <2>1, <2>2
  <1>9. \A k : ~ Carries(new, "balance", k) => k \notin Keys(b)
    <2>1. ASSUME NEW j \in DOMAIN b
          PROVE  Carries(new, "balance", b[j].key)
      <3>1. j \in DOMAIN new /\ new[j] = b[j]
        BY <1>5
      <3>2. QED
        BY <1>7, <3>1 DEF Carries
    <2>2. QED
      BY <2>1 DEF Keys
  <1>10. \A k : ~ Carries(new, "position", k) => k \notin Keys(p)
    <2>1. ASSUME NEW j \in DOMAIN p
          PROVE  Carries(new, "position", p[j].key)
      <3>1. Len(b) + j \in DOMAIN new /\ new[Len(b) + j] = p[j]
        BY <1>5
      <3>2. QED
        BY <1>7, <3>1 DEF Carries
    <2>2. QED
      BY <2>1 DEF Keys
  <1>11. \A k : ~ Carries(new, "balance", k) =>
           /\ k \in DOMAIN held'.balances <=> k \in DOMAIN held.balances
           /\ k \in DOMAIN held.balances => held'.balances[k] = held.balances[k]
    BY <1>4, <1>9, Overwritten
  <1>12. \A k : ~ Carries(new, "position", k) =>
           /\ k \in DOMAIN held'.positions <=> k \in DOMAIN held.positions
           /\ k \in DOMAIN held.positions => held'.positions[k] = held.positions[k]
    BY <1>4, <1>10, Overwritten
  <1>13. \A i \in DOMAIN new : Says(new[i], held')
    BY <1>8
  <1>14. /\ SaysHeld(new, held') /\ SameBut(new, "order", held.orders, held'.orders)
         /\ SameBut(new, "position", held.positions, held'.positions)
         /\ SameBut(new, "balance", held.balances, held'.balances)
    BY <1>4, <1>8, <1>11, <1>12, <1>13 DEF SaysHeld, SameBut
  <1>15. QED
    BY <1>2, <1>3, <1>14, TellDelivery

LEMMA OtherDelivery ==
  ASSUME TypeOK, Delivery, TellOther
  PROVE  Delivery'
  <1>1. PICK rows \in Seq(Row), valid \in BOOLEAN :
          Tell(rows, valid) /\ \A i \in DOMAIN rows : ~ Keyed(rows[i])
    <2>1. CASE \E m \in MarginCall : Tell(<<m>>, TRUE)
      <3>1. PICK m \in MarginCall : Tell(<<m>>, TRUE)
        BY <2>1
      <3>2. <<m>> \in Seq(Row) /\ m.kind = "margin"
        BY DEF Row, MarginCall
      <3>3. \A i \in DOMAIN <<m>> : ~ Keyed(<<m>>[i])
        BY <3>2 DEF Keyed
      <3>4. QED
        BY <3>1, <3>2, <3>3
    <2>2. CASE Tell(<<[kind |-> "expired"]>>, TRUE)
      <3>1. <<[kind |-> "expired"]>> \in Seq(Row)
        BY DEF Row, ListenKeyExpired
      <3>2. \A i \in DOMAIN <<[kind |-> "expired"]>> : ~ Keyed(<<[kind |-> "expired"]>>[i])
        BY DEF Keyed
      <3>3. QED
        BY <2>2, <3>1, <3>2
    <2>3. CASE \E valid \in BOOLEAN : Tell(<<>>, valid)
      <3>1. <<>> \in Seq(Row) /\ \A i \in DOMAIN <<>> : ~ Keyed(<<>>[i])
        OBVIOUS
      <3>2. QED
        BY <2>3, <3>1
    <2>4. QED
      BY <2>1, <2>2, <2>3 DEF TellOther
  <1>2. held' = held
    BY DEF TellOther
  <1>3. \A i \in DOMAIN Parse([rows |-> rows, valid |-> valid]) :
          ~ Keyed(Parse([rows |-> rows, valid |-> valid])[i])
    BY <1>1 DEF Parse
  <1>4. PICK new : new = Parse([rows |-> rows, valid |-> valid])
    OBVIOUS
  <1>5. /\ SaysHeld(new, held') /\ SameBut(new, "order", held.orders, held'.orders)
        /\ SameBut(new, "position", held.positions, held'.positions)
        /\ SameBut(new, "balance", held.balances, held'.balances)
    BY <1>2, <1>3, <1>4 DEF SaysHeld, SameBut, Keyed
  <1>6. QED
    BY <1>1, <1>4, <1>5, TellDelivery

-----------------------------------------------------------------------------
\* A payload is taken from the socket.

LEMMA IngestDelivery ==
  ASSUME TypeOK, Delivery, pending = <<>>, socket # <<>>, socket' = Tail(socket),
         UNCHANGED <<held, writers, account>>,
         \A i \in DOMAIN Unapplied' :
           \E j \in DOMAIN Parse(Head(socket)) : Unapplied'[i] = Parse(Head(socket))[j],
         \A o \in Order : Fresh("order", o)',
         \A kind \in {"order", "position", "balance"} : \A key :
           Fresh(kind, key)' /\ ~ Carries(Unapplied', kind, key) =>
             Fresh(kind, key) /\ ~ Carries(Parse(Head(socket)), kind, key)
  PROVE  Delivery'
  <1>1. /\ 1 \in DOMAIN socket /\ Head(socket) = socket[1]
        /\ \A f \in DOMAIN socket' : f + 1 \in DOMAIN socket /\ socket'[f] = socket[f + 1]
        /\ \A f \in DOMAIN socket' \cup {0} : \A kind, key :
              Later(f, kind, key)' <=> Later(f + 1, kind, key)
        /\ \A kind, key :
              Later(0, kind, key) <=> Carries(Parse(Head(socket)), kind, key) \/ Later(1, kind, key)
    BY TailLater
  <1>2. \A row : AsHeld(row) => Says(row, held')
    BY DEF Says, AsHeld
  <1>3. Alone'
    BY <1>1 DEF Delivery, Alone, Parse
  <1>4. LastIsHeld'
    <2>1. ASSUME NEW f \in DOMAIN socket', NEW i \in DOMAIN Parse(socket'[f]), NEW row,
                 row = Parse(socket'[f])[i], Keyed(row), ~ Later(f, row.kind, row.key)'
          PROVE  Says(row, held')
      <3>1. f + 1 \in DOMAIN socket /\ socket'[f] = socket[f + 1] /\ ~ Later(f + 1, row.kind, row.key)
        BY <1>1, <2>1
      <3>2. QED
        BY <1>2, <2>1, <3>1 DEF Delivery, LastIsHeld
    <2>2. ASSUME NEW i \in DOMAIN Unapplied', NEW row, row = Unapplied'[i], Keyed(row),
                 ~ Later(0, row.kind, row.key)'
          PROVE  Says(row, held')
      <3>1. PICK j \in DOMAIN Parse(socket[1]) : row = Parse(socket[1])[j]
        BY <1>1, <2>2
      <3>2. ~ Later(1, row.kind, row.key)
        BY <1>1, <2>2
      <3>3. QED
        BY <1>1, <1>2, <2>2, <3>1, <3>2 DEF Delivery, LastIsHeld
    <2>3. QED
      BY <2>1, <2>2 DEF LastIsHeld, Parse, Keyed, AsHeld
  <1>5. ASSUME NEW kind \in {"order", "position", "balance"}, NEW key, Quiet(kind, key)'
        PROVE  Quiet(kind, key)
    <2>1. Fresh(kind, key)' /\ ~ Later(0, kind, key)' /\ ~ Carries(Unapplied', kind, key)
      BY <1>5 DEF Quiet, Carries
    <2>2. Fresh(kind, key) /\ ~ Later(0, kind, key)
      BY <1>1, <2>1
    <2>3. ~ Carries(Unapplied, kind, key)
      <3>1. Unapplied = <<>>
        BY DEF Unapplied, TypeOK
      <3>2. QED
        BY <3>1 DEF Carries
    <2>4. QED
      BY <2>2, <2>3 DEF Quiet
  <1>6. QuietIsSettled'
    BY <1>5 DEF Delivery, QuietIsSettled, BalanceSettled, PositionSettled, OrderSettled
  <1>7. QED
    BY <1>3, <1>4, <1>6 DEF Delivery

LEMMA WholePayload ==
  ASSUME TypeOK, Delivery, IngestUserData
  PROVE  Delivery'
  <1> DEFINE rows == Parse(Head(socket))
  <1>1. /\ pending = <<>> /\ socket # <<>> /\ pending' = rows /\ socket' = Tail(socket)
        /\ skipped' = skipped \ KeysOf(rows)
        /\ UNCHANGED <<held, sent, applied, writers, account, outbound>>
    BY DEF IngestUserData
  <1>2. Unapplied' = rows
    BY <1>1 DEF Unapplied, TypeOK
  <1>3. \A kind \in {"order", "position", "balance"} : \A key :
          Fresh(kind, key)' /\ ~ Carries(rows, kind, key) => Fresh(kind, key)
    BY <1>1, CarriedKeys DEF Fresh
  <1>4. \A o \in Order : Fresh("order", o)'
    BY <1>1 DEF Fresh, Delivery, Alone
  <1>5. QED
    BY <1>1, <1>2, <1>3, <1>4, IngestDelivery

LEMMA FirstRow ==
  ASSUME TypeOK, Delivery, IngestMessage
  PROVE  Delivery'
  <1> DEFINE rows == Parse(Head(socket))
  <1>1. /\ pending = <<>> /\ socket # <<>> /\ Len(rows) > 1 /\ pending' = <<Head(rows)>>
        /\ socket' = Tail(socket)
        /\ skipped' = (skipped \ KeysOf(<<Head(rows)>>)) \cup KeysOf(Tail(rows))
        /\ UNCHANGED <<held, sent, applied, writers, account, outbound>>
    BY DEF IngestMessage
  <1>2. rows \in Seq(Row) /\ rows # <<>>
    <2>1. Head(socket) \in [rows : Seq(Row), valid : BOOLEAN]
      BY <1>1, HeadTail DEF TypeOK
    <2>2. rows \in Seq(Row)
      BY <2>1, ParseType
    <2>3. QED
      BY <1>1, <2>2
  <1>3. Unapplied' = <<Head(rows)>>
    BY <1>1 DEF Unapplied, TypeOK
  <1>4. /\ 1 \in DOMAIN rows /\ Head(rows) = rows[1]
        /\ \A i \in DOMAIN Tail(rows) : i + 1 \in DOMAIN rows /\ Tail(rows)[i] = rows[i + 1]
    BY <1>2
  <1>5. \A kind, key : Carries(rows, kind, key) <=>
          Carries(<<Head(rows)>>, kind, key) \/ Carries(Tail(rows), kind, key)
    <2>1. \A kind, key : Carries(<<Head(rows)>>, kind, key)
                          <=> (Head(rows).kind = kind /\ Head(rows).key = key)
      BY DEF Carries
    <2>2. QED
      BY <1>2, <2>1, CarriesHead
  <1>6. ASSUME NEW kind \in {"order", "position", "balance"}, NEW key,
               Fresh(kind, key)', ~ Carries(Unapplied', kind, key)
        PROVE  Fresh(kind, key) /\ ~ Carries(rows, kind, key)
    <2>1. <<kind, key>> \notin KeysOf(<<Head(rows)>>) /\ <<kind, key>> \notin KeysOf(Tail(rows))
          /\ <<kind, key>> \notin skipped
      BY <1>1, <1>3, <1>6, CarriedKeys DEF Fresh
    <2>2. QED
      BY <1>5, <2>1, CarriedKeys DEF Fresh
  <1>7. \A o \in Order : Fresh("order", o)'
    <2>1. 1 \in DOMAIN socket /\ Head(socket) = socket[1]
      BY <1>1, TailLater
    <2>2. \A i \in DOMAIN rows : rows[i].kind # "order"
      BY <1>1, <1>2, <2>1 DEF Delivery, Alone
    <2>3. \A o : ~ Carries(Tail(rows), "order", o)
      BY <1>4, <2>2 DEF Carries
    <2>4. \A o : <<"order", o>> \notin KeysOf(Tail(rows))
      BY <2>3, CarriedKeys
    <2>5. QED
      BY <1>1, <2>4 DEF Delivery, Alone, Fresh
  <1>8. \A i \in DOMAIN Unapplied' : \E j \in DOMAIN rows : Unapplied'[i] = rows[j]
    BY <1>3, <1>4
  <1>9. QED
    BY <1>1, <1>6, <1>7, <1>8, IngestDelivery

-----------------------------------------------------------------------------
\* A row is applied, or dropped because no handler has its symbol.

\* The state of a row's key becomes the venue's if the row says what the venue holds;
\* no other key is touched.
LEMMA ConsumeDelivery ==
  ASSUME TypeOK, Delivery, pending # <<>>, ~ applied, Unapplied' = Tail(pending),
         UNCHANGED <<held, socket, skipped>>, NEW row, row = Head(pending),
         \A a \in Asset :
           (IF row.kind = "balance" /\ row.key = a THEN AsHeld(row) ELSE BalanceSettled(a))
             => BalanceSettled(a)',
         \A l \in Subscribed \X Side :
           (IF row.kind = "position" /\ row.key = l THEN AsHeld(row) ELSE PositionSettled(l))
             => PositionSettled(l)',
         \A o \in Order : SymbolOf[o] \in Subscribed =>
           ((IF row.kind = "order" /\ row.key = o THEN AsHeld(row) ELSE OrderSettled(o))
             => OrderSettled(o)')
  PROVE  Delivery'
  <1>1. /\ Unapplied = pending /\ pending \in Seq(Row)
        /\ \A kind, key : Carries(Unapplied, kind, key) <=>
             (row.kind = kind /\ row.key = key) \/ Carries(Unapplied', kind, key)
    <2>1. Unapplied = pending /\ pending \in Seq(Row)
      BY DEF Unapplied, TypeOK
    <2>2. \A kind, key : Carries(pending, kind, key) <=>
            (row.kind = kind /\ row.key = key) \/ Carries(Tail(pending), kind, key)
      BY <2>1, CarriesHead
    <2>3. QED
      BY <2>1, <2>2
  <1>2. /\ 1 \in DOMAIN Unapplied /\ row = Unapplied[1]
        /\ \A i \in DOMAIN Unapplied' : i + 1 \in DOMAIN Unapplied /\ Unapplied'[i] = Unapplied[i + 1]
    BY <1>1
  <1>3. /\ \A f, kind, key : Later(f, kind, key)' <=> Later(f, kind, key)
        /\ \A kind, key : Fresh(kind, key)' <=> Fresh(kind, key)
    BY DEF Later, Carries, Parse, Fresh
  <1>4. Alone'
    BY <1>3 DEF Delivery, Alone, Parse
  <1>5. LastIsHeld'
    BY <1>2, <1>3 DEF Delivery, LastIsHeld, Parse, Keyed, AsHeld
  <1>6. ASSUME NEW kind \in {"order", "position", "balance"}, NEW key, Quiet(kind, key)'
        PROVE  IF row.kind = kind /\ row.key = key THEN AsHeld(row) ELSE Quiet(kind, key)
    <2>1. Fresh(kind, key) /\ ~ Later(0, kind, key) /\ ~ Carries(Unapplied', kind, key)
      BY <1>3, <1>6 DEF Quiet, Carries
    <2>2. ASSUME row.kind = kind, row.key = key
          PROVE  AsHeld(row)
      BY <1>2, <2>1, <2>2 DEF Delivery, LastIsHeld, Keyed
    <2>3. QED
      BY <1>1, <2>1, <2>2 DEF Quiet
  <1>7. QuietIsSettled'
    <2>1. ASSUME NEW a \in Asset, Quiet("balance", a)'
          PROVE  BalanceSettled(a)'
      BY <1>6, <2>1 DEF Delivery, QuietIsSettled
    <2>2. ASSUME NEW l \in Subscribed \X Side, Quiet("position", l)'
          PROVE  PositionSettled(l)'
      BY <1>6, <2>2 DEF Delivery, QuietIsSettled
    <2>3. ASSUME NEW o \in Order, SymbolOf[o] \in Subscribed, Quiet("order", o)'
          PROVE  OrderSettled(o)'
      BY <1>6, <2>3 DEF Delivery, QuietIsSettled
    <2>4. QED
      BY <2>1, <2>2, <2>3 DEF QuietIsSettled
  <1>8. QED
    BY <1>4, <1>5, <1>7 DEF Delivery

LEMMA DropDelivery ==
  ASSUME TypeOK, Delivery, Unroutable
  PROVE  Delivery'
  <1> DEFINE row == Head(pending)
  <1>1. /\ pending # <<>> /\ ~ applied /\ pending' = Tail(pending)
        /\ RoutingId(row) \notin Subscribed \cup {Account}
        /\ UNCHANGED <<held, socket, sent, applied, writers, account, outbound, skipped>>
    BY DEF Unroutable, TypeOK
  <1>2. row \in Row
    BY <1>1, HeadTail DEF TypeOK
  <1>3. Unapplied' = Tail(pending)
    BY <1>1 DEF Unapplied
  <1>4. /\ row.kind # "balance"
        /\ row.kind = "order" => SymbolOf[row.key] \notin Subscribed
        /\ row.kind = "position" => row.key[1] \notin Subscribed
    BY <1>1 DEF RoutingId
  <1>5. \A l \in Subscribed \X Side : l[1] \in Subscribed
    OBVIOUS
  <1>6. /\ \A a : BalanceSettled(a)' <=> BalanceSettled(a)
        /\ \A l : PositionSettled(l)' <=> PositionSettled(l)
        /\ \A o : OrderSettled(o)' <=> OrderSettled(o)
    BY <1>1 DEF BalanceSettled, PositionSettled, OrderSettled
  <1>7. QED
    BY <1>1, <1>3, <1>4, <1>5, <1>6, ConsumeDelivery

LEMMA ApplyDelivery ==
  ASSUME TypeOK, Delivery, Apply
  PROVE  Delivery'
  <1> DEFINE row == Head(pending)
             id == RoutingId(row)
  <1>1. /\ pending # <<>> /\ ~ applied /\ applied' = TRUE /\ pending' = pending
        /\ UNCHANGED <<held, socket, sent, pending, outbound, skipped>>
        /\ id \in Subscribed \cup {Account}
    BY DEF Apply, TypeOK
  <1>2. row \in Row
    BY <1>1, HeadTail DEF TypeOK
  <1>3. Unapplied' = Tail(pending)
    BY <1>1 DEF Unapplied
  <1>4. /\ \A s \in Subscribed \cup {Account} : writers[s] \in SymbolBookkeeping
        /\ writers \in [Subscribed \cup {Account} -> SymbolBookkeeping]
        /\ account \in AccountBookkeeping
    BY DEF TypeOK
  <1>5. ASSUME account'.balances = account.balances
        PROVE  \A a : BalanceSettled(a) => BalanceSettled(a)'
    BY <1>1, <1>5 DEF BalanceSettled
  <1>6. ASSUME account'.positions = account.positions
        PROVE  \A l : PositionSettled(l) => PositionSettled(l)'
    BY <1>1, <1>6 DEF PositionSettled
  <1>7. ASSUME \A s \in Subscribed : writers'[s].open_orders = writers[s].open_orders
        PROVE  \A o : SymbolOf[o] \in Subscribed => (OrderSettled(o) => OrderSettled(o)')
    BY <1>1, <1>7 DEF OrderSettled
  <1>8. CASE row.kind = "order"
    <2>1. id \in Subscribed /\ row \in OrderTrade /\ id = SymbolOf[row.key]
      BY <1>1, <1>2, <1>8, Routed, Kinds DEF RoutingId
    <2>2. /\ writers' = [writers EXCEPT ![id].open_orders = ApplyOrder(@, row)]
          /\ account' = account
      BY <1>8 DEF Apply
    <2>3. /\ writers'[id].open_orders = ApplyOrder(writers[id].open_orders, row)
          /\ \A s \in Subscribed : s # id => writers'[s] = writers[s]
      BY <1>4, <2>1, <2>2 DEF SymbolBookkeeping
    <2>4. AsHeld(row) => OrderSettled(row.key)'
      <3>1. CASE row.status \in OpenStatus
        BY <1>1, <1>8, <2>1, <2>3, <3>1 DEF AsHeld, Says, OrderSettled, ApplyOrder, Insert
      <3>2. CASE row.status \notin OpenStatus
        BY <1>1, <1>8, <2>1, <2>3, <3>2 DEF AsHeld, Says, OrderSettled, ApplyOrder, Delete
      <3>3. QED
        BY <3>1, <3>2
    <2>5. ASSUME NEW o \in Order, SymbolOf[o] \in Subscribed, o # row.key, OrderSettled(o)
          PROVE  OrderSettled(o)'
      <3>1. CASE SymbolOf[o] = id
        BY <1>1, <2>3, <2>5, <3>1 DEF OrderSettled, ApplyOrder, Insert, Delete
      <3>2. CASE SymbolOf[o] # id
        BY <1>1, <2>3, <2>5, <3>2 DEF OrderSettled
      <3>3. QED
        BY <3>1, <3>2
    <2>6. QED
      BY <1>1, <1>3, <1>5, <1>6, <1>8, <2>2, <2>4, <2>5, ConsumeDelivery
  <1>9. CASE row.kind = "position"
    <2>1. id \in Subscribed /\ row \in PositionChange
      BY <1>1, <1>2, <1>9, Routed, Kinds
    <2>2. /\ writers' = [writers EXCEPT ![id].positions = ApplyPosition(@, row)]
          /\ account' = [account EXCEPT !.positions = ApplyPosition(@, row)]
      BY <1>9 DEF Apply
    <2>3. /\ \A s \in Subscribed : writers'[s].open_orders = writers[s].open_orders
          /\ account'.positions = ApplyPosition(account.positions, row)
          /\ account'.balances = account.balances
      BY <1>4, <2>2 DEF SymbolBookkeeping, AccountBookkeeping
    <2>4. AsHeld(row) => PositionSettled(row.key)'
      <3>1. CASE row.amount \in Flat
        BY <1>1, <1>9, <2>3, <3>1 DEF AsHeld, Says, PositionSettled, ApplyPosition, Delete
      <3>2. CASE row.amount \notin Flat
        BY <1>1, <1>9, <2>3, <3>2 DEF AsHeld, Says, PositionSettled, ApplyPosition, Insert
      <3>3. QED
        BY <3>1, <3>2
    <2>5. ASSUME NEW l, l # row.key, PositionSettled(l)
          PROVE  PositionSettled(l)'
      BY <1>1, <2>3, <2>5 DEF PositionSettled, ApplyPosition, Insert, Delete
    <2>6. QED
      BY <1>1, <1>3, <1>5, <1>7, <1>9, <2>3, <2>4, <2>5, ConsumeDelivery
  <1>10. CASE row.kind = "balance"
    <2>1. /\ writers' = writers
          /\ account' = [account EXCEPT !.balances = Insert(@, row.key, row.amount)]
      BY <1>10 DEF Apply
    <2>2. /\ account'.balances = Insert(account.balances, row.key, row.amount)
          /\ account'.positions = account.positions
      BY <1>4, <2>1 DEF AccountBookkeeping
    <2>3. AsHeld(row) => BalanceSettled(row.key)'
      BY <1>1, <1>10, <2>2 DEF AsHeld, Says, BalanceSettled, Insert
    <2>4. ASSUME NEW a, a # row.key, BalanceSettled(a)
          PROVE  BalanceSettled(a)'
      BY <1>1, <2>2, <2>4 DEF BalanceSettled, Insert
    <2>5. QED
      BY <1>1, <1>3, <1>6, <1>7, <1>10, <2>1, <2>2, <2>3, <2>4, ConsumeDelivery
  <1>11. CASE row.kind \in {"margin", "expired"}
    <2>1. row.kind = "margin" => ApplyMargin(row)
      BY DEF Apply
    <2>2. row.kind = "expired" => UNCHANGED <<writers, account>>
      BY DEF Apply
    <2>3. /\ account'.balances = account.balances /\ account'.positions = account.positions
          /\ \A s \in Subscribed : writers'[s].open_orders = writers[s].open_orders
      BY <1>4, <1>11, <2>1, <2>2 DEF ApplyMargin, SymbolBookkeeping, AccountBookkeeping
    <2>4. QED
      BY <1>1, <1>3, <1>5, <1>6, <1>7, <1>11, <2>3, ConsumeDelivery
  <1>12. QED
    BY <1>2, <1>8, <1>9, <1>10, <1>11, Kinds

LEMMA DeliveryStep == TypeOK /\ Delivery /\ [Next]_vars => Delivery'
  <1> SUFFICES ASSUME TypeOK, Delivery, [Next]_vars
               PROVE  Delivery'
    OBVIOUS
  <1>1. ASSUME UNCHANGED <<held, socket, writers, account, skipped, Unapplied>>
        PROVE  Delivery'
    BY <1>1 DEF Delivery, Alone, LastIsHeld, QuietIsSettled, Quiet, Fresh, Later, Carries, Parse,
                Keyed, AsHeld, Says, BalanceSettled, PositionSettled, OrderSettled
  <1>2. CASE Venue
    BY <1>2, OrderDelivery, AccountDelivery, OtherDelivery DEF Venue
  <1>3. CASE Forward
    BY <1>1, <1>3 DEF Forward, Unapplied
  <1>4. CASE UNCHANGED vars
    BY <1>1, <1>4 DEF vars, Unapplied
  <1>5. QED
    BY <1>2, <1>3, <1>4, WholePayload, FirstRow, DropDelivery, ApplyDelivery DEF Next

LEMMA DeliveryInit == Init => Delivery
  <1> SUFFICES ASSUME Init PROVE Delivery
    OBVIOUS
  <1>1. /\ held = [orders |-> Empty, positions |-> Empty, balances |-> Empty]
        /\ account = [balances |-> Empty, positions |-> Empty, call |-> NoCall]
        /\ \A s \in Subscribed : writers[s].open_orders = Empty
        /\ DOMAIN socket = {} /\ DOMAIN Unapplied = {} /\ skipped = {} /\ DOMAIN Empty = {}
    BY DEF Init, Unapplied, Empty
  <1>2. Alone /\ LastIsHeld
    BY <1>1 DEF Alone, LastIsHeld, Fresh
  <1>3. QuietIsSettled
    BY <1>1 DEF QuietIsSettled, BalanceSettled, PositionSettled, OrderSettled
  <1>4. QED
    BY <1>2, <1>3 DEF Delivery

(***************************************************************************)
(* The types and what the payloads in flight say of the venue.             *)
(***************************************************************************)
THEOREM Invariance == Spec => []IInv
  <1>1. QED
    BY DeliveryInit, DeliveryStep, TypeCorrect, PTL DEF Spec, IInv

(***************************************************************************)
(* Once every payload has been ingested, balances, open orders and open    *)
(* positions of the subscribed symbols are the venue's, except where       *)
(* ingest_message left the last row out.                                   *)
(***************************************************************************)
THEOREM IngestedIsVenue == Spec => []DrainedIsVenue
  <1>1. IInv => DrainedIsVenue
    <2> SUFFICES ASSUME IInv, Drained PROVE DrainedIsVenue
      BY DEF DrainedIsVenue
    <2>1. DOMAIN socket = {} /\ DOMAIN Unapplied = {}
      BY DEF Drained, Unapplied, IInv, TypeOK
    <2>2. \A kind, key : Quiet(kind, key) <=> Fresh(kind, key)
      BY <2>1 DEF Quiet, Later, Carries
    <2>3. \A o \in Order : Fresh("order", o)
      BY DEF IInv, Delivery, Alone
    <2>4. QED
      BY <2>2, <2>3 DEF IInv, Delivery, QuietIsSettled, DrainedIsVenue, BalanceSettled,
                        PositionSettled, OrderSettled
  <1>2. QED
    BY <1>1, Invariance, PTL
=============================================================================

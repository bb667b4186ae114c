------------------------- MODULE OrderPipeline_proof -------------------------
(***************************************************************************)
(* Proofs about OrderPipeline for every number of commands: orders reach   *)
(* the venue in order and once, at most one of them is in doubt, and none  *)
(* that was queued is forgotten; and about the forms that they are sent as *)
(* (SpotOrder, UsdmOrder) and what place_order reports of them, for every  *)
(* symbol, decimal and secret.                                             *)
(***************************************************************************)
EXTENDS OrderPipeline, OrderText, SequenceTheorems, TLAPS

-----------------------------------------------------------------------------
(***************************************************************************)
(* The inductive invariant.  Numbers tells where the commands are: those   *)
(* being dispatched are the last ones emitted, the queue is increasing and *)
(* behind everything that the executor has taken.  Sent tells what the     *)
(* executor and the venue know of each other: only the current request can *)
(* be on the wire, or accepted and not acknowledged.                       *)
(***************************************************************************)
Dealt == Len(kinds) - Len(batch)

Numbers ==
  /\ Len(batch) <= Len(kinds)
  /\ \A i \in DOMAIN batch : batch[i] = Dealt + i
  /\ \A i \in DOMAIN queue : queue[i] <= Dealt
  /\ \A i, j \in DOMAIN queue : i < j => queue[i] < queue[j]
  /\ \A n \in acked \cup {request} : n <= Dealt
  /\ \A n \in acked \cup {request} : \A i \in DOMAIN queue : n < queue[i]
  /\ request # 0 => \A n \in acked : n < request

Sent ==
  /\ \A i \in DOMAIN placed : placed[i] \notin wire
  /\ \A a \in answers : a[1] \notin wire /\ a[1] \in acked \cup {request}
  /\ executor = "post" =>
       /\ wire = {}
       /\ \A i \in DOMAIN placed : placed[i] # request
       /\ \A a \in answers : a[1] # request

Closing ==
  /\ ~ alive => batch = <<>>
  /\ executor = "finished" => ~ alive

IInv == TypeOK /\ Numbers /\ Sent /\ Closing /\ PlacedInOrder /\ OneInDoubt /\ NothingForgotten

LEMMA HeadTail ==
  ASSUME NEW S, NEW s \in Seq(S), s # <<>>
  PROVE  /\ Head(s) \in S /\ Head(s) = s[1] /\ Tail(s) \in Seq(S)
         /\ Len(s) \in Nat \ {0} /\ Len(Tail(s)) = Len(s) - 1
         /\ DOMAIN s = 1 .. Len(s) /\ DOMAIN Tail(s) = 1 .. Len(s) - 1
         /\ \A i \in DOMAIN Tail(s) : Tail(s)[i] = s[i + 1]
  OBVIOUS

LEMMA AppendAt ==
  ASSUME NEW S, NEW s \in Seq(S), NEW e \in S
  PROVE  /\ Append(s, e) \in Seq(S)
         /\ DOMAIN s = 1 .. Len(s) /\ DOMAIN Append(s, e) = 1 .. Len(s) + 1
         /\ Append(s, e)[Len(s) + 1] = e
         /\ \A i \in DOMAIN s : Append(s, e)[i] = s[i]
         /\ Len(s) \in Nat
  OBVIOUS

-----------------------------------------------------------------------------
LEMMA InvInit == Init => IInv
  <1>1. ASSUME Init PROVE IInv
    <2>1. TypeOK
      BY <1>1, BoundsAssumption DEF Init, TypeOK, Commands
    <2>2. Numbers /\ Sent /\ Closing /\ PlacedInOrder /\ OneInDoubt
      BY <1>1 DEF Init, Numbers, Dealt, Sent, Closing, PlacedInOrder, OneInDoubt
    <2>3. NothingForgotten
      BY <1>1 DEF Init, NothingForgotten, Dispatched
    <2>4. QED
      BY <2>1, <2>2, <2>3 DEF IInv
  <1>2. QED
    BY <1>1

-----------------------------------------------------------------------------
\* The runtime's steps.

LEMMA OnEventStep ==
  ASSUME IInv, NEW cmds \in Batches, OnEvent(cmds)
  PROVE  IInv'
  <1>1. PICK m \in 1 .. MaxBatch : cmds \in [1 .. m -> Kind]
    BY DEF Batches
  <1>2. cmds \in Seq(Kind) /\ Len(cmds) = m /\ m \in Nat
    BY <1>1, BoundsAssumption
  <1>3. kinds \in Seq(Kind) /\ Len(kinds) \in Nat
    BY DEF IInv, TypeOK
  <1>4. /\ kinds' \in Seq(Kind) /\ Len(kinds') = Len(kinds) + m
        /\ Len(kinds) + m <= MaxCommands
    <2>1. kinds' = kinds \o cmds /\ Len(kinds) + Len(cmds) <= MaxCommands
      BY DEF OnEvent
    <2>2. QED
      BY <1>2, <1>3, <2>1, ConcatProperties
  <1>5. /\ batch' \in Seq(Commands) /\ Len(batch') = m
        /\ DOMAIN batch' = 1 .. m
        /\ \A i \in 1 .. m : batch'[i] = Len(kinds) + i
    <2>1. batch' = [i \in 1 .. m |-> Len(kinds) + i]
      BY <1>2 DEF OnEvent
    <2>2. \A i \in 1 .. m : Len(kinds) + i \in Commands
      BY <1>2, <1>3, <1>4, BoundsAssumption DEF Commands
    <2>3. batch' \in [1 .. m -> Commands]
      BY <2>1, <2>2
    <2>4. QED
      BY <1>2, <2>1, <2>3
  <1>6. Dealt = Len(kinds) /\ Dealt' = Len(kinds)
    BY <1>2, <1>3, <1>4, <1>5 DEF Dealt, OnEvent
  <1>7. TypeOK'
    BY <1>4, <1>5 DEF IInv, TypeOK, OnEvent, executorVars, venueVars
  <1>8. Numbers'
    <2>1. /\ queue' = queue /\ acked' = acked /\ request' = request
      BY DEF OnEvent, executorVars
    <2>2. Len(batch') <= Len(kinds')
      BY <1>2, <1>3, <1>4, <1>5
    <2>3. \A i \in DOMAIN batch' : batch'[i] = Dealt' + i
      BY <1>5, <1>6
    <2>4. Dealt' = Dealt
      BY <1>6
    <2>5. QED
      BY <2>1, <2>2, <2>3, <2>4 DEF IInv, Numbers
  <1>9. NothingForgotten'
    <2>1. Dispatched' = Dispatched
      <3>1. Dispatched = (1 .. Len(kinds)) \ (refused \cup abandoned)
        BY DEF OnEvent, Dispatched
      <3>2. Dispatched' = (1 .. Len(kinds) + m)
                            \ (refused \cup abandoned \cup {Len(kinds) + i : i \in 1 .. m})
        BY <1>4, <1>5 DEF OnEvent, Dispatched
      <3>3. ASSUME NEW n \in 1 .. Len(kinds) + m, n \notin 1 .. Len(kinds)
            PROVE  n \in {Len(kinds) + i : i \in 1 .. m}
        <4>1. n - Len(kinds) \in 1 .. m /\ n = Len(kinds) + (n - Len(kinds))
          BY <1>2, <1>3, <3>3
        <4>2. QED
          BY ONLY <4>1
      <3>4. \A n \in 1 .. Len(kinds) : n \notin {Len(kinds) + i : i \in 1 .. m}
        BY <1>2, <1>3
      <3>5. 1 .. Len(kinds) \subseteq 1 .. Len(kinds) + m
        BY <1>2, <1>3
      <3>6. QED
        BY ONLY <3>1, <3>2, <3>3, <3>4, <3>5
    <2>2. QED
      BY <2>1 DEF IInv, NothingForgotten, OnEvent, executorVars, Ended
  <1>10. QED
    BY <1>7, <1>8, <1>9
    DEF IInv, OnEvent, Sent, Closing, PlacedInOrder, OneInDoubt, executorVars, venueVars

LEMMA DispatchStep ==
  ASSUME IInv, Dispatch
  PROVE  IInv'
  <1>1. batch \in Seq(Commands) /\ batch # <<>> /\ queue \in Seq(Commands)
    BY DEF Dispatch, IInv, TypeOK
  <1> DEFINE n == Head(batch)
  <1>2. /\ n \in Commands /\ n = batch[1] /\ batch' \in Seq(Commands)
        /\ Len(batch) \in Nat \ {0} /\ Len(batch') = Len(batch) - 1
        /\ DOMAIN batch = 1 .. Len(batch) /\ DOMAIN batch' = 1 .. Len(batch) - 1
        /\ \A i \in DOMAIN batch' : batch'[i] = batch[i + 1]
    BY <1>1, HeadTail DEF Dispatch
  <1>3. /\ queue' \in Seq(Commands) /\ Len(queue) \in Nat
        /\ DOMAIN queue = 1 .. Len(queue) /\ DOMAIN queue' = 1 .. Len(queue) + 1
        /\ queue'[Len(queue) + 1] = n
        /\ \A i \in DOMAIN queue : queue'[i] = queue[i]
    BY <1>1, <1>2, AppendAt DEF Dispatch
  <1>4. /\ kinds' = kinds /\ acked' = acked /\ request' = request /\ executor' = executor
        /\ refused' = refused /\ abandoned' = abandoned
    BY DEF Dispatch, executorVars
  <1>5. Len(kinds) \in Nat
    BY DEF IInv, TypeOK
  <1>6. Dealt' = Dealt + 1 /\ n = Dealt + 1 /\ Dealt \in Nat
    BY <1>2, <1>4, <1>5 DEF Dealt, IInv, Numbers
  <1>7. TypeOK'
    BY <1>2, <1>3 DEF IInv, TypeOK, Dispatch, executorVars, venueVars
  <1>8. Numbers'
    <2>1. Len(batch') <= Len(kinds')
      <3>1. Len(batch) <= Len(kinds)
        BY DEF IInv, Numbers
      <3>2. QED
        BY <1>2, <1>4, <1>5, <3>1
    <2>2. \A i \in DOMAIN batch' : batch'[i] = Dealt' + i
      <3>1. \A i \in DOMAIN batch : batch[i] = Dealt + i
        BY DEF IInv, Numbers
      <3>2. \A i \in DOMAIN batch' : i + 1 \in DOMAIN batch /\ i \in Nat
        BY <1>2
      <3>3. QED
        BY <1>2, <1>6, <3>1, <3>2
    <2>3. \A i \in DOMAIN queue : queue[i] <= Dealt /\ queue[i] \in Nat
      <3>1. \A i \in DOMAIN queue : queue[i] \in Commands
        BY <1>1
      <3>2. \A i \in DOMAIN queue : queue[i] <= Dealt
        BY DEF IInv, Numbers
      <3>3. QED
        BY <3>1, <3>2 DEF Commands
    <2>4. \A i \in DOMAIN queue' : queue'[i] <= Dealt'
      BY <1>3, <1>6, <2>3
    <2>5. \A i, j \in DOMAIN queue' : i < j => queue'[i] < queue'[j]
      <3>1. ASSUME NEW i \in DOMAIN queue', NEW j \in DOMAIN queue', i < j
            PROVE  queue'[i] < queue'[j]
        <4>1. i \in DOMAIN queue
          BY <1>3, <3>1
        <4>2. CASE j \in DOMAIN queue
          BY <1>3, <3>1, <4>1, <4>2 DEF IInv, Numbers
        <4>3. CASE j = Len(queue) + 1
          BY <1>3, <1>6, <2>3, <4>1, <4>3
        <4>4. QED
          BY <1>3, <4>2, <4>3
      <3>2. QED
        BY <3>1
    <2>6. \A k \in acked \cup {request} : k <= Dealt /\ k \in Nat
      BY DEF IInv, Numbers, TypeOK, Commands
    <2>7. \A k \in acked' \cup {request'} : k <= Dealt'
      BY <1>4, <1>6, <2>6
    <2>8. \A k \in acked' \cup {request'} : \A i \in DOMAIN queue' : k < queue'[i]
      <3>1. ASSUME NEW k \in acked \cup {request}, NEW i \in DOMAIN queue'
            PROVE  k < queue'[i]
        <4>1. CASE i \in DOMAIN queue
          BY <1>3, <4>1 DEF IInv, Numbers
        <4>2. CASE i = Len(queue) + 1
          BY <1>3, <1>6, <2>6, <4>2
        <4>3. QED
          BY <1>3, <4>1, <4>2
      <3>2. QED
        BY <1>4, <3>1
    <2>9. QED
      BY <1>4, <2>1, <2>2, <2>4, <2>5, <2>7, <2>8 DEF IInv, Numbers
  <1>9. NothingForgotten'
    <2>1. \A k \in Dispatched' : k \in Dispatched \/ k = n
      <3>1. \A k \in {batch[i] : i \in DOMAIN batch} :
              k = n \/ k \in {batch'[i] : i \in DOMAIN batch'}
        <4>1. ASSUME NEW i \in DOMAIN batch
              PROVE  batch[i] = n \/ batch[i] \in {batch'[j] : j \in DOMAIN batch'}
          <5>1. CASE i = 1
            BY <1>2, <5>1
          <5>2. CASE i # 1
            <6>1. i - 1 \in DOMAIN batch' /\ batch'[i - 1] = batch[i]
              BY <1>2, <5>2
            <6>2. QED
              BY <6>1
          <5>3. QED
            BY <5>1, <5>2
        <4>2. QED
          BY <4>1
      <3>2. QED
        BY <1>4, <3>1 DEF Dispatched
    <2>2. ~ Ended /\ ~ Ended'
      BY <1>4 DEF Dispatch, Ended
    <2>3. {queue[i] : i \in DOMAIN queue} \cup {n} \subseteq {queue'[i] : i \in DOMAIN queue'}
      BY <1>3
    <2>4. QED
      BY <1>4, <2>1, <2>2, <2>3 DEF IInv, NothingForgotten, Ended
  <1>10. Closing'
    BY DEF IInv, Closing, Dispatch, executorVars
  <1>11. QED
    BY <1>7, <1>8, <1>9, <1>10
    DEF IInv, Dispatch, Sent, PlacedInOrder, OneInDoubt, executorVars, venueVars

LEMMA DispatchFailsStep ==
  ASSUME IInv, DispatchFails
  PROVE  IInv'
  <1>1. batch \in Seq(Commands) /\ batch # <<>>
    BY DEF DispatchFails, IInv, TypeOK
  <1>2. /\ Head(batch) \in Commands /\ Len(batch) \in Nat /\ DOMAIN batch = 1 .. Len(batch)
        /\ Head(batch) = batch[1]
    BY <1>1, HeadTail
  <1>3. /\ kinds' = kinds /\ acked' = acked /\ request' = request /\ executor' = executor
        /\ queue' = queue
    BY DEF DispatchFails, executorVars
  <1>4. Len(kinds) \in Nat /\ Dealt' = Len(kinds) /\ Dealt <= Dealt' /\ Dealt \in Nat
    BY <1>2, <1>3 DEF IInv, TypeOK, Numbers, DispatchFails, Dealt
  <1>5. TypeOK'
    <2>1. {batch[i] : i \in 2 .. Len(batch)} \subseteq Commands
      BY <1>1, <1>2
    <2>2. QED
      BY <1>2, <2>1 DEF IInv, TypeOK, DispatchFails, executorVars, venueVars
  <1>6. Numbers'
    <2>1. \A i \in DOMAIN queue : queue[i] \in Nat /\ queue[i] <= Dealt'
      <3>1. \A i \in DOMAIN queue : queue[i] \in Commands
        BY DEF IInv, TypeOK
      <3>2. \A i \in DOMAIN queue : queue[i] <= Dealt
        BY DEF IInv, Numbers
      <3>3. QED
        BY <1>4, <3>1, <3>2 DEF Commands
    <2>2. \A k \in acked \cup {request} : k \in Nat /\ k <= Dealt'
      <3>1. \A k \in acked \cup {request} : k \in Nat
        BY BoundsAssumption DEF IInv, TypeOK, Commands
      <3>2. \A k \in acked \cup {request} : k <= Dealt
        BY DEF IInv, Numbers
      <3>3. QED
        BY <1>4, <3>1, <3>2
    <2>3. batch' = <<>>
      BY DEF DispatchFails
    <2>4. QED
      BY <1>3, <1>4, <2>1, <2>2, <2>3 DEF IInv, Numbers
  <1>7. NothingForgotten'
    <2>1. Dispatched' \subseteq Dispatched
      <3>1. \A i \in DOMAIN batch : batch[i] \in refused' \cup abandoned'
        BY <1>2 DEF DispatchFails
      <3>2. refused \subseteq refused' /\ abandoned \subseteq abandoned'
        BY DEF DispatchFails
      <3>3. QED
        BY <1>3, <3>1, <3>2 DEF Dispatched
    <2>2. QED
      BY <1>3, <2>1 DEF IInv, NothingForgotten, Ended
  <1>8. QED
    BY <1>5, <1>6, <1>7
    DEF IInv, DispatchFails, Sent, Closing, PlacedInOrder, OneInDoubt, executorVars, venueVars

LEMMA DropRuntimeStep ==
  ASSUME IInv, DropRuntime
  PROVE  IInv'
  <1>1. TypeOK'
    BY DEF IInv, TypeOK, DropRuntime, executorVars, venueVars
  <1>2. Numbers' /\ NothingForgotten'
    BY DEF IInv, Numbers, Dealt, NothingForgotten, Dispatched, Ended, DropRuntime, executorVars
  <1>3. QED
    BY <1>1, <1>2
    DEF IInv, DropRuntime, Sent, Closing, PlacedInOrder, OneInDoubt, executorVars, venueVars

-----------------------------------------------------------------------------
\* The executor's steps.

LEMMA RecvStep ==
  ASSUME IInv, Recv
  PROVE  IInv'
  <1>1. queue \in Seq(Commands) /\ queue # <<>>
    BY DEF Recv, IInv, TypeOK
  <1> DEFINE n == Head(queue)
  <1>2. /\ n \in Commands /\ n = queue[1] /\ queue' \in Seq(Commands)
        /\ Len(queue) \in Nat \ {0}
        /\ DOMAIN queue = 1 .. Len(queue) /\ DOMAIN queue' = 1 .. Len(queue) - 1
        /\ \A i \in DOMAIN queue' : queue'[i] = queue[i + 1]
    BY <1>1, HeadTail DEF Recv
  <1>3. /\ kinds' = kinds /\ batch' = batch /\ refused' = refused /\ abandoned' = abandoned
        /\ alive' = alive /\ acked' = acked /\ wire' = wire /\ answers' = answers
        /\ placed' = placed /\ request' = n /\ executor = "recv" /\ executor' = "post"
    BY DEF Recv, strategyVars, venueVars
  <1>4. request = 0
    BY <1>3 DEF IInv, TypeOK
  <1>5. n \in Nat /\ n # 0
    BY <1>2 DEF Commands
  <1>6. TypeOK'
    BY <1>2, <1>3, <1>5, BoundsAssumption DEF IInv, TypeOK, Commands
  <1>7. \A k \in acked : k < n
    BY <1>2 DEF IInv, Numbers
  <1>8. \A i \in DOMAIN queue' : i + 1 \in DOMAIN queue /\ 1 < i + 1 /\ 1 \in DOMAIN queue
    BY <1>2
  <1>9. Numbers'
    <2>1. Dealt' = Dealt
      BY <1>3 DEF Dealt
    <2>2. \A i \in DOMAIN queue' : queue'[i] <= Dealt' /\ n < queue'[i]
      BY <1>2, <1>8, <2>1 DEF IInv, Numbers
    <2>3. \A i, j \in DOMAIN queue' : i < j => queue'[i] < queue'[j]
      <3>1. ASSUME NEW i \in DOMAIN queue', NEW j \in DOMAIN queue', i < j
            PROVE  queue'[i] < queue'[j]
        <4>1. i + 1 < j + 1
          BY <1>2, <3>1
        <4>2. queue[i + 1] < queue[j + 1]
          BY <1>8, <4>1 DEF IInv, Numbers
        <4>3. QED
          BY <1>2, <4>2
      <3>2. QED
        BY <3>1
    <2>4. \A k \in acked : \A i \in DOMAIN queue' : k < queue'[i]
      BY <1>2, <1>8 DEF IInv, Numbers
    <2>5. n <= Dealt
      BY <1>2 DEF IInv, Numbers
    <2>6. QED
      BY <1>3, <1>7, <2>1, <2>2, <2>3, <2>4, <2>5 DEF IInv, Numbers
  <1>10. /\ wire = {}
         /\ \A i \in DOMAIN placed : placed[i] \in acked
         /\ \A a \in answers : a[1] \in acked
    <2>1. \A k \in Commands : k # 0
      BY DEF Commands
    <2>2. \A i \in DOMAIN placed : placed[i] \in Commands
      BY DEF IInv, TypeOK
    <2>3. \A a \in answers : a[1] \in Commands
      BY DEF IInv, TypeOK
    <2>4. QED
      BY <1>4, <2>1, <2>2, <2>3 DEF IInv, TypeOK, Sent, OneInDoubt
  <1>11. n \notin acked
    BY <1>5, <1>7
  <1>12. Sent' /\ OneInDoubt' /\ PlacedInOrder' /\ Closing'
    BY <1>3, <1>10, <1>11 DEF IInv, Sent, OneInDoubt, PlacedInOrder, Closing
  <1>13. NothingForgotten'
    <2>1. Dispatched' = Dispatched
      BY <1>3 DEF Dispatched
    <2>2. \A k \in {queue[i] : i \in DOMAIN queue} :
            k = n \/ k \in {queue'[i] : i \in DOMAIN queue'}
      <3>1. ASSUME NEW i \in DOMAIN queue, i # 1
            PROVE  queue[i] \in {queue'[j] : j \in DOMAIN queue'}
        <4>1. i - 1 \in DOMAIN queue' /\ queue'[i - 1] = queue[i]
          BY <1>2, <3>1
        <4>2. QED
          BY <4>1
      <3>2. QED
        BY <1>2, <3>1
    <2>3. \A k \in Dispatched : k # 0
      BY DEF Dispatched
    <2>4. QED
      BY <1>3, <1>4, <2>1, <2>2, <2>3 DEF IInv, NothingForgotten, Ended
  <1>14. QED
    BY <1>6, <1>9, <1>12, <1>13 DEF IInv

LEMMA RecvNoneStep ==
  ASSUME IInv, RecvNone
  PROVE  IInv'
  <1>1. /\ kinds' = kinds /\ batch' = batch /\ refused' = refused /\ abandoned' = abandoned
        /\ alive' = alive /\ acked' = acked /\ wire' = wire /\ answers' = answers
        /\ placed' = placed /\ request' = request /\ queue' = queue
        /\ executor = "recv" /\ executor' = "finished" /\ queue = <<>> /\ ~ alive
    BY DEF RecvNone, strategyVars, venueVars
  <1>2. request = 0
    BY <1>1 DEF IInv, TypeOK
  <1>3. TypeOK'
    BY <1>1, <1>2 DEF IInv, TypeOK
  <1>4. Numbers' /\ Sent' /\ OneInDoubt' /\ PlacedInOrder' /\ Closing'
    BY <1>1 DEF IInv, Numbers, Dealt, Sent, OneInDoubt, PlacedInOrder, Closing
  <1>5. NothingForgotten'
    <2>1. Dispatched' = Dispatched
      BY <1>1 DEF Dispatched
    <2>2. \A k \in Dispatched : k # 0
      BY DEF Dispatched
    <2>3. Dispatched \subseteq acked
      BY <1>1, <1>2, <2>2 DEF IInv, NothingForgotten, Ended
    <2>4. QED
      BY <1>1, <2>1, <2>3 DEF NothingForgotten, Ended
  <1>6. QED
    BY <1>3, <1>4, <1>5 DEF IInv

LEMMA PostStep ==
  ASSUME IInv, Post
  PROVE  IInv'
  <1>1. /\ kinds' = kinds /\ batch' = batch /\ refused' = refused /\ abandoned' = abandoned
        /\ alive' = alive /\ acked' = acked /\ wire' = wire \cup {request}
        /\ answers' = answers /\ placed' = placed /\ request' = request /\ queue' = queue
        /\ executor = "post" /\ executor' = "reply"
    BY DEF Post, strategyVars
  <1>2. request \in Commands
    BY <1>1 DEF IInv, TypeOK, Commands
  <1>3. TypeOK'
    BY <1>1, <1>2 DEF IInv, TypeOK
  <1>4. Numbers' /\ PlacedInOrder' /\ Closing'
    BY <1>1 DEF IInv, Numbers, Dealt, PlacedInOrder, Closing
  <1>5. Sent' /\ OneInDoubt'
    BY <1>1 DEF IInv, Sent, OneInDoubt
  <1>6. NothingForgotten'
    BY <1>1 DEF IInv, NothingForgotten, Dispatched, Ended
  <1>7. QED
    BY <1>3, <1>4, <1>5, <1>6 DEF IInv

LEMMA AcknowledgedStep ==
  ASSUME IInv, Acknowledged
  PROVE  IInv'
  <1>1. /\ kinds' = kinds /\ batch' = batch /\ refused' = refused /\ abandoned' = abandoned
        /\ alive' = alive /\ acked' = acked \cup {request} /\ wire' = wire
        /\ answers' \subseteq answers /\ placed' = placed /\ request' = 0 /\ queue' = queue
        /\ executor = "reply" /\ executor' = "recv"
        /\ <<request, "accepted">> \in answers
    BY DEF Acknowledged, strategyVars
  <1>2. request \in Commands /\ request # 0
    BY <1>1 DEF IInv, TypeOK, Commands
  <1>3. wire = {}
    <2>1. <<request, "accepted">>[1] \notin wire
      BY <1>1 DEF IInv, Sent
    <2>2. QED
      BY <2>1 DEF IInv, OneInDoubt
  <1>4. TypeOK'
    BY <1>1, <1>2, BoundsAssumption DEF IInv, TypeOK
  <1>5. Numbers'
    <2>1. \A i \in DOMAIN queue : queue[i] \in Nat \ {0}
      <3>1. \A i \in DOMAIN queue : queue[i] \in Commands
        BY DEF IInv, TypeOK
      <3>2. QED
        BY <3>1 DEF Commands
    <2>2. 0 <= Dealt
      <3>1. Len(kinds) \in Nat /\ Len(batch) \in Nat
        BY DEF IInv, TypeOK
      <3>2. QED
        BY <3>1 DEF IInv, Numbers, Dealt
    <2>3. Dealt' = Dealt
      BY <1>1 DEF Dealt
    <2>4. \A i \in DOMAIN queue : 0 < queue[i]
      BY <2>1
    <2>5. QED
      BY <1>1, <2>2, <2>3, <2>4 DEF IInv, Numbers
  <1>6. Sent' /\ OneInDoubt' /\ PlacedInOrder' /\ Closing'
    BY <1>1, <1>3 DEF IInv, Sent, OneInDoubt, PlacedInOrder, Closing
  <1>7. NothingForgotten'
    BY <1>1 DEF IInv, NothingForgotten, Dispatched, Ended
  <1>8. QED
    BY <1>4, <1>5, <1>6, <1>7 DEF IInv

LEMMA PlaceFailsStep ==
  ASSUME IInv, PlaceFails
  PROVE  IInv'
  <1>1. /\ kinds' = kinds /\ batch' = batch /\ refused' = refused /\ abandoned' = abandoned
        /\ alive' = alive /\ acked' = acked /\ wire' \subseteq wire
        /\ answers' = answers /\ placed' = placed /\ request' = request /\ queue' = queue
        /\ executor \in {"post", "reply"} /\ executor' = "failed"
    BY DEF PlaceFails, strategyVars
  <1>2. TypeOK'
    BY <1>1 DEF IInv, TypeOK
  <1>3. Numbers' /\ PlacedInOrder' /\ Closing'
    BY <1>1 DEF IInv, Numbers, Dealt, PlacedInOrder, Closing
  <1>4. Sent' /\ OneInDoubt'
    BY <1>1 DEF IInv, Sent, OneInDoubt
  <1>5. NothingForgotten'
    BY <1>1 DEF NothingForgotten, Ended
  <1>6. QED
    BY <1>2, <1>3, <1>4, <1>5 DEF IInv

-----------------------------------------------------------------------------
\* The venue's steps.

LEMMA AcceptStep ==
  ASSUME IInv, NEW n \in Commands, Accept(n)
  PROVE  IInv'
  <1>1. /\ kinds' = kinds /\ batch' = batch /\ refused' = refused /\ abandoned' = abandoned
        /\ alive' = alive /\ acked' = acked /\ wire' = wire \ {n}
        /\ answers' = answers \cup {<<n, "accepted">>} /\ placed' = Append(placed, n)
        /\ request' = request /\ queue' = queue /\ executor' = executor /\ n \in wire
    BY DEF Accept, strategyVars, executorVars
  <1>2. n = request /\ n # 0 /\ executor # "post"
    BY <1>1 DEF IInv, OneInDoubt, Sent, Commands
  <1>3. /\ placed \in Seq(Commands) /\ placed' \in Seq(Commands) /\ Len(placed) \in Nat
        /\ DOMAIN placed = 1 .. Len(placed) /\ DOMAIN placed' = 1 .. Len(placed) + 1
        /\ placed'[Len(placed) + 1] = n
        /\ \A i \in DOMAIN placed : placed'[i] = placed[i]
    <2>1. placed \in Seq(Commands)
      BY DEF IInv, TypeOK
    <2>2. QED
      BY <1>1, <2>1, AppendAt
  <1>4. TypeOK'
    BY <1>1, <1>3 DEF IInv, TypeOK
  <1>5. Numbers' /\ Closing' /\ NothingForgotten'
    BY <1>1, SMTT(30) DEF IInv, Numbers, Dealt, Closing, NothingForgotten, Dispatched, Ended
  <1>6. \A i \in DOMAIN placed : placed[i] \in acked /\ placed[i] < n
    <2>1. \A i \in DOMAIN placed : placed[i] \in acked \cup {request} /\ placed[i] # n
      BY <1>1 DEF IInv, OneInDoubt, Sent
    <2>2. QED
      BY <1>2, <2>1 DEF IInv, Numbers
  <1>7. PlacedInOrder'
    <2>1. ASSUME NEW i \in DOMAIN placed', NEW j \in DOMAIN placed', i < j
          PROVE  placed'[i] < placed'[j]
      <3>1. i \in DOMAIN placed
        BY <1>3, <2>1
      <3>2. CASE j \in DOMAIN placed
        BY <1>3, <2>1, <3>1, <3>2 DEF IInv, PlacedInOrder
      <3>3. CASE j = Len(placed) + 1
        BY <1>3, <1>6, <3>1, <3>3
      <3>4. QED
        BY <1>3, <3>2, <3>3
    <2>2. QED
      BY <2>1 DEF PlacedInOrder
  <1>8. \A i \in DOMAIN placed' : i \in DOMAIN placed \/ i = Len(placed) + 1
    BY <1>3
  <1>9. OneInDoubt'
    BY <1>1, <1>2, <1>3, <1>6, <1>8 DEF IInv, OneInDoubt
  <1>10. Sent'
    <2>1. \A i \in DOMAIN placed' : placed'[i] \notin wire'
      BY <1>1, <1>3, <1>8 DEF IInv, Sent
    <2>2. \A a \in answers' : a \in answers \/ a[1] = n
      BY <1>1
    <2>3. \A a \in answers' : a[1] \notin wire' /\ a[1] \in acked' \cup {request'}
      BY <1>1, <1>2, <2>2 DEF IInv, Sent
    <2>4. QED
      BY <1>1, <1>2, <2>1, <2>3 DEF Sent
  <1>11. QED
    BY <1>4, <1>5, <1>7, <1>9, <1>10 DEF IInv

LEMMA RejectStep ==
  ASSUME IInv, NEW n \in Commands, Reject(n)
  PROVE  IInv'
  <1>1. /\ kinds' = kinds /\ batch' = batch /\ refused' = refused /\ abandoned' = abandoned
        /\ alive' = alive /\ acked' = acked /\ wire' = wire \ {n}
        /\ answers' = answers \cup {<<n, "rejected">>} /\ placed' = placed
        /\ request' = request /\ queue' = queue /\ executor' = executor /\ n \in wire
    BY DEF Reject, strategyVars, executorVars
  <1>2. n = request /\ executor # "post"
    BY <1>1 DEF IInv, OneInDoubt, Sent
  <1>3. TypeOK'
    BY <1>1 DEF IInv, TypeOK
  <1>4. Numbers' /\ Closing' /\ NothingForgotten' /\ PlacedInOrder' /\ OneInDoubt'
    BY <1>1, SMTT(30)
    DEF IInv, Numbers, Dealt, Closing, NothingForgotten, Dispatched, Ended, PlacedInOrder,
        OneInDoubt
  <1>5. Sent'
    <2>1. \A a \in answers' : a \in answers \/ a[1] = n
      BY <1>1
    <2>2. QED
      BY <1>1, <1>2, <2>1 DEF IInv, Sent
  <1>6. QED
    BY <1>3, <1>4, <1>5 DEF IInv

-----------------------------------------------------------------------------
LEMMA Stutter == IInv /\ UNCHANGED vars => IInv'
  <1> SUFFICES ASSUME IInv, UNCHANGED vars PROVE IInv'
    OBVIOUS
  <1>1. TypeOK'
    BY DEF IInv, TypeOK, vars, strategyVars, executorVars, venueVars
  <1>2. Numbers' /\ Sent' /\ Closing'
    BY DEF IInv, Numbers, Dealt, Sent, Closing, vars, strategyVars, executorVars, venueVars
  <1>3. PlacedInOrder' /\ OneInDoubt' /\ NothingForgotten'
    BY DEF IInv, PlacedInOrder, OneInDoubt, NothingForgotten, Dispatched, Ended, vars,
           strategyVars, executorVars, venueVars
  <1>4. QED
    BY <1>1, <1>2, <1>3 DEF IInv

LEMMA InvStep == IInv /\ [Next]_vars => IInv'
  BY OnEventStep, DispatchStep, DispatchFailsStep, DropRuntimeStep, RecvStep, RecvNoneStep,
     PostStep, AcknowledgedStep, PlaceFailsStep, AcceptStep, RejectStep, Stutter
  DEF Next

\* The inductive invariant holds in every reachable state.
THEOREM Invariance == Spec => []IInv
  BY InvInit, InvStep, PTL DEF Spec

\* The venue accepts orders in the order in which the strategy emitted them, and none
\* twice.
THEOREM OrdersInOrder == Spec => []PlacedInOrder
  <1>1. IInv => PlacedInOrder
    BY DEF IInv
  <1>2. QED
    BY <1>1, Invariance, PTL

\* All orders that the venue accepted, but for the one the executor is on or has failed
\* on, have been acknowledged.
THEOREM DoubtIsBounded == Spec => []OneInDoubt
  <1>1. IInv => OneInDoubt
    BY DEF IInv
  <1>2. QED
    BY <1>1, Invariance, PTL

\* No order that dispatch accepted is lost without the executor failing.
THEOREM NoneForgotten == Spec => []NothingForgotten
  <1>1. IInv => NothingForgotten
    BY DEF IInv
  <1>2. QED
    BY <1>1, Invariance, PTL

-----------------------------------------------------------------------------
\* The forms of orders.

Spot == INSTANCE SpotOrder
Usdm == INSTANCE UsdmOrder

-----------------------------------------------------------------------------
\* Spot.

\* A request with a price exactly when it is a limit order.
SpotConsistent(req) ==
  /\ req \in Spot!PlaceOrderRequest
  /\ req.price = none <=> req.orderType = "MARKET"

LEMMA SpotAcceptedIsConsistent ==
  ASSUME NEW message \in Spot!OutboundMessage, Spot!PlaceOrderFromOutbound(message).error = "no"
  PROVE  SpotConsistent(Spot!PlaceOrderFromOutbound(message).value)
<1> DEFINE o == message.order
<1>1. message.tag = "OrderRequest"
  BY DEF Spot!PlaceOrderFromOutbound, Spot!Err
<1>2. o \in Spot!OrderRequest
  BY <1>1 DEF Spot!OutboundMessage
<1>3. o.side \in Spot!OrderSide /\ o.timeInForce \in Spot!Option(Spot!TimeInForce)
  BY <1>1 DEF Spot!PlaceOrderFromOutbound, Spot!Err
<1>4. Spot!PlaceOrderFromOutbound(message).value =
        [symbol |-> o.symbol, side |-> o.side,
         orderType |-> IF o.price = none THEN "MARKET" ELSE "LIMIT",
         quantity |-> o.qty, price |-> o.price,
         timeInForce |-> o.timeInForce, clientId |-> none]
  BY <1>1, <1>3 DEF Spot!PlaceOrderFromOutbound, Spot!Ok
<1> QED
  BY <1>2, <1>3, <1>4 DEF SpotConsistent, Spot!PlaceOrderRequest, Spot!OrderType, Spot!OrderRequest, Spot!Option

LEMMA SpotConsistentIsBuilt ==
  ASSUME NEW req, SpotConsistent(req)
  PROVE  LET params == Spot!BuildOrderParams(req)
         IN  /\ params.error = "no"
             /\ Spot!IsForm(params.value)
             /\ DOMAIN params.value \cap {"timestamp", "signature"} = {}
<1> DEFINE common == [symbol |-> req.symbol, side |-> req.side,
                      type |-> req.orderType, quantity |-> req.quantity]
           tif == IF req.timeInForce = none THEN "GTC" ELSE req.timeInForce
           limit == Spot!Insert(Spot!Insert(common, "price", req.price), "timeInForce", tif)
           named(params) == Spot!WithClientId(params, req)
<1>1. /\ req.symbol \in Symbol /\ req.side \in Spot!OrderSide
      /\ req.orderType \in Spot!OrderType /\ req.quantity \in Decimal
      /\ req.price \in Spot!Option(Decimal) /\ req.timeInForce \in Spot!Option(Spot!TimeInForce)
      /\ req.price = none <=> req.orderType = "MARKET"
  BY DEF SpotConsistent, Spot!PlaceOrderRequest
<1>2. tif \in Spot!TimeInForce
  BY <1>1 DEF Spot!Option, Spot!TimeInForce
<1> DEFINE plain == {"symbol", "side", "type", "quantity"}
<1>3. /\ DOMAIN common = plain
      /\ common["symbol"] = req.symbol /\ common["side"] = req.side
      /\ common["type"] = req.orderType /\ common["quantity"] = req.quantity
  OBVIOUS
<1>4. /\ DOMAIN limit = plain \cup {"price", "timeInForce"}
      /\ \A k \in plain : limit[k] = common[k]
      /\ limit["price"] = req.price /\ limit["timeInForce"] = tif
  <2> HIDE DEF common, tif
  <2> DEFINE priced == Spot!Insert(common, "price", req.price)
  <2>1. /\ DOMAIN priced = plain \cup {"price"}
        /\ \A k \in plain : priced[k] = common[k]
        /\ priced["price"] = req.price
    BY <1>3 DEF Spot!Insert
  <2> HIDE DEF priced
  <2>2. limit = Spot!Insert(priced, "timeInForce", tif)
    BY DEF priced
  <2> QED
    BY <2>1, <2>2 DEF Spot!Insert
<1> HIDE DEF common, tif, limit
<1>5. ASSUME NEW params, plain \subseteq DOMAIN params,
             "newClientOrderId" \notin DOMAIN params
      PROVE  /\ DOMAIN named(params) \subseteq DOMAIN params \cup {"newClientOrderId"}
             /\ DOMAIN params \subseteq DOMAIN named(params)
             /\ \A k \in DOMAIN params : named(params)[k] = params[k]
  <2>1. CASE req.clientId = none
    BY <2>1 DEF Spot!WithClientId
  <2>2. CASE req.clientId # none
    BY <2>2, <1>5 DEF Spot!WithClientId, Spot!Insert
  <2> QED
    BY <2>1, <2>2
<1>6. CASE req.orderType = "MARKET"
  <2>1. Spot!BuildOrderParams(req) = Spot!Ok(named(common))
    BY <1>1, <1>6 DEF Spot!BuildOrderParams, common
  <2>2. /\ DOMAIN named(common) \subseteq plain \cup {"newClientOrderId"}
        /\ plain \subseteq DOMAIN named(common)
        /\ \A k \in plain : named(common)[k] = common[k]
    BY <1>3, <1>5
  <2> HIDE DEF named
  <2>3. Spot!IsForm(named(common))
    BY <1>1, <1>3, <1>6, <2>2 DEF Spot!IsForm
  <2> QED
    BY <2>1, <2>2, <2>3 DEF Spot!Ok
<1>7. CASE req.orderType = "LIMIT"
  <2>1. Spot!BuildOrderParams(req) = Spot!Ok(named(limit))
    BY <1>1, <1>7 DEF Spot!BuildOrderParams, common, tif, limit
  <2>2. /\ DOMAIN named(limit) \subseteq plain \cup {"price", "timeInForce", "newClientOrderId"}
        /\ plain \cup {"price", "timeInForce"} \subseteq DOMAIN named(limit)
        /\ \A k \in plain \cup {"price", "timeInForce"} : named(limit)[k] = limit[k]
    BY <1>4, <1>5
  <2>3. req.price \in Decimal
    BY <1>1, <1>7 DEF Spot!Option
  <2> HIDE DEF named
  <2>4. Spot!IsForm(named(limit))
    BY <1>1, <1>2, <1>3, <1>4, <1>7, <2>2, <2>3 DEF Spot!IsForm
  <2> QED
    BY <2>1, <2>2, <2>4 DEF Spot!Ok
<1> QED
  BY <1>1, <1>6, <1>7 DEF Spot!OrderType

LEMMA SpotConsistentIsSigned ==
  ASSUME NEW req, SpotConsistent(req), NEW secret \in Secret, NEW now \in Nat
  PROVE  LET form == Spot!BuildSignedFormParams(secret, req, now)
         IN  form.error = "no" /\ Spot!IsForm(form.value) /\ Spot!IsSigned(secret, form.value)
<1> DEFINE params == Spot!BuildOrderParams(req).value
           stamped == Spot!Insert(params, "timestamp", now)
           form == Spot!Insert(stamped, "signature", Spot!Signature(secret, stamped))
<1>1. /\ Spot!BuildOrderParams(req).error = "no"
      /\ Spot!IsForm(params)
      /\ DOMAIN params \cap {"timestamp", "signature"} = {}
  BY SpotConsistentIsBuilt
<1>2. Spot!BuildSignedFormParams(secret, req, now) = Spot!Ok(form)
  BY <1>1 DEF Spot!BuildSignedFormParams
<1> HIDE DEF params
<1>3. /\ DOMAIN stamped = DOMAIN params \cup {"timestamp"}
      /\ \A k \in DOMAIN params : stamped[k] = params[k]
  BY <1>1 DEF Spot!Insert
<1>4. stamped = [k \in DOMAIN stamped |-> stamped[k]]
  BY DEF Spot!Insert
<1> HIDE DEF stamped
<1>5. /\ DOMAIN form = DOMAIN stamped \cup {"signature"}
      /\ form["signature"] = Spot!Signature(secret, stamped)
      /\ \A k \in DOMAIN stamped : form[k] = stamped[k]
  BY <1>1, <1>3 DEF Spot!Insert
<1> HIDE DEF form
<1>6. Spot!IsForm(form)
  BY <1>1, <1>3, <1>5 DEF Spot!IsForm
<1>7. [k \in DOMAIN form \ {"signature"} |-> form[k]] = stamped
  <2>1. DOMAIN form \ {"signature"} = DOMAIN stamped
    BY <1>1, <1>3, <1>5
  <2> QED
    BY <2>1, <1>4, <1>5
<1>8. Spot!IsSigned(secret, form)
  BY <1>3, <1>5, <1>7 DEF Spot!IsSigned
<1> QED
  BY <1>2, <1>6, <1>8 DEF Spot!Ok

(***************************************************************************)
(* What a spot egress queues can always be built: the executor, which an   *)
(* error ends, never meets a builder error, and the signed form is an      *)
(* order that the venue takes, with a signature over all of it.            *)
(***************************************************************************)
THEOREM SpotAcceptedIsBuilt ==
  ASSUME NEW message \in Spot!OutboundMessage, NEW secret \in Secret, NEW now \in Nat,
         Spot!PlaceOrderFromOutbound(message).error = "no"
  PROVE  LET req == Spot!PlaceOrderFromOutbound(message).value
             form == Spot!BuildSignedFormParams(secret, req, now)
         IN  form.error = "no" /\ Spot!IsForm(form.value) /\ Spot!IsSigned(secret, form.value)
BY SpotAcceptedIsConsistent, SpotConsistentIsSigned

(***************************************************************************)
(* place_order of the spot client says Ok only of an order whose whole     *)
(* form was delivered and whose answer is a complete acknowledgement; an   *)
(* error that the venue or its answer caused also means that the form was  *)
(* delivered, so that only a transport error leaves open whether it was.   *)
(***************************************************************************)
THEOREM SpotOkIsAcknowledged ==
  ASSUME NEW secret \in Secret, NEW url \in Spot!BaseUrl, NEW req, SpotConsistent(req),
         NEW now \in Nat, NEW connection \in Spot!Connection
  PROVE  LET outcome == Spot!PlaceOrder(secret, url, req, now, connection).error
         IN  /\ outcome \in Spot!PlaceOrderError \cup {"no"}
             /\ outcome \notin {"limit requires price", "market with price"}
             /\ outcome # "transport" => Spot!Delivered(url, connection)
             /\ outcome = "no" =>
                  connection.raw.status = 200 /\ connection.raw.body = "ack"
<1> DEFINE answer == Spot!PostForm(url, connection)
<1>1. Spot!BuildSignedFormParams(secret, req, now).error = "no"
  BY SpotConsistentIsSigned
<1>2. Spot!PlaceOrder(secret, url, req, now, connection) =
        IF answer.error # "no" THEN answer ELSE Spot!ParsePlaceOrderResponse(answer.value)
  BY <1>1 DEF Spot!PlaceOrder
<1>3. \/ answer = Spot!Err("transport")
      \/ /\ Spot!Delivered(url, connection)
         /\ answer = Spot!Ok([status |-> connection.raw.status, body |-> connection.raw.body])
  BY DEF Spot!PostForm, Spot!ParseHttpsUrl, Spot!ParseHttpResponse, Spot!Delivered, Spot!Connection, Spot!Err, Spot!Ok
<1> HIDE DEF answer
<1>4. CASE answer = Spot!Err("transport")
  BY <1>2, <1>4 DEF Spot!Err, Spot!PlaceOrderError
<1>5. CASE /\ Spot!Delivered(url, connection)
           /\ answer = Spot!Ok([status |-> connection.raw.status, body |-> connection.raw.body])
  <2> DEFINE response == [status |-> connection.raw.status, body |-> connection.raw.body]
             verdict == Spot!ParsePlaceOrderResponse(response)
  <2>1. Spot!PlaceOrder(secret, url, req, now, connection) = verdict
    BY <1>2, <1>5 DEF Spot!Ok
  <2>2. /\ verdict.error \in {"no", "parse", "api", "unexpected status"}
        /\ verdict.error = "no" => response.status = 200 /\ response.body = "ack"
    BY DEF Spot!ParsePlaceOrderResponse, Spot!Err, Spot!Ok
  <2> HIDE DEF verdict
  <2> QED
    BY <1>5, <2>1, <2>2 DEF Spot!PlaceOrderError
<1> QED
  BY <1>3, <1>4, <1>5

-----------------------------------------------------------------------------
\* USD-M futures.

\* A request with a price exactly when it is a limit order.
UsdmConsistent(req) ==
  /\ req \in Usdm!PlaceOrderRequest
  /\ req.price = none <=> req.orderType = "MARKET"

LEMMA UsdmAcceptedIsConsistent ==
  ASSUME NEW message \in Usdm!OutboundMessage, Usdm!PlaceOrderFromOutbound(message).error = "no"
  PROVE  UsdmConsistent(Usdm!PlaceOrderFromOutbound(message).value)
<1> DEFINE o == message.order
<1>1. message.tag = "OrderRequest"
  BY DEF Usdm!PlaceOrderFromOutbound, Usdm!Err
<1>2. o \in Usdm!OrderRequest
  BY <1>1 DEF Usdm!OutboundMessage
<1>3. o.side \in Usdm!OrderSide /\ o.timeInForce \in Usdm!Option(Usdm!TimeInForce) /\ o.positionSide \in Usdm!Option(Usdm!PositionSide)
  BY <1>1 DEF Usdm!PlaceOrderFromOutbound, Usdm!Err
<1>4. Usdm!PlaceOrderFromOutbound(message).value =
        [symbol |-> o.symbol, side |-> o.side,
         orderType |-> IF o.price = none THEN "MARKET" ELSE "LIMIT",
         quantity |-> o.qty, price |-> o.price,
         timeInForce |-> o.timeInForce, positionSide |-> o.positionSide, clientId |-> none]
  BY <1>1, <1>3 DEF Usdm!PlaceOrderFromOutbound, Usdm!Ok
<1> QED
  BY <1>2, <1>3, <1>4 DEF UsdmConsistent, Usdm!PlaceOrderRequest, Usdm!OrderType, Usdm!OrderRequest, Usdm!Option

LEMMA UsdmConsistentIsBuilt ==
  ASSUME NEW req, UsdmConsistent(req)
  PROVE  LET params == Usdm!BuildOrderParams(req)
         IN  /\ params.error = "no"
             /\ Usdm!IsForm(params.value)
             /\ DOMAIN params.value \cap {"timestamp", "signature"} = {}
<1> DEFINE common == [symbol |-> req.symbol, side |-> req.side,
                      type |-> req.orderType, quantity |-> req.quantity,
                      positionSide |-> IF req.positionSide = none THEN "BOTH"
                                       ELSE req.positionSide]
           tif == IF req.timeInForce = none THEN "GTC" ELSE req.timeInForce
           limit == Usdm!Insert(Usdm!Insert(common, "price", req.price), "timeInForce", tif)
           named(params) == Usdm!WithClientId(params, req)
<1>1. /\ req.symbol \in Symbol /\ req.side \in Usdm!OrderSide
      /\ req.orderType \in Usdm!OrderType /\ req.quantity \in Decimal
      /\ req.price \in Usdm!Option(Decimal) /\ req.timeInForce \in Usdm!Option(Usdm!TimeInForce)
      /\ req.positionSide \in Usdm!Option(Usdm!PositionSide)
      /\ req.price = none <=> req.orderType = "MARKET"
  BY DEF UsdmConsistent, Usdm!PlaceOrderRequest
<1>2. tif \in Usdm!TimeInForce
  BY <1>1 DEF Usdm!Option, Usdm!TimeInForce
<1>9. (IF req.positionSide = none THEN "BOTH" ELSE req.positionSide) \in
        Usdm!PositionSide
  BY <1>1 DEF Usdm!Option, Usdm!PositionSide
<1> DEFINE plain == {"symbol", "side", "type", "quantity", "positionSide"}
<1>3. /\ DOMAIN common = plain
      /\ common["symbol"] = req.symbol /\ common["side"] = req.side
      /\ common["type"] = req.orderType /\ common["quantity"] = req.quantity
      /\ common["positionSide"] = (IF req.positionSide = none THEN "BOTH"
                                   ELSE req.positionSide)
  OBVIOUS
<1>4. /\ DOMAIN limit = plain \cup {"price", "timeInForce"}
      /\ \A k \in plain : limit[k] = common[k]
      /\ limit["price"] = req.price /\ limit["timeInForce"] = tif
  <2> HIDE DEF common, tif
  <2> DEFINE priced == Usdm!Insert(common, "price", req.price)
  <2>1. /\ DOMAIN priced = plain \cup {"price"}
        /\ \A k \in plain : priced[k] = common[k]
        /\ priced["price"] = req.price
    BY <1>3 DEF Usdm!Insert
  <2> HIDE DEF priced
  <2>2. limit = Usdm!Insert(priced, "timeInForce", tif)
    BY DEF priced
  <2> QED
    BY <2>1, <2>2 DEF Usdm!Insert
<1> HIDE DEF common, tif, limit
<1>5. ASSUME NEW params, plain \subseteq DOMAIN params,
             "newClientOrderId" \notin DOMAIN params
      PROVE  /\ DOMAIN named(params) \subseteq DOMAIN params \cup {"newClientOrderId"}
             /\ DOMAIN params \subseteq DOMAIN named(params)
             /\ \A k \in DOMAIN params : named(params)[k] = params[k]
  <2>1. CASE req.clientId = none
    BY <2>1 DEF Usdm!WithClientId
  <2>2. CASE req.clientId # none
    BY <2>2, <1>5 DEF Usdm!WithClientId, Usdm!Insert
  <2> QED
    BY <2>1, <2>2
<1>6. CASE req.orderType = "MARKET"
  <2>1. Usdm!BuildOrderParams(req) = Usdm!Ok(named(common))
    BY <1>1, <1>6 DEF Usdm!BuildOrderParams, common
  <2>2. /\ DOMAIN named(common) \subseteq plain \cup {"newClientOrderId"}
        /\ plain \subseteq DOMAIN named(common)
        /\ \A k \in plain : named(common)[k] = common[k]
    BY <1>3, <1>5
  <2> HIDE DEF named
  <2>3. Usdm!IsForm(named(common))
    BY <1>1, <1>3, <1>6, <2>2, <1>9 DEF Usdm!IsForm
  <2> QED
    BY <2>1, <2>2, <2>3 DEF Usdm!Ok
<1>7. CASE req.orderType = "LIMIT"
  <2>1. Usdm!BuildOrderParams(req) = Usdm!Ok(named(limit))
    BY <1>1, <1>7 DEF Usdm!BuildOrderParams, common, tif, limit
  <2>2. /\ DOMAIN named(limit) \subseteq plain \cup {"price", "timeInForce", "newClientOrderId"}
        /\ plain \cup {"price", "timeInForce"} \subseteq DOMAIN named(limit)
        /\ \A k \in plain \cup {"price", "timeInForce"} : named(limit)[k] = limit[k]
    BY <1>4, <1>5
  <2>3. req.price \in Decimal
    BY <1>1, <1>7 DEF Usdm!Option
  <2> HIDE DEF named
  <2>4. Usdm!IsForm(named(limit))
    BY <1>1, <1>2, <1>3, <1>4, <1>7, <2>2, <2>3, <1>9 DEF Usdm!IsForm
  <2> QED
    BY <2>1, <2>2, <2>4 DEF Usdm!Ok
<1> QED
  BY <1>1, <1>6, <1>7 DEF Usdm!OrderType

LEMMA UsdmConsistentIsSigned ==
  ASSUME NEW req, UsdmConsistent(req), NEW secret \in Secret, NEW now \in Nat
  PROVE  LET form == Usdm!BuildSignedFormParams(secret, req, now)
         IN  form.error = "no" /\ Usdm!IsForm(form.value) /\ Usdm!IsSigned(secret, form.value)
<1> DEFINE params == Usdm!BuildOrderParams(req).value
           stamped == Usdm!Insert(params, "timestamp", now)
           form == Usdm!Insert(stamped, "signature", Usdm!Signature(secret, stamped))
<1>1. /\ Usdm!BuildOrderParams(req).error = "no"
      /\ Usdm!IsForm(params)
      /\ DOMAIN params \cap {"timestamp", "signature"} = {}
  BY UsdmConsistentIsBuilt
<1>2. Usdm!BuildSignedFormParams(secret, req, now) = Usdm!Ok(form)
  BY <1>1 DEF Usdm!BuildSignedFormParams
<1> HIDE DEF params
<1>3. /\ DOMAIN stamped = DOMAIN params \cup {"timestamp"}
      /\ \A k \in DOMAIN params : stamped[k] = params[k]
  BY <1>1 DEF Usdm!Insert
<1>4. stamped = [k \in DOMAIN stamped |-> stamped[k]]
  BY DEF Usdm!Insert
<1> HIDE DEF stamped
<1>5. /\ DOMAIN form = DOMAIN stamped \cup {"signature"}
      /\ form["signature"] = Usdm!Signature(secret, stamped)
      /\ \A k \in DOMAIN stamped : form[k] = stamped[k]
  BY <1>1, <1>3 DEF Usdm!Insert
<1> HIDE DEF form
<1>6. Usdm!IsForm(form)
  BY <1>1, <1>3, <1>5 DEF Usdm!IsForm
<1>7. [k \in DOMAIN form \ {"signature"} |-> form[k]] = stamped
  <2>1. DOMAIN form \ {"signature"} = DOMAIN stamped
    BY <1>1, <1>3, <1>5
  <2> QED
    BY <2>1, <1>4, <1>5
<1>8. Usdm!IsSigned(secret, form)
  BY <1>3, <1>5, <1>7 DEF Usdm!IsSigned
<1> QED
  BY <1>2, <1>6, <1>8 DEF Usdm!Ok

(***************************************************************************)
(* What a USDM egress queues can always be built: the executor, which an   *)
(* error ends, never meets a builder error, and the signed form is an      *)
(* order that the venue takes, with a signature over all of it.            *)
(***************************************************************************)
THEOREM UsdmAcceptedIsBuilt ==
  ASSUME NEW message \in Usdm!OutboundMessage, NEW secret \in Secret, NEW now \in Nat,
         Usdm!PlaceOrderFromOutbound(message).error = "no"
  PROVE  LET req == Usdm!PlaceOrderFromOutbound(message).value
             form == Usdm!BuildSignedFormParams(secret, req, now)
         IN  form.error = "no" /\ Usdm!IsForm(form.value) /\ Usdm!IsSigned(secret, form.value)
BY UsdmAcceptedIsConsistent, UsdmConsistentIsSigned

(***************************************************************************)
(* place_order of the USDM client says Ok only of an order whose whole     *)
(* form was delivered and whose answer is a complete acknowledgement; an   *)
(* error that the venue or its answer caused also means that the form was  *)
(* delivered, so that only a transport error leaves open whether it was.   *)
(***************************************************************************)
THEOREM UsdmOkIsAcknowledged ==
  ASSUME NEW secret \in Secret, NEW url \in Usdm!BaseUrl, NEW req, UsdmConsistent(req),
         NEW now \in Nat, NEW connection \in Usdm!Connection
  PROVE  LET outcome == Usdm!PlaceOrder(secret, url, req, now, connection).error
         IN  /\ outcome \in Usdm!PlaceOrderError \cup {"no"}
             /\ outcome \notin {"limit requires price", "market with price"}
             /\ outcome # "transport" => Usdm!Delivered(url, connection)
             /\ outcome = "no" =>
                  connection.raw.status = 200 /\ connection.raw.body = "ack"
<1> DEFINE answer == Usdm!PostForm(url, connection)
<1>1. Usdm!BuildSignedFormParams(secret, req, now).error = "no"
  BY UsdmConsistentIsSigned
<1>2. Usdm!PlaceOrder(secret, url, req, now, connection) =
        IF answer.error # "no" THEN answer ELSE Usdm!ParsePlaceOrderResponse(answer.value)
  BY <1>1 DEF Usdm!PlaceOrder
<1>3. \/ answer = Usdm!Err("transport")
      \/ /\ Usdm!Delivered(url, connection)
         /\ answer = Usdm!Ok([status |-> connection.raw.status, body |-> connection.raw.body])
  BY DEF Usdm!PostForm, Usdm!ParseHttpsUrl, Usdm!ParseHttpResponse, Usdm!Delivered, Usdm!Connection, Usdm!Err, Usdm!Ok
<1> HIDE DEF answer
<1>4. CASE answer = Usdm!Err("transport")
  BY <1>2, <1>4 DEF Usdm!Err, Usdm!PlaceOrderError
<1>5. CASE /\ Usdm!Delivered(url, connection)
           /\ answer = Usdm!Ok([status |-> connection.raw.status, body |-> connection.raw.body])
  <2> DEFINE response == [status |-> connection.raw.status, body |-> connection.raw.body]
             verdict == Usdm!ParsePlaceOrderResponse(response)
  <2>1. Usdm!PlaceOrder(secret, url, req, now, connection) = verdict
    BY <1>2, <1>5 DEF Usdm!Ok
  <2>2. /\ verdict.error \in {"no", "parse", "api", "unexpected status"}
        /\ verdict.error = "no" => response.status = 200 /\ response.body = "ack"
    BY DEF Usdm!ParsePlaceOrderResponse, Usdm!Err, Usdm!Ok
  <2> HIDE DEF verdict
  <2> QED
    BY <1>5, <2>1, <2>2 DEF Usdm!PlaceOrderError
<1> QED
  BY <1>3, <1>4, <1>5

-----------------------------------------------------------------------------
\* The command line of the spot crate.

(***************************************************************************)
(* Every order that `trolly execute place-order` accepts on its command    *)
(* line can be built and signed, with a price or without.                  *)
(***************************************************************************)
THEOREM CliOrderIsBuilt ==
  ASSUME NEW args \in Spot!PlaceOrderArgs, NEW secret \in Secret, NEW now \in Nat
  PROVE  LET form == Spot!BuildSignedFormParams(secret, Spot!RequestOfArgs(args), now)
         IN  form.error = "no" /\ Spot!IsForm(form.value) /\ Spot!IsSigned(secret, form.value)
<1>1. SpotConsistent(Spot!RequestOfArgs(args))
  BY NoneAssumption
  DEF SpotConsistent, Spot!RequestOfArgs, Spot!Market, Spot!Limit, Spot!PlaceOrderArgs,
      Spot!PlaceOrderRequest, Spot!OrderSide, Spot!OrderType, Spot!TimeInForce, Spot!Option
<1> QED
  BY <1>1, SpotConsistentIsSigned

=============================================================================
